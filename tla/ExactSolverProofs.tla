-------------------------- MODULE ExactSolverProofs --------------------------
(***************************************************************************)
(* The exact solver returns the game-theoretic margin, for every game,     *)
(* move order, table geometry and threshold.                               *)
(*                                                                         *)
(* The argument is that of fail-soft alpha-beta: every activation keeps    *)
(* the contract of the window it was called with.  The inductive invariant *)
(* Inv says of every activation on the stack what its loop has established *)
(* so far (FrameInv), that each was called with the window and position    *)
(* its caller is waiting for (CalledBy), and that the table is sound.      *)
(*                                                                         *)
(* The second part is about the best move, the third about the line        *)
(* reported with it.                                                       *)
(***************************************************************************)
EXTENDS ExactSolver, GameTreeProofs

(***************************************************************************)
(* Bounds.                                                                 *)
(***************************************************************************)

\* A score that keeps the contract of its window is a bound of the kind
\* bound_for_score says.
LEMMA BoundSound ==
  ASSUME NEW v \in Int, NEW s \in Int, NEW a \in Int, NEW b \in Int,
         Contract(v, s, a, b)
  PROVE  BoundHolds(v, BoundForScore(s, a, b), s)
BY DEF Contract, BoundHolds, BoundForScore

\* A true bound that proves_cutoff accepts answers the window.
LEMMA CutoffSound ==
  ASSUME NEW v \in Int, NEW s \in Int, NEW a \in Int, NEW b \in Int, a < b,
         NEW bound \in Bounds, BoundHolds(v, bound, s), ProvesCutoff(bound, s, a, b)
  PROVE  Contract(v, s, a, b)
BY DEF Contract, BoundHolds, ProvesCutoff, Bounds

\* Contracts change sign with the side to move.
LEMMA ContractNegated ==
  ASSUME NEW v \in Int, NEW s \in Int, NEW a \in Int, NEW b \in Int,
         Contract(v, s, -b, -a)
  PROVE  Contract(-v, -s, a, b)
BY DEF Contract

(***************************************************************************)
(* The call stack.                                                         *)
(***************************************************************************)
LEMMA TopType ==
  ASSUME stack \in Seq(Frames), stack # << >>
  PROVE  Top \in Frames /\ Len(stack) \in Nat \ {0}
BY EmptySeq, ElementOfSeq DEF Top

LEMMA SetTopFacts ==
  ASSUME stack \in Seq(Frames), stack # << >>, NEW f \in Frames
  PROVE  /\ SetTop(f) \in Seq(Frames)
         /\ Len(SetTop(f)) = Len(stack)
         /\ SetTop(f)[Len(stack)] = f
         /\ \A i \in 1 .. Len(stack) - 1 : SetTop(f)[i] = stack[i]
<1>1. Len(stack) \in Nat \ {0}
  BY EmptySeq
<1>2. Len(stack) \in 1 .. Len(stack)
  BY <1>1
<1> QED
  BY <1>1, <1>2, ExceptSeq DEF SetTop

LEMMA PushFacts ==
  ASSUME stack \in Seq(Frames), stack # << >>, NEW f \in Frames, NEW g \in Frames
  PROVE  LET s == Append(SetTop(f), g)
         IN  /\ s \in Seq(Frames)
             /\ Len(s) = Len(stack) + 1
             /\ s[Len(stack) + 1] = g
             /\ s[Len(stack)] = f
             /\ \A i \in 1 .. Len(stack) - 1 : s[i] = stack[i]
<1>1. Len(stack) \in Nat \ {0}
  BY EmptySeq
<1> QED
  BY <1>1, SetTopFacts, AppendProperties

LEMMA PopFacts ==
  ASSUME stack \in Seq(Frames), stack # << >>
  PROVE  /\ Popped \in Seq(Frames)
         /\ Len(Popped) = Len(stack) - 1
         /\ \A i \in 1 .. Len(stack) - 1 : Popped[i] = stack[i]
<1>1. Len(stack) \in Nat \ {0}
  BY EmptySeq
<1>2. \A i \in 1 .. Len(stack) - 1 : stack[i] \in Frames
  BY <1>1, ElementOfSeq
<1> DEFINE n == Len(stack) - 1
<1>3. /\ SubSeq(stack, 1, n) \in Seq(Frames)
      /\ Len(SubSeq(stack, 1, n)) = IF 1 <= n THEN n - 1 + 1 ELSE 0
      /\ \A i \in 1 .. n - 1 + 1 : SubSeq(stack, 1, n)[i] = stack[1 + i - 1]
  <2>1. 1 \in Int /\ n \in Int
    BY <1>1
  <2> HIDE DEF n
  <2>2. \A i \in 1 .. n : stack[i] \in Frames
    BY <1>2 DEF n
  <2> QED
    BY <2>1, <2>2, SubSeqProperties
<1>4. Popped = SubSeq(stack, 1, n)
  BY DEF Popped
<1>5. n \in Nat
  BY <1>1
<1> HIDE DEF n
<1>6. Len(Popped) = n
  BY <1>3, <1>4, <1>5
<1>7. \A i \in 1 .. n : Popped[i] = stack[i]
  <2> TAKE i \in 1 .. n
  <2>1. i \in 1 .. n - 1 + 1 /\ 1 + i - 1 = i
    BY <1>5
  <2> QED
    BY <2>1, <1>3, <1>4
<1> QED
  BY <1>3, <1>4, <1>6, <1>7 DEF n

(***************************************************************************)
(* The table.                                                              *)
(***************************************************************************)

\* A store changes at most one slot, to the new entry.
LEMMA StoreFacts ==
  ASSUME tt \in Tables, NEW p \in Positions, NEW s \in Int, NEW a \in Int,
         NEW b \in Int, NEW m \in Squares \cup {NoMove}
  PROVE  LET t == Store(tt, p, Empties[p], s, a, b, m)
         IN  /\ t \in Tables
             /\ \A k \in Buckets : \A i \in Slots :
                  t[k][i] \in {tt[k][i], NewEntry(p, Empties[p], s, a, b, m)}
<1> DEFINE entry == NewEntry(p, Empties[p], s, a, b, m)
           t == Store(tt, p, Empties[p], s, a, b, m)
<1>1. entry \in Entries
  BY GameTypes DEF NewEntry, Entries, BoundForScore, Bounds
<1>2. CASE ~Enabled(p)
  BY <1>2 DEF Store, Tables
<1>3. CASE Enabled(p)
  <2>1. BucketIndex[p] \in Buckets
    BY <1>3, TableAssumption DEF Enabled
  <2> QED
    BY <1>1, <1>3, <2>1 DEF Store, Tables
<1> QED
  BY <1>2, <1>3

\* An entry lookup can find is an occupied slot of the table.
LEMMA MatchingFacts ==
  ASSUME tt \in Tables, NEW p \in Positions, NEW e \in Matching(tt, p, Empties[p])
  PROVE  /\ e \in Entries
         /\ e.hash = p
         /\ \E k \in Buckets : \E i \in Slots : tt[k][i] = e /\ e.occupied
<1>1. Enabled(p) /\ BucketIndex[p] \in Buckets
  BY TableAssumption DEF Matching, Enabled
<1>2. PICK i \in Slots : /\ e = tt[BucketIndex[p]][i]
                         /\ Holds(tt[BucketIndex[p]], i, p)
  BY <1>1 DEF Matching, IsFirst
<1>3. e.occupied /\ e.hash = p
  BY <1>2 DEF Holds
<1>4. e \in Entries
  BY <1>1, <1>2, <1>3 DEF Tables, EmptySlot
<1> QED
  BY <1>1, <1>2, <1>3, <1>4

\* The preferred move is a square or none.
LEMMA HintType ==
  ASSUME tt \in Tables, NEW p \in Positions
  PROVE  BestMoveHint(tt, p, Empties[p]) \in Squares \cup {NoMove}
<1>1. CASE \A e \in Matching(tt, p, Empties[p]) : e.bound # "Lower"
  BY <1>1 DEF BestMoveHint
<1>2. CASE \E e \in Matching(tt, p, Empties[p]) : e.bound = "Lower"
  <2>1. PICK e \in Matching(tt, p, Empties[p]) :
          BestMoveHint(tt, p, Empties[p]) = e.best_move_index
    BY <1>2 DEF BestMoveHint
  <2>2. e \in Entries
    BY <2>1, MatchingFacts
  <2> QED
    BY <2>1, <2>2 DEF Entries
<1> QED
  BY <1>1, <1>2

(***************************************************************************)
(* The inductive invariant.                                                *)
(***************************************************************************)
CandidateStages == Waiting \ {"pass"}

\* The moves the loop of f is done with.
Searched(f) ==
  Moves[f.pos] \ (f.todo \cup IF f.stage = "loop" THEN {} ELSE {f.cur})

\* What the loop of f has established.
LoopInv(f) ==
  IF f.best.best_move = NoMove
  THEN Searched(f) = {} /\ f.alpha = f.original_alpha
  ELSE /\ f.alpha = MaxOf(f.original_alpha, f.best.score)
       /\ f.best.best_move \in Searched(f)
       /\ f.best.score > f.original_alpha => Value[f.pos] >= f.best.score
       /\ f.alpha < f.beta =>
            \A m \in Searched(f) : -Value[Play[f.pos][m]] <= f.best.score
       /\ IsRootLoop(f) =>
            /\ f.best.score = -Value[Play[f.pos][f.best.best_move]]
            /\ \A m \in Searched(f) :
                 -Value[Play[f.pos][m]] = f.best.score => f.best.best_move <= m

FullWindow(f) == f.original_alpha = ScoreMin /\ f.beta = ScoreMax

FrameInv(f) ==
  /\ f.original_alpha < f.beta
  /\ f.is_root => FullWindow(f)
  /\ f.todo \subseteq Moves[f.pos]
  /\ f.stage \in {"enter", "pass"} => f.alpha = f.original_alpha /\ f.best = NoCandidate
  /\ f.stage = "pass" => Moves[f.pos] = {} /\ ~Terminal(f.pos)
  /\ f.stage \in CandidateStages =>
       f.cur \in Moves[f.pos] \ f.todo /\ f.alpha < f.beta
  /\ f.stage \in CandidateStages \cup {"loop"} => LoopInv(f) /\ Moves[f.pos] # {}
  /\ f.stage \in {"root_scout", "root_full"} => IsRootLoop(f)
  /\ f.stage = "root_scout" => f.best.best_move # NoMove
  /\ f.stage \in {"full", "scout", "research"} => ~IsRootLoop(f)

CalledBy(c, f) ==
  /\ f.stage \in Waiting
  /\ c.pos = ChildPos(f)
  /\ c.original_alpha = ChildAlpha(f)
  /\ c.beta = ChildBeta(f)

SameCall(f, g) ==
  f.pos = g.pos /\ f.original_alpha = g.original_alpha /\ f.beta = g.beta

ControlInv ==
  /\ \A i \in 1 .. Len(stack) : FrameInv(stack[i])
  /\ \A i \in 1 .. Len(stack) - 1 : CalledBy(stack[i + 1], stack[i])
  /\ stack # << >> => stack[1].pos = root /\ FullWindow(stack[1])
  /\ ret = NoResult => stack # << >> /\ Top.stage \in {"enter", "loop"}
  /\ ret # NoResult /\ stack # << >> =>
       /\ Top.stage \in Waiting
       /\ Contract(Value[ChildPos(Top)], ret.score, ChildAlpha(Top), ChildBeta(Top))
  /\ ret # NoResult /\ stack = << >> => ret.score = Value[root]

Inv == TypeOK /\ ControlInv /\ TableSound

LEMMA ValueType ==
  ASSUME NEW p \in Positions
  PROVE  Value[p] \in Int /\ Value[p] >= -64 /\ Value[p] <= 64
BY ValueEquation DEF FinalDiscMarginMax

\* In the full window a score that keeps the contract is the value.
LEMMA FullWindowExact ==
  ASSUME NEW p \in Positions, NEW s \in Int,
         Contract(Value[p], s, ScoreMin, ScoreMax)
  PROVE  s = Value[p]
BY ValueType DEF Contract, ScoreMin, ScoreMax

\* The call a waiting frame makes is well formed.
LEMMA ChildFrame ==
  ASSUME NEW f \in Frames, FrameInv(f), f.stage \in Waiting
  PROVE  /\ ChildPos(f) \in Positions
         /\ ChildAlpha(f) \in Int /\ ChildBeta(f) \in Int
         /\ ChildAlpha(f) < ChildBeta(f)
         /\ ChildIsRoot(f) =>
              ChildAlpha(f) = ScoreMin /\ ChildBeta(f) = ScoreMax
<1>1. ChildPos(f) \in Positions
  <2>1. CASE f.stage = "pass"
    BY <2>1, GameTypes DEF FrameInv, Frames, ChildPos
  <2>2. CASE f.stage # "pass"
    BY <2>2, GameTypes DEF FrameInv, Frames, ChildPos, Waiting, CandidateStages
  <2> QED
    BY <2>1, <2>2
<1>2. f.alpha \in Int /\ f.beta \in Int /\ f.original_alpha \in Int /\ f.alpha < f.beta
  BY DEF FrameInv, Frames, Waiting, CandidateStages
<1>3. RequiredScore(f) \in Int
  BY DEF RequiredScore, Frames, NodeResults
<1>4. /\ ChildAlpha(f) \in Int /\ ChildBeta(f) \in Int
      /\ ChildAlpha(f) < ChildBeta(f)
  BY <1>2, <1>3 DEF ChildAlpha, ChildBeta, ScoreMin, ScoreMax
<1>5. ChildIsRoot(f) => ChildAlpha(f) = ScoreMin /\ ChildBeta(f) = ScoreMax
  BY DEF ChildIsRoot, ChildAlpha, ChildBeta, FrameInv, FullWindow, ScoreMin, ScoreMax
<1> QED
  BY <1>1, <1>4, <1>5

LEMMA NewFrameInv ==
  ASSUME NEW p \in Positions, NEW a \in Int, NEW b \in Int, NEW r \in BOOLEAN,
         a < b, r => a = ScoreMin /\ b = ScoreMax
  PROVE  NewFrame(p, a, b, r) \in Frames /\ FrameInv(NewFrame(p, a, b, r))
<1>1. NoCandidate \in NodeResults
  BY DEF NoCandidate, NodeResults
<1>2. NewFrame(p, a, b, r) \in Frames
  BY <1>1 DEF NewFrame, Frames
<1>3. FrameInv(NewFrame(p, a, b, r))
  BY DEF NewFrame, FrameInv, FullWindow, Waiting, CandidateStages
<1> QED
  BY <1>2, <1>3

(***************************************************************************)
(* The three ways a step moves control: a call, a loop step, a return.     *)
(***************************************************************************)
LEMMA CallStep ==
  ASSUME TypeOK, ControlInv, stack # << >>,
         NEW f \in Frames, SameCall(f, Top), FrameInv(f), f.stage \in Waiting,
         Call(f)
  PROVE  TypeOK' /\ ControlInv'
<1> DEFINE n == Len(stack)
           g == NewFrame(ChildPos(f), ChildAlpha(f), ChildBeta(f), ChildIsRoot(f))
<1>1. n \in Nat \ {0} /\ Top = stack[n]
  BY TopType DEF Top, TypeOK
<1>2. g \in Frames /\ FrameInv(g)
  <2>1. ChildIsRoot(f) \in BOOLEAN
    BY DEF ChildIsRoot, Frames
  <2> QED
    BY <2>1, ChildFrame, NewFrameInv
<1>3. /\ stack' \in Seq(Frames)
      /\ Len(stack') = n + 1
      /\ stack'[n + 1] = g
      /\ stack'[n] = f
      /\ \A i \in 1 .. n - 1 : stack'[i] = stack[i]
  BY <1>2, PushFacts DEF Call, TypeOK
<1>4. Top' = g /\ ret' = NoResult /\ g.stage = "enter" /\ stack' # << >>
  BY <1>1, <1>3, EmptySeq DEF Call, Top, NewFrame
<1>5. CalledBy(g, f)
  BY DEF CalledBy, NewFrame
<1>6. \A i \in 1 .. n : FrameInv(stack[i])
  BY DEF ControlInv
<1>7. \A i \in 1 .. n - 1 : CalledBy(stack[i + 1], stack[i])
  BY DEF ControlInv
<1> HIDE DEF n, g
<1>8. \A i \in 1 .. n + 1 : FrameInv(stack'[i])
  <2> TAKE i \in 1 .. n + 1
  <2>1. CASE i = n + 1
    BY <2>1, <1>2, <1>3
  <2>2. CASE i = n
    BY <2>2, <1>3
  <2>3. CASE i \in 1 .. n - 1
    <3>1. i \in 1 .. n
      BY <1>1, <2>3
    <3> QED
      BY <2>3, <3>1, <1>3, <1>6
  <2> QED
    BY <1>1, <2>1, <2>2, <2>3
<1>9. \A i \in 1 .. n : CalledBy(stack'[i + 1], stack'[i])
  <2> TAKE i \in 1 .. n
  <2>1. CASE i = n
    BY <2>1, <1>3, <1>5
  <2>2. CASE i \in 1 .. n - 1 /\ i + 1 = n
    <3>1. CalledBy(Top, stack[i])
      BY <2>2, <1>1, <1>7
    <3>2. CalledBy(f, stack[i])
      BY <3>1 DEF CalledBy, SameCall
    <3> QED
      BY <3>2, <2>2, <1>3
  <2>3. CASE i \in 1 .. n - 1 /\ i + 1 # n
    <3>1. i + 1 \in 1 .. n - 1
      BY <2>3, <1>1
    <3> QED
      BY <3>1, <2>3, <1>3, <1>7
  <2> QED
    BY <1>1, <2>1, <2>2, <2>3
<1>10. stack'[1].pos = root' /\ FullWindow(stack'[1])
  <2>1. stack[1].pos = root /\ FullWindow(stack[1]) /\ root' = root
    BY DEF ControlInv, Call
  <2>2. CASE n = 1
    BY <2>1, <2>2, <1>1, <1>3 DEF SameCall, FullWindow
  <2>3. CASE n # 1
    <3>1. 1 \in 1 .. n - 1
      BY <2>3, <1>1
    <3> QED
      BY <3>1, <2>1, <1>3
  <2> QED
    BY <2>2, <2>3
<1>11. TypeOK'
  BY <1>3 DEF TypeOK, Call
<1>12. Len(stack') - 1 = n
  BY <1>1, <1>3
<1>13. ControlInv'
  <2>1. (\A i \in 1 .. Len(stack) : FrameInv(stack[i]))'
    BY <1>3, <1>8
  <2>2. (\A i \in 1 .. Len(stack) - 1 : CalledBy(stack[i + 1], stack[i]))'
    BY <1>9, <1>12
  <2> QED
    BY <1>4, <1>10, <2>1, <2>2 DEF ControlInv
<1> QED
  BY <1>11, <1>13

LEMMA ContinueStep ==
  ASSUME TypeOK, ControlInv, stack # << >>,
         NEW f \in Frames, SameCall(f, Top), FrameInv(f), f.stage = "loop",
         Continue(f)
  PROVE  TypeOK' /\ ControlInv'
<1> DEFINE n == Len(stack)
<1>1. n \in Nat \ {0} /\ Top = stack[n]
  BY TopType DEF Top, TypeOK
<1>3. /\ stack' \in Seq(Frames)
      /\ Len(stack') = n
      /\ stack'[n] = f
      /\ \A i \in 1 .. n - 1 : stack'[i] = stack[i]
  BY SetTopFacts DEF Continue, TypeOK
<1>4. Top' = f /\ ret' = NoResult /\ f.stage = "loop" /\ stack' # << >>
  BY <1>1, <1>3, EmptySeq DEF Continue, Top
<1>6. \A i \in 1 .. n : FrameInv(stack[i])
  BY DEF ControlInv
<1>7. \A i \in 1 .. n - 1 : CalledBy(stack[i + 1], stack[i])
  BY DEF ControlInv
<1> HIDE DEF n
<1>8. \A i \in 1 .. n : FrameInv(stack'[i])
  <2> TAKE i \in 1 .. n
  <2>1. CASE i = n
    BY <2>1, <1>3
  <2>2. CASE i \in 1 .. n - 1
    BY <2>2, <1>3, <1>6
  <2> QED
    BY <1>1, <2>1, <2>2
<1>9. \A i \in 1 .. n - 1 : CalledBy(stack'[i + 1], stack'[i])
  <2> TAKE i \in 1 .. n - 1
  <2>2. CASE i + 1 = n
    <3>1. CalledBy(Top, stack[i])
      BY <2>2, <1>1, <1>7
    <3>2. CalledBy(f, stack[i])
      BY <3>1 DEF CalledBy, SameCall
    <3> QED
      BY <3>2, <2>2, <1>3
  <2>3. CASE i + 1 # n
    <3>1. i + 1 \in 1 .. n - 1
      BY <2>3, <1>1
    <3> QED
      BY <3>1, <2>3, <1>3, <1>7
  <2> QED
    BY <2>2, <2>3
<1>10. stack'[1].pos = root' /\ FullWindow(stack'[1])
  <2>1. stack[1].pos = root /\ FullWindow(stack[1]) /\ root' = root
    BY DEF ControlInv, Continue
  <2>2. CASE n = 1
    BY <2>1, <2>2, <1>1, <1>3 DEF SameCall, FullWindow
  <2>3. CASE n # 1
    <3>1. 1 \in 1 .. n - 1
      BY <2>3, <1>1
    <3> QED
      BY <3>1, <2>1, <1>3
  <2> QED
    BY <2>2, <2>3
<1>11. TypeOK'
  BY <1>3 DEF TypeOK, Continue
<1>13. ControlInv'
  BY <1>3, <1>4, <1>8, <1>9, <1>10 DEF ControlInv
<1> QED
  BY <1>11, <1>13

LEMMA ReturnStep ==
  ASSUME TypeOK, ControlInv, stack # << >>,
         NEW r \in NodeResults, Return(r), tt' \in Tables,
         Contract(Value[Top.pos], r.score, Top.original_alpha, Top.beta)
  PROVE  TypeOK' /\ ControlInv'
<1> DEFINE n == Len(stack)
<1>1. n \in Nat \ {0} /\ Top = stack[n] /\ Top \in Frames
  BY TopType DEF Top, TypeOK
<1>2. /\ stack' \in Seq(Frames)
      /\ Len(stack') = n - 1
      /\ \A i \in 1 .. n - 1 : stack'[i] = stack[i]
  BY PopFacts DEF Return, TypeOK
<1>3. ret' = r /\ ret' # NoResult /\ root' = root
  <2>1. r.best_move # NoResult.best_move
    <3>1. r.best_move \in Squares \cup {NoMove}
      BY DEF NodeResults
    <3>2. NoResult.best_move = -2
      BY DEF NoResult
    <3>3. \A m \in Squares \cup {NoMove} : m # -2
      BY DEF Squares, NoMove
    <3> QED
      BY <3>1, <3>2, <3>3
  <2> QED
    BY <2>1 DEF Return
<1>4. \A i \in 1 .. n : FrameInv(stack[i])
  BY DEF ControlInv
<1>5. \A i \in 1 .. n - 1 : CalledBy(stack[i + 1], stack[i])
  BY DEF ControlInv
<1>6. stack[1].pos = root /\ FullWindow(stack[1])
  BY DEF ControlInv
<1> HIDE DEF n
<1>7. \A i \in 1 .. n - 1 : FrameInv(stack'[i])
  <2> TAKE i \in 1 .. n - 1
  <2>1. i \in 1 .. n
    BY <1>1
  <2> QED
    BY <2>1, <1>2, <1>4
<1>8. \A i \in 1 .. n - 1 - 1 : CalledBy(stack'[i + 1], stack'[i])
  <2> TAKE i \in 1 .. n - 1 - 1
  <2>1. i \in 1 .. n - 1 /\ i + 1 \in 1 .. n - 1
    BY <1>1
  <2> QED
    BY <2>1, <1>2, <1>5
<1>9. TypeOK'
  BY <1>2, <1>3 DEF TypeOK
<1>10. CASE n = 1
  <2>1. stack' = << >>
    BY <1>10, <1>2, EmptySeq
  <2>2. Top.pos \in Positions /\ r.score \in Int /\ r.score = Value[root]
    BY <1>1, <1>6, <1>10, FullWindowExact DEF FullWindow, Frames, NodeResults
  <2> QED
    BY <1>2, <1>3, <1>7, <1>8, <1>9, <2>1, <2>2 DEF ControlInv
<1>11. CASE n # 1
  <2>1. n - 1 \in 1 .. n - 1 /\ 1 \in 1 .. n - 1 /\ n - 1 + 1 = n
    BY <1>1, <1>11
  <2>2. stack' # << >>
    BY <1>2, <1>11, <1>1, EmptySeq
  <2>3. Top' = stack[n - 1]
    BY <2>1, <1>2 DEF Top
  <2>4. CalledBy(Top, stack[n - 1])
    BY <2>1, <1>1, <1>5
  <2>5. /\ Top'.stage \in Waiting
        /\ Contract(Value[ChildPos(Top')], r.score, ChildAlpha(Top'), ChildBeta(Top'))
    BY <2>3, <2>4 DEF CalledBy
  <2>6. Contract(Value[ChildPos(Top)], ret.score, ChildAlpha(Top), ChildBeta(Top))'
    BY <2>5, <1>3 DEF Contract, ChildPos, ChildAlpha, ChildBeta, RequiredScore
  <2>7. stack'[1].pos = root' /\ FullWindow(stack'[1])
    BY <2>1, <1>2, <1>3, <1>6
  <2> QED
    BY <1>2, <1>3, <1>7, <1>8, <1>9, <2>2, <2>5, <2>6, <2>7 DEF ControlInv
<1> QED
  BY <1>10, <1>11

(***************************************************************************)
(* What a candidate's score adds to the loop invariant.                    *)
(***************************************************************************)
LEMMA CandidateScore ==
  ASSUME NEW f \in Frames, FrameInv(f), ret \in NodeResults,
         Contract(Value[ChildPos(f)], ret.score, ChildAlpha(f), ChildBeta(f)),
         \/ f.stage \in {"root_full", "full", "research"}
         \/ f.stage = "scout" /\ (-ret.score <= f.alpha \/ -ret.score >= f.beta),
         NEW v, v = -Value[Play[f.pos][f.cur]]
  PROVE  /\ v \in Int /\ ret.score \in Int
         /\ -ret.score > f.alpha => v >= -ret.score
         /\ -ret.score < f.beta => v <= -ret.score
         /\ IsRootLoop(f) => v = -ret.score
<1>1. f.stage \in CandidateStages /\ f.alpha < f.beta /\ f.cur \in Moves[f.pos]
  BY DEF FrameInv, CandidateStages, Waiting
<1>2. ChildPos(f) = Play[f.pos][f.cur] /\ ChildPos(f) \in Positions
  BY <1>1, GameTypes DEF ChildPos, CandidateStages, Frames
<1>3. Value[ChildPos(f)] \in Int /\ v = -Value[ChildPos(f)] /\ ret.score \in Int
  BY <1>2, ValueType DEF NodeResults
<1>4. f.alpha \in Int /\ f.beta \in Int
  BY DEF Frames
<1>5. CASE f.stage = "root_full"
  <2>1. ret.score = Value[ChildPos(f)]
    BY <1>2, <1>3, <1>5, FullWindowExact DEF ChildAlpha, ChildBeta
  <2> QED
    BY <2>1, <1>3, <1>4
<1>6. CASE f.stage \in {"full", "research"}
  <2>1. Contract(Value[ChildPos(f)], ret.score, -f.beta, -f.alpha)
    BY <1>6 DEF ChildAlpha, ChildBeta
  <2>2. ~IsRootLoop(f)
    BY <1>6 DEF FrameInv
  <2> QED
    BY <1>1, <1>3, <1>4, <2>1, <2>2 DEF Contract
<1>7. CASE f.stage = "scout"
  <2>1. Contract(Value[ChildPos(f)], ret.score, -(f.alpha + 1), -f.alpha)
    BY <1>7 DEF ChildAlpha, ChildBeta
  <2>2. ~IsRootLoop(f)
    BY <1>7 DEF FrameInv
  <2>3. -ret.score <= f.alpha \/ -ret.score >= f.beta
    BY <1>7
  <2> QED
    BY <1>1, <1>3, <1>4, <2>1, <2>2, <2>3 DEF Contract
<1> QED
  BY <1>5, <1>6, <1>7

LEMMA AfterCandidateInv ==
  ASSUME NEW f \in Frames, FrameInv(f), ret \in NodeResults,
         Contract(Value[ChildPos(f)], ret.score, ChildAlpha(f), ChildBeta(f)),
         \/ f.stage \in {"root_full", "full", "research"}
         \/ f.stage = "scout" /\ (-ret.score <= f.alpha \/ -ret.score >= f.beta)
  PROVE  LET g == AfterCandidate(f)
         IN  /\ g \in Frames /\ FrameInv(g)
             /\ SameCall(g, f) /\ g.stage = "loop"
<1> DEFINE c == -ret.score
           v == -Value[Play[f.pos][f.cur]]
           new == [score |-> c, best_move |-> f.cur, pv |-> <<f.cur>> \o ret.pv]
           better == IsBetterBestMove(c, f.cur, f.best)
           g == AfterCandidate(f)
<1>1. f.stage \in CandidateStages /\ f.alpha < f.beta /\ LoopInv(f)
  BY DEF FrameInv, CandidateStages, Waiting
<1>2. f.cur \in Moves[f.pos] \ f.todo /\ f.cur \in Squares
  BY <1>1, GameTypes DEF FrameInv, Frames
<1>3. /\ v \in Int /\ c \in Int
      /\ c > f.alpha => v >= c
      /\ c < f.beta => v <= c
      /\ IsRootLoop(f) => v = c
  BY CandidateScore
<1>4. new \in NodeResults
  <2>1. <<f.cur>> \in Seq(Squares) /\ ret.pv \in Seq(Squares)
    BY <1>2 DEF NodeResults
  <2>2. <<f.cur>> \o ret.pv \in Seq(Squares)
    BY <2>1, ConcatProperties
  <2> QED
    BY <1>2, <1>3, <2>2 DEF NodeResults
<1>5. /\ f.alpha \in Int /\ f.beta \in Int /\ f.original_alpha \in Int
      /\ f.best \in NodeResults /\ f.best.score \in Int
      /\ f.best.best_move \in Int
  <2>1. f.alpha \in Int /\ f.beta \in Int /\ f.original_alpha \in Int
        /\ f.best \in NodeResults
    BY DEF Frames
  <2>2. f.best.score \in Int /\ f.best.best_move \in Squares \cup {NoMove}
    BY <2>1 DEF NodeResults
  <2>3. f.best.best_move \in Int
    BY <2>2 DEF Squares, NoMove
  <2> QED
    BY <2>1, <2>2, <2>3
<1>6. /\ g.best = IF better THEN new ELSE f.best
      /\ g.alpha = MaxOf(f.alpha, c)
      /\ g.stage = "loop" /\ g.cur = NoMove
      /\ g.pos = f.pos /\ g.original_alpha = f.original_alpha /\ g.beta = f.beta
      /\ g.todo = f.todo /\ g.is_root = f.is_root
  BY DEF AfterCandidate, Frames
<1>7. g \in Frames
  <2>1. MaxOf(f.alpha, c) \in Int
    BY <1>3, <1>5 DEF MaxOf
  <2>2. (IF better THEN new ELSE f.best) \in NodeResults
    BY <1>4, <1>5
  <2> HIDE DEF better, new
  <2>3. g = [f EXCEPT !.best = IF better THEN new ELSE f.best,
                      !.alpha = MaxOf(f.alpha, c), !.cur = NoMove, !.stage = "loop"]
    BY DEF AfterCandidate, better, new
  <2> QED
    BY <2>1, <2>2, <2>3 DEF Frames
<1>8. Searched(g) = Searched(f) \cup {f.cur}
  BY <1>1, <1>2, <1>6 DEF Searched, CandidateStages, Waiting
<1>9. IsRootLoop(g) <=> IsRootLoop(f)
  BY <1>6 DEF IsRootLoop, InTail
<1>10. new.score = c /\ new.best_move = f.cur /\ f.cur # NoMove /\ f.cur \in Int
  BY <1>2 DEF Squares, NoMove
<1>11. Value[f.pos] >= v /\ Value[f.pos] \in Int
  BY <1>2, ValueEquation, ValueType DEF Frames
<1>12. \A m \in Searched(f) :
         Play[f.pos][m] \in Positions /\ Value[Play[f.pos][m]] \in Int /\ m \in Int
  BY GameTypes, ValueType DEF Searched, Frames, Squares
<1>13. g.best.best_move # NoMove
  BY <1>6, <1>10 DEF IsBetterBestMove
<1> HIDE DEF c, v, new, g
<1>14. LoopInv(g)
  <2>1. CASE f.best.best_move = NoMove
    <3>1. better
      BY <2>1 DEF IsBetterBestMove
    <3>2. Searched(f) = {} /\ f.alpha = f.original_alpha
      BY <1>1, <2>1 DEF LoopInv
    <3>3. Searched(g) = {f.cur}
      BY <3>2, <1>8
    <3>4. g.best.score = c /\ g.best.best_move = f.cur
      BY <3>1, <1>6, <1>10
    <3>5. c < f.beta => -Value[Play[f.pos][f.cur]] <= c
      BY <1>3 DEF v
    <3>6. IsRootLoop(f) => c = -Value[Play[f.pos][f.cur]]
      BY <1>3 DEF v
    <3> QED
      BY <3>2, <3>3, <3>4, <3>5, <3>6, <1>3, <1>5, <1>6, <1>9, <1>10, <1>11, <1>13
         DEF LoopInv, MaxOf
  <2>2. CASE f.best.best_move # NoMove
    <3>1. /\ f.alpha = MaxOf(f.original_alpha, f.best.score)
          /\ f.best.best_move \in Searched(f)
          /\ f.best.score > f.original_alpha => Value[f.pos] >= f.best.score
          /\ \A m \in Searched(f) : -Value[Play[f.pos][m]] <= f.best.score
          /\ IsRootLoop(f) =>
               /\ f.best.score = -Value[Play[f.pos][f.best.best_move]]
               /\ \A m \in Searched(f) :
                    -Value[Play[f.pos][m]] = f.best.score => f.best.best_move <= m
      BY <1>1, <2>2 DEF LoopInv
    <3>2. better <=> c > f.best.score \/ (c = f.best.score /\ f.cur < f.best.best_move)
      BY <2>2 DEF IsBetterBestMove
    <3>3. /\ g.best.score >= f.best.score /\ g.best.score >= c
          /\ g.best.score \in {f.best.score, c}
      BY <3>2, <1>3, <1>5, <1>6, <1>10
    <3>4. g.alpha = MaxOf(g.original_alpha, g.best.score)
      BY <3>1, <3>2, <1>3, <1>5, <1>6, <1>10 DEF MaxOf
    <3>5. g.best.best_move \in Searched(g)
      BY <3>1, <1>6, <1>8, <1>10
    <3>6. g.best.score > g.original_alpha => Value[g.pos] >= g.best.score
      BY <3>1, <3>2, <1>3, <1>5, <1>6, <1>10, <1>11 DEF MaxOf
    <3>7. ASSUME g.alpha < g.beta, NEW m \in Searched(g)
          PROVE  -Value[Play[g.pos][m]] <= g.best.score
      <4>1. CASE m = f.cur
        <5>1. c < f.beta
          BY <3>7, <1>3, <1>5, <1>6 DEF MaxOf
        <5>2. -Value[Play[g.pos][m]] = v
          BY <4>1, <1>6 DEF v
        <5> QED
          BY <5>1, <5>2, <3>3, <1>3, <1>5
      <4>2. CASE m \in Searched(f)
        BY <4>2, <3>1, <3>3, <1>3, <1>5, <1>6, <1>12
      <4> QED
        BY <4>1, <4>2, <1>8
    <3>8. ASSUME IsRootLoop(g)
          PROVE  /\ g.best.score = -Value[Play[g.pos][g.best.best_move]]
                 /\ \A m \in Searched(g) :
                      -Value[Play[g.pos][m]] = g.best.score => g.best.best_move <= m
      <4>1. c = -Value[Play[g.pos][f.cur]]
        BY <3>8, <1>3, <1>6, <1>9 DEF v
      <4>2. g.best.score = -Value[Play[g.pos][g.best.best_move]]
        BY <4>1, <3>1, <3>8, <1>6, <1>9, <1>10
      <4>3. ASSUME NEW m \in Searched(g), -Value[Play[g.pos][m]] = g.best.score
            PROVE  g.best.best_move <= m
        <5>1. CASE m = f.cur
          BY <5>1, <4>1, <4>3, <3>2, <1>3, <1>5, <1>6, <1>10
        <5>2. CASE m \in Searched(f)
          <6>1. -Value[Play[f.pos][m]] <= f.best.score
            BY <5>2, <3>1
          <6>2. -Value[Play[f.pos][m]] = f.best.score => f.best.best_move <= m
            BY <5>2, <3>1, <3>8, <1>9
          <6>3. -Value[Play[f.pos][m]] = g.best.score /\ m \in Int
            BY <4>3, <5>2, <1>6, <1>12
          <6> QED
            BY <6>1, <6>2, <6>3, <3>2, <1>3, <1>5, <1>6, <1>10
        <5> QED
          BY <5>1, <5>2, <1>8
      <4> QED
        BY <4>2, <4>3
    <3> QED
      BY <3>4, <3>5, <3>6, <3>7, <3>8, <1>13 DEF LoopInv
  <2> QED
    BY <2>1, <2>2
<1>15. FrameInv(g)
  <2>1. g.todo \subseteq Moves[g.pos] /\ Moves[g.pos] # {}
    BY <1>2, <1>6 DEF FrameInv
  <2>2. g.original_alpha < g.beta /\ (g.is_root => FullWindow(g))
    BY <1>6 DEF FrameInv, FullWindow
  <2> QED
    BY <1>6, <1>14, <2>1, <2>2 DEF FrameInv, CandidateStages, Waiting
<1>16. SameCall(g, f) /\ g.stage = "loop"
  BY <1>6 DEF SameCall
<1> QED
  BY <1>7, <1>15, <1>16 DEF g

(***************************************************************************)
(* Leaves of the search.                                                   *)
(***************************************************************************)

\* With at most one empty square the tail functions compute the value.
LEMMA LastSquareExact ==
  ASSUME NEW p \in Positions, Empties[p] <= 1
  PROVE  /\ SolveLast1Result(p) \in NodeResults
         /\ SolveLast1Result(p).score = Value[p]
<1> DEFINE sq(q) == CHOOSE m \in Moves[q] : TRUE
           last(q) == Play[q][sq(q)]
<1>1. \A q \in Positions : Empties[q] = 0 => Terminal(q) /\ Value[q] = Margin[q]
  <2> SUFFICES ASSUME NEW q \in Positions, Empties[q] = 0
               PROVE  Terminal(q) /\ Value[q] = Margin[q]
    OBVIOUS
  <2>1. Moves[q] = {} /\ Pass[q] \in Positions /\ Empties[Pass[q]] = 0
    BY GameTypes, GameProgress
  <2>2. Moves[Pass[q]] = {}
    BY <2>1, GameProgress
  <2> QED
    BY <2>1, <2>2, ValueEquation DEF Terminal
<1>2. \A q \in Positions : Empties[q] <= 1 /\ Moves[q] # {} =>
        /\ sq(q) \in Moves[q] /\ last(q) \in Positions
        /\ Value[q] = -Margin[last(q)]
  <2> SUFFICES ASSUME NEW q \in Positions, Empties[q] <= 1, Moves[q] # {}
               PROVE  /\ sq(q) \in Moves[q] /\ last(q) \in Positions
                      /\ Value[q] = -Margin[last(q)]
    OBVIOUS
  <2>1. sq(q) \in Moves[q]
    OBVIOUS
  <2>2. Empties[q] = 1
    BY GameTypes, GameProgress
  <2>3. PICK m \in Moves[q] : Value[q] = -Value[Play[q][m]]
    BY ValueEquation
  <2>4. m = sq(q)
    BY <2>1, <2>2, SolverAssumption
  <2>5. last(q) \in Positions /\ Empties[last(q)] = 0
    BY <2>1, <2>2, GameTypes, GameProgress
  <2> QED
    BY <2>1, <2>3, <2>4, <2>5, <1>1
<1>3. \A q \in Positions : Margin[q] \in Int /\ Moves[q] \subseteq Squares
  BY GameTypes, MarginTypes DEF FinalDiscMarginMax
<1>4. << >> \in Seq(Squares) /\ \A m \in Squares : <<m>> \in Seq(Squares)
  BY EmptySeq
<1>5. SolveLast1Result(p) =
        IF Moves[p] # {} THEN
          [score |-> -Margin[last(p)], best_move |-> sq(p), pv |-> <<sq(p)>>]
        ELSE IF Moves[Pass[p]] # {} THEN
          [score |-> Margin[last(Pass[p])], best_move |-> NoMove,
           pv |-> <<sq(Pass[p])>>]
        ELSE Leaf(Margin[p])
  BY DEF SolveLast1Result
<1> HIDE DEF sq, last
<1>6. CASE Moves[p] # {}
  BY <1>2, <1>3, <1>4, <1>5, <1>6 DEF NodeResults
<1>7. CASE Moves[p] = {} /\ Moves[Pass[p]] # {}
  <2>1. Pass[p] \in Positions /\ Empties[Pass[p]] <= 1
    BY <1>7, GameTypes, GameProgress
  <2>2. Value[p] = -Value[Pass[p]]
    BY <1>7, ValueEquation DEF Terminal
  <2>3. /\ sq(Pass[p]) \in Squares /\ Margin[last(Pass[p])] \in Int
        /\ Value[p] = Margin[last(Pass[p])]
    BY <2>1, <2>2, <1>2, <1>3, <1>7
  <2> QED
    BY <2>3, <1>4, <1>5, <1>7 DEF NodeResults
<1>8. CASE Moves[p] = {} /\ Moves[Pass[p]] = {}
  BY <1>3, <1>4, <1>5, <1>8, ValueEquation DEF NodeResults, Leaf, Terminal
<1> QED
  BY <1>6, <1>7, <1>8

(***************************************************************************)
(* Storing and returning.                                                  *)
(***************************************************************************)
LEMMA StoreReturnStep ==
  ASSUME Inv, stack # << >>, NEW r \in NodeResults, StoreAndReturn(Top, r),
         Contract(Value[Top.pos], r.score, Top.original_alpha, Top.beta)
  PROVE  Inv'
<1>1. Top \in Frames /\ Top.pos \in Positions
      /\ Top.original_alpha \in Int /\ Top.beta \in Int
  BY TopType DEF Frames, Inv, TypeOK
<1>2. r.score \in Int /\ r.best_move \in Squares \cup {NoMove}
  BY DEF NodeResults
<1>3. tt \in Tables
  BY DEF Inv, TypeOK
<1> DEFINE e == NewEntry(Top.pos, Empties[Top.pos], r.score, Top.original_alpha,
                         Top.beta, r.best_move)
<1>4. /\ tt' \in Tables
      /\ \A k \in Buckets : \A i \in Slots : tt'[k][i] \in {tt[k][i], e}
  <2>1. CASE InTail(Top)
    BY <2>1, <1>3 DEF StoreAndReturn
  <2>2. CASE ~InTail(Top)
    BY <2>2, <1>1, <1>2, <1>3, StoreFacts DEF StoreAndReturn
  <2> QED
    BY <2>1, <2>2
<1>5. BoundHolds(Value[e.hash], e.bound, e.score)
  <2>1. Value[Top.pos] \in Int
    BY <1>1, ValueType
  <2> QED
    BY <2>1, <1>1, <1>2, BoundSound DEF NewEntry
<1>6. TableSound'
  <2> SUFFICES ASSUME NEW k \in Buckets, NEW i \in Slots, tt'[k][i].occupied
               PROVE  BoundHolds(Value[tt'[k][i].hash], tt'[k][i].bound, tt'[k][i].score)
    BY DEF TableSound
  <2>1. CASE tt'[k][i] = e
    BY <2>1, <1>5
  <2>2. CASE tt'[k][i] = tt[k][i]
    BY <2>2 DEF Inv, TableSound
  <2> HIDE DEF e
  <2> QED
    BY <2>1, <2>2, <1>4
<1>7. TypeOK' /\ ControlInv'
  BY <1>4, ReturnStep DEF StoreAndReturn, Inv
<1> QED
  BY <1>6, <1>7 DEF Inv

LEMMA TableUnchanged ==
  ASSUME TableSound, tt' = tt
  PROVE  TableSound'
BY DEF TableSound

LEMMA TopFacts ==
  ASSUME Inv, Running
  PROVE  /\ Top \in Frames /\ FrameInv(Top) /\ stack # << >>
         /\ Top.pos \in Positions
         /\ SameCall(Top, Top)
<1>1. Len(stack) \in 1 .. Len(stack)
  BY TopType DEF Running, Inv, TypeOK
<1> QED
  BY <1>1, TopType DEF Running, Inv, TypeOK, ControlInv, Top, Frames, SameCall

(***************************************************************************)
(* One lemma per group of actions.                                         *)
(***************************************************************************)
LEMMA EnterKeepsInv ==
  ASSUME Inv, Enter
  PROVE  Inv'
<1>1. Entering
  BY DEF Enter, SolveLast1, Cutoff, GameOver, SearchPass, StartMoves, Searches
<1>2. /\ Top \in Frames /\ FrameInv(Top) /\ stack # << >>
      /\ Top.pos \in Positions /\ Top.stage = "enter"
  BY <1>1, TopFacts DEF Entering
<1>3. /\ Top.alpha = Top.original_alpha /\ Top.original_alpha < Top.beta
      /\ Top.alpha \in Int /\ Top.beta \in Int /\ Top.best = NoCandidate
      /\ Value[Top.pos] \in Int
  BY <1>2, ValueType DEF FrameInv, Frames
<1>4. TypeOK /\ ControlInv /\ TableSound /\ tt \in Tables
  BY DEF Inv, TypeOK
<1>5. CASE SolveLast1
  <2>1. /\ SolveLast1Result(Top.pos) \in NodeResults
        /\ SolveLast1Result(Top.pos).score = Value[Top.pos]
    BY <1>2, <1>5, LastSquareExact DEF SolveLast1
  <2>2. Contract(Value[Top.pos], SolveLast1Result(Top.pos).score,
                 Top.original_alpha, Top.beta)
    BY <2>1, <1>3 DEF Contract
  <2>3. TypeOK' /\ ControlInv'
    BY <1>2, <1>4, <1>5, <2>1, <2>2, ReturnStep DEF SolveLast1
  <2> QED
    BY <2>3, <1>4, <1>5, TableUnchanged DEF SolveLast1, Inv
<1>6. CASE Cutoff
  <2>1. PICK e \in NodeCutoffs(Top) : Return(CutoffResult(e))
    BY <1>6 DEF Cutoff
  <2>2. /\ e \in Matching(tt, Top.pos, Empties[Top.pos])
        /\ ProvesCutoff(e.bound, e.score, Top.alpha, Top.beta)
    BY DEF NodeCutoffs, Cutoffs
  <2>3. /\ e \in Entries /\ e.hash = Top.pos
        /\ \E k \in Buckets : \E i \in Slots : tt[k][i] = e /\ e.occupied
    BY <2>2, <1>2, <1>4, MatchingFacts
  <2>4. BoundHolds(Value[Top.pos], e.bound, e.score)
    BY <2>3, <1>4 DEF TableSound
  <2>5. e.score \in Int /\ e.bound \in Bounds
        /\ e.best_move_index \in Squares \cup {NoMove}
    BY <2>3 DEF Entries
  <2>6. Contract(Value[Top.pos], e.score, Top.original_alpha, Top.beta)
    BY <2>2, <2>4, <2>5, <1>3, CutoffSound
  <2>7. CutoffResult(e) \in NodeResults /\ CutoffResult(e).score = e.score
    <3>1. << >> \in Seq(Squares) /\ \A m \in Squares : <<m>> \in Seq(Squares)
      BY EmptySeq
    <3> QED
      BY <2>5, <3>1 DEF CutoffResult, NodeResults
  <2>8. TypeOK' /\ ControlInv'
    BY <1>2, <1>4, <1>6, <2>1, <2>6, <2>7, ReturnStep DEF Cutoff
  <2> QED
    BY <2>8, <1>4, <1>6, TableUnchanged DEF Cutoff, Inv
<1>7. CASE GameOver
  <2>1. Value[Top.pos] = Margin[Top.pos]
    BY <1>2, <1>7, ValueEquation DEF GameOver
  <2>2. Leaf(Margin[Top.pos]) \in NodeResults
    BY <2>1, <1>3, EmptySeq DEF Leaf, NodeResults
  <2>3. Contract(Value[Top.pos], Leaf(Margin[Top.pos]).score,
                 Top.original_alpha, Top.beta)
    BY <2>1, <1>3 DEF Contract, Leaf
  <2> QED
    BY <1>2, <1>7, <2>2, <2>3, StoreReturnStep DEF GameOver
<1>8. CASE SearchPass
  <2> DEFINE f == [Top EXCEPT !.stage = "pass"]
  <2>1. /\ f.stage = "pass" /\ f.pos = Top.pos /\ f.alpha = Top.alpha
        /\ f.beta = Top.beta /\ f.original_alpha = Top.original_alpha
        /\ f.is_root = Top.is_root /\ f.todo = Top.todo /\ f.best = Top.best
        /\ f \in Frames
    BY <1>2 DEF Frames, Waiting
  <2>2. Moves[Top.pos] = {} /\ ~Terminal(Top.pos) /\ Call(f)
    BY <1>8 DEF SearchPass
  <2> HIDE DEF f
  <2>3. FrameInv(f)
    BY <1>2, <1>3, <2>1, <2>2 DEF FrameInv, FullWindow, CandidateStages, Waiting
  <2>4. SameCall(f, Top) /\ f.stage \in Waiting
    BY <2>1 DEF SameCall, Waiting
  <2>5. TypeOK' /\ ControlInv'
    BY <1>2, <1>4, <2>1, <2>2, <2>3, <2>4, CallStep
  <2> QED
    BY <2>2, <2>5, <1>4, TableUnchanged DEF Call, Inv
<1>9. CASE StartMoves
  <2> DEFINE hint == IF InTail(Top) THEN NoMove
                     ELSE BestMoveHint(tt, Top.pos, Empties[Top.pos])
             f == [Top EXCEPT !.stage = "loop", !.todo = Moves[Top.pos], !.hint = hint]
  <2>1. hint \in Squares \cup {NoMove}
    BY <1>2, <1>4, HintType
  <2>2. Moves[Top.pos] # {} /\ Continue(f)
    BY <1>9 DEF StartMoves
  <2> HIDE DEF hint
  <2>3. Moves[Top.pos] \subseteq Squares
    BY <1>2, GameTypes
  <2>4. /\ f.stage = "loop" /\ f.pos = Top.pos /\ f.alpha = Top.alpha
        /\ f.beta = Top.beta /\ f.original_alpha = Top.original_alpha
        /\ f.is_root = Top.is_root /\ f.todo = Moves[Top.pos] /\ f.best = NoCandidate
        /\ f \in Frames
    BY <1>2, <1>3, <2>1, <2>3 DEF Frames
  <2> HIDE DEF f
  <2>5. LoopInv(f)
    BY <2>4, <1>3 DEF LoopInv, Searched, NoCandidate
  <2>6. FrameInv(f)
    BY <1>2, <1>3, <2>2, <2>4, <2>5 DEF FrameInv, FullWindow, CandidateStages, Waiting
  <2>7. SameCall(f, Top)
    BY <2>4 DEF SameCall
  <2>8. TypeOK' /\ ControlInv'
    BY <1>2, <1>4, <2>2, <2>4, <2>6, <2>7, ContinueStep
  <2> QED
    BY <2>2, <2>8, <1>4, TableUnchanged DEF Continue, Inv
<1> QED
  BY <1>5, <1>6, <1>7, <1>8, <1>9 DEF Enter

\* Picking the next move leaves what the loop has established as it was.
LEMMA PickInv ==
  ASSUME Inv, MoreMoves, NEW m \in Top.todo, NEW stage \in CandidateStages,
         stage \in {"root_scout", "root_full"} <=> IsRootLoop(Top),
         stage = "root_scout" => ~FirstMove(Top)
  PROVE  /\ Pick(m, stage) \in Frames /\ FrameInv(Pick(m, stage))
         /\ SameCall(Pick(m, stage), Top) /\ Pick(m, stage).stage \in Waiting
<1> DEFINE f == Pick(m, stage)
<1>1. /\ Top \in Frames /\ FrameInv(Top) /\ Top.stage = "loop"
      /\ Top.alpha < Top.beta
  BY TopFacts DEF MoreMoves, InLoop
<1>2. m \in Moves[Top.pos] /\ m \in Squares /\ LoopInv(Top) /\ Moves[Top.pos] # {}
  BY <1>1, GameTypes DEF FrameInv, Frames
<1>3. stage \in Waiting /\ stage \notin {"loop", "enter", "pass"}
  BY DEF CandidateStages, Waiting
<1>4. /\ f.stage = stage /\ f.cur = m /\ f.todo = Top.todo \ {m}
      /\ f.pos = Top.pos /\ f.alpha = Top.alpha /\ f.beta = Top.beta
      /\ f.original_alpha = Top.original_alpha /\ f.is_root = Top.is_root
      /\ f.best = Top.best
  BY <1>1 DEF Pick, Frames
<1>5. f \in Frames
  BY <1>1, <1>2, <1>3 DEF Pick, Frames
<1> HIDE DEF f
<1>6. Searched(f) = Searched(Top)
  BY <1>1, <1>2, <1>3, <1>4 DEF Searched
<1>7. IsRootLoop(f) <=> IsRootLoop(Top)
  BY <1>4 DEF IsRootLoop, InTail
<1>8. LoopInv(f)
  BY <1>2, <1>4, <1>6, <1>7 DEF LoopInv
<1>9. FrameInv(f)
  <2>1. /\ f.original_alpha < f.beta /\ (f.is_root => FullWindow(f))
        /\ f.todo \subseteq Moves[f.pos]
    BY <1>1, <1>4 DEF FrameInv, FullWindow
  <2>2. f.stage \in {"root_scout", "root_full"} => IsRootLoop(f)
    BY <1>4, <1>7
  <2>3. f.stage \in {"full", "scout", "research"} => ~IsRootLoop(f)
    BY <1>4, <1>7
  <2>4. f.stage = "root_scout" => f.best.best_move # NoMove
    BY <1>4 DEF FirstMove
  <2>5. f.cur \in Moves[f.pos] \ f.todo /\ f.alpha < f.beta
    BY <1>1, <1>2, <1>4
  <2>6. f.stage \notin {"enter", "pass"} /\ Moves[f.pos] # {}
    BY <1>2, <1>3, <1>4
  <2> QED
    BY <1>8, <2>1, <2>2, <2>3, <2>4, <2>5, <2>6 DEF FrameInv
<1>10. SameCall(f, Top) /\ f.stage \in Waiting
  BY <1>3, <1>4 DEF SameCall
<1> QED
  BY <1>5, <1>9, <1>10 DEF f

LEMMA CallKeepsInv ==
  ASSUME Inv, stack # << >>, NEW f \in Frames, SameCall(f, Top), FrameInv(f),
         f.stage \in Waiting, Call(f)
  PROVE  Inv'
<1>1. TypeOK' /\ ControlInv'
  BY CallStep DEF Inv
<1> QED
  BY <1>1, TableUnchanged DEF Call, Inv

LEMMA ContinueKeepsInv ==
  ASSUME Inv, stack # << >>, NEW f \in Frames, SameCall(f, Top), FrameInv(f),
         f.stage = "loop", Continue(f)
  PROVE  Inv'
<1>1. TypeOK' /\ ControlInv'
  BY ContinueStep DEF Inv
<1> QED
  BY <1>1, TableUnchanged DEF Continue, Inv

\* A loop that ends has kept the contract of its window.
LEMMA LoopResult ==
  ASSUME NEW f \in Frames, FrameInv(f), f.stage = "loop",
         f.todo = {} \/ f.alpha >= f.beta
  PROVE  f.best \in NodeResults /\
         Contract(Value[f.pos], f.best.score, f.original_alpha, f.beta)
<1>1. /\ f.alpha \in Int /\ f.beta \in Int /\ f.original_alpha \in Int
      /\ f.best \in NodeResults /\ f.best.score \in Int /\ Value[f.pos] \in Int
      /\ f.pos \in Positions
  BY ValueType DEF Frames, NodeResults
<1>2. LoopInv(f) /\ f.original_alpha < f.beta /\ Moves[f.pos] # {}
  BY DEF FrameInv
<1>3. f.todo = {} => Searched(f) = Moves[f.pos]
  BY DEF Searched
<1>4. f.best.best_move # NoMove
  BY <1>1, <1>2, <1>3 DEF LoopInv
<1>5. /\ f.alpha = MaxOf(f.original_alpha, f.best.score)
      /\ f.best.score > f.original_alpha => Value[f.pos] >= f.best.score
      /\ f.alpha < f.beta =>
           \A m \in Searched(f) : -Value[Play[f.pos][m]] <= f.best.score
  BY <1>2, <1>4 DEF LoopInv
<1>6. CASE f.alpha >= f.beta
  BY <1>1, <1>2, <1>5, <1>6 DEF MaxOf, Contract
<1>7. CASE f.alpha < f.beta
  <2>1. f.todo = {}
    BY <1>1, <1>7
  <2>2. PICK m \in Moves[f.pos] : Value[f.pos] = -Value[Play[f.pos][m]]
    BY <1>1, <1>2, ValueEquation
  <2>3. Value[f.pos] <= f.best.score
    BY <2>1, <2>2, <1>3, <1>5, <1>7
  <2> QED
    BY <2>3, <1>1, <1>2, <1>5, <1>7 DEF MaxOf, Contract
<1> QED
  BY <1>1, <1>6, <1>7

LEMMA LoopKeepsInv ==
  ASSUME Inv, Loop
  PROVE  Inv'
<1>1. InLoop
  BY DEF Loop, RootCandidateFull, RootCandidateHopeless, RootCandidateScout,
         RootScouts, InteriorFull, InteriorScout, Finish, MoreMoves
<1>2. Top \in Frames /\ FrameInv(Top) /\ stack # << >> /\ Top.stage = "loop"
  BY <1>1, TopFacts DEF InLoop
<1>3. CASE RootCandidateFull
  <2>1. MoreMoves /\ IsRootLoop(Top)
    BY <1>3 DEF RootCandidateFull
  <2>2. PICK m \in Top.todo : Call(Pick(m, "root_full"))
    BY <1>3 DEF RootCandidateFull
  <2>3. "root_full" \in CandidateStages
    BY DEF CandidateStages, Waiting
  <2> QED
    BY <1>2, <2>1, <2>2, <2>3, PickInv, CallKeepsInv
<1>4. CASE RootCandidateScout
  <2>1. MoreMoves /\ IsRootLoop(Top) /\ ~FirstMove(Top)
    BY <1>4 DEF RootCandidateScout, RootScouts
  <2>2. PICK m \in Top.todo : Call(Pick(m, "root_scout"))
    BY <1>4 DEF RootCandidateScout
  <2>3. "root_scout" \in CandidateStages
    BY DEF CandidateStages, Waiting
  <2> QED
    BY <1>2, <2>1, <2>2, <2>3, PickInv, CallKeepsInv
<1>5. CASE InteriorFull
  <2>1. MoreMoves /\ ~IsRootLoop(Top)
    BY <1>5 DEF InteriorFull
  <2>2. PICK m \in Top.todo : Call(Pick(m, "full"))
    BY <1>5 DEF InteriorFull
  <2>3. "full" \in CandidateStages
    BY DEF CandidateStages, Waiting
  <2> QED
    BY <1>2, <2>1, <2>2, <2>3, PickInv, CallKeepsInv
<1>6. CASE InteriorScout
  <2>1. MoreMoves /\ ~IsRootLoop(Top)
    BY <1>6 DEF InteriorScout
  <2>2. PICK m \in Top.todo : Call(Pick(m, "scout"))
    BY <1>6 DEF InteriorScout
  <2>3. "scout" \in CandidateStages
    BY DEF CandidateStages, Waiting
  <2> QED
    BY <1>2, <2>1, <2>2, <2>3, PickInv, CallKeepsInv
<1>7. CASE Finish
  <2>1. Contract(Value[Top.pos], Top.best.score, Top.original_alpha, Top.beta)
        /\ Top.best \in NodeResults
    BY <1>2, <1>7, LoopResult DEF Finish
  <2> QED
    BY <2>1, <1>2, <1>7, StoreReturnStep DEF Finish
<1>8. CASE RootCandidateHopeless
  <2>1. MoreMoves /\ IsRootLoop(Top) /\ ~FirstMove(Top)
    BY <1>8 DEF RootCandidateHopeless, RootScouts
  <2>2. PICK m \in Top.todo :
          /\ RequiredScore(Pick(m, "root_scout")) > FinalDiscMarginMax
          /\ Continue([Top EXCEPT !.todo = @ \ {m}])
    BY <1>8 DEF RootCandidateHopeless
  <2> DEFINE f == [Top EXCEPT !.todo = @ \ {m}]
  <2>3. m \in Moves[Top.pos] /\ m \in Squares /\ LoopInv(Top) /\ Top.pos \in Positions
    BY <1>2, GameTypes DEF FrameInv, Frames
  <2>4. /\ f.stage = "loop" /\ f.todo = Top.todo \ {m}
        /\ f.pos = Top.pos /\ f.alpha = Top.alpha /\ f.beta = Top.beta
        /\ f.original_alpha = Top.original_alpha /\ f.is_root = Top.is_root
        /\ f.best = Top.best /\ f \in Frames
    BY <1>2 DEF Frames
  <2>5. RequiredScore(Pick(m, "root_scout")) =
          IF m < Top.best.best_move THEN Top.best.score ELSE Top.best.score + 1
    BY <1>2 DEF RequiredScore, Pick, Frames
  <2>6. Play[Top.pos][m] \in Positions
    BY <2>3, GameTypes
  <2>7. /\ Top.best.score \in Int /\ Top.best.best_move \in Int /\ m \in Int
    <3>1. Top.best \in NodeResults
      BY <1>2 DEF Frames
    <3>2. Top.best.score \in Int /\ Top.best.best_move \in Squares \cup {NoMove}
      BY <3>1 DEF NodeResults
    <3> QED
      BY <3>2, <2>3 DEF Squares, NoMove
  <2>8. -Value[Play[Top.pos][m]] <= 64 /\ Value[Play[Top.pos][m]] \in Int
    BY <2>6, ValueType
  <2> HIDE DEF f
  <2>9. Searched(f) = Searched(Top) \cup {m}
    BY <1>2, <2>3, <2>4 DEF Searched
  <2>10. IsRootLoop(f) <=> IsRootLoop(Top)
    BY <2>4 DEF IsRootLoop, InTail
  \* Nothing beats 64, and a tie at a higher square does not count either.
  <2>11. /\ -Value[Play[Top.pos][m]] <= Top.best.score
         /\ -Value[Play[Top.pos][m]] = Top.best.score => Top.best.best_move <= m
    <3>1. \A q \in Searched(Top) : Play[Top.pos][q] \in Positions
      BY <2>3, GameTypes DEF Searched
    <3>2. Top.best.score <= 64
      <4>1. /\ Top.best.best_move \in Searched(Top)
            /\ Top.best.score = -Value[Play[Top.pos][Top.best.best_move]]
        BY <2>1, <2>3 DEF LoopInv, FirstMove
      <4>2. Play[Top.pos][Top.best.best_move] \in Positions
        BY <3>1, <4>1
      <4> QED
        BY <4>1, <4>2, ValueType
    <3> QED
      BY <3>2, <2>2, <2>5, <2>7, <2>8 DEF FinalDiscMarginMax
  <2>12. LoopInv(f)
    <3>1. f.best.best_move # NoMove
      BY <2>1, <2>4 DEF FirstMove
    <3>2. /\ f.alpha = MaxOf(f.original_alpha, f.best.score)
          /\ f.best.best_move \in Searched(f)
          /\ f.best.score > f.original_alpha => Value[f.pos] >= f.best.score
          /\ f.best.score = -Value[Play[f.pos][f.best.best_move]]
      BY <2>1, <2>3, <2>4, <2>9 DEF LoopInv, FirstMove
    <3>3. f.alpha < f.beta =>
            \A q \in Searched(f) : -Value[Play[f.pos][q]] <= f.best.score
      BY <2>1, <2>3, <2>4, <2>9, <2>11 DEF LoopInv, FirstMove
    <3>4. \A q \in Searched(f) :
            -Value[Play[f.pos][q]] = f.best.score => f.best.best_move <= q
      BY <2>1, <2>3, <2>4, <2>9, <2>11 DEF LoopInv, FirstMove
    <3> QED
      BY <3>1, <3>2, <3>3, <3>4 DEF LoopInv
  <2>13. FrameInv(f)
    BY <1>2, <2>4, <2>12 DEF FrameInv, FullWindow, CandidateStages, Waiting
  <2>14. SameCall(f, Top) /\ Continue(f)
    BY <2>2, <2>4 DEF SameCall, f
  <2> QED
    BY <1>2, <2>4, <2>13, <2>14, ContinueKeepsInv
<1> QED
  BY <1>3, <1>4, <1>5, <1>6, <1>7, <1>8 DEF Loop

LEMMA ResumeKeepsInv ==
  ASSUME Inv, Resume
  PROVE  Inv'
<1>1. Running /\ ret # NoResult /\ Top.stage \in Waiting
  BY DEF Resume, ResumePass, RootScoutReject, RootScoutPromising, ScoutInside,
         ScoutOutside, ResumeFull, Resumed, Waiting
<1>2. /\ Top \in Frames /\ FrameInv(Top) /\ stack # << >> /\ Top.pos \in Positions
      /\ SameCall(Top, Top)
  BY <1>1, TopFacts
<1>3. Contract(Value[ChildPos(Top)], ret.score, ChildAlpha(Top), ChildBeta(Top))
  BY <1>1, <1>2 DEF Inv, ControlInv
<1>4. ret \in NodeResults /\ ret.score \in Int /\ ret.pv \in Seq(Squares)
  BY <1>1 DEF Inv, TypeOK, NodeResults
<1>5. /\ Top.alpha \in Int /\ Top.beta \in Int /\ Top.original_alpha \in Int
      /\ Top.best \in NodeResults
  BY <1>2 DEF Frames
<1>6. CASE ResumePass
  <2> DEFINE r == PassResult(ret)
  <2>1. Top.stage = "pass" /\ StoreAndReturn(Top, r)
    BY <1>6 DEF ResumePass, Resumed
  <2>2. /\ Moves[Top.pos] = {} /\ ~Terminal(Top.pos) /\ Pass[Top.pos] \in Positions
        /\ Top.alpha = Top.original_alpha
    BY <2>1, <1>2, GameTypes DEF FrameInv
  <2>3. Value[Top.pos] = -Value[Pass[Top.pos]] /\ Value[Pass[Top.pos]] \in Int
    BY <2>2, <1>2, ValueEquation, ValueType
  <2>4. Contract(Value[Pass[Top.pos]], ret.score, -Top.beta, -Top.original_alpha)
    BY <2>1, <2>2, <1>3 DEF ChildPos, ChildAlpha, ChildBeta
  <2>5. Contract(Value[Top.pos], -ret.score, Top.original_alpha, Top.beta)
    BY <2>3, <2>4, <1>4, <1>5, ContractNegated
  <2>6. r \in NodeResults /\ r.score = -ret.score
    BY <1>4 DEF NodeResults, PassResult
  <2> QED
    BY <2>1, <2>5, <2>6, <1>2, StoreReturnStep
<1>7. CASE RootScoutReject
  <2> DEFINE f == [Top EXCEPT !.cur = NoMove, !.stage = "loop"]
             v == -Value[Play[Top.pos][Top.cur]]
  <2>1. /\ Top.stage = "root_scout" /\ Continue(f)
        /\ -ret.score < RequiredScore(Top)
    BY <1>7 DEF RootScoutReject, Resumed
  <2>2. /\ f.stage = "loop" /\ f.todo = Top.todo /\ f.cur = NoMove
        /\ f.pos = Top.pos /\ f.alpha = Top.alpha /\ f.beta = Top.beta
        /\ f.original_alpha = Top.original_alpha /\ f.is_root = Top.is_root
        /\ f.best = Top.best /\ f \in Frames
    BY <1>2 DEF Frames
  <2>3. /\ LoopInv(Top) /\ IsRootLoop(Top) /\ Top.best.best_move # NoMove
        /\ Top.cur \in Moves[Top.pos] \ Top.todo /\ Top.alpha < Top.beta
        /\ Moves[Top.pos] # {}
    BY <2>1, <1>2 DEF FrameInv, CandidateStages, Waiting
  <2>4. Play[Top.pos][Top.cur] \in Positions /\ Top.cur \in Int
    <3>1. Top.cur \in Moves[Top.pos] /\ Top.pos \in Positions
      BY <2>3, <1>2 DEF Frames
    <3>2. Top.cur \in Squares /\ Play[Top.pos][Top.cur] \in Positions
      BY <3>1, GameTypes
    <3> QED
      BY <3>2 DEF Squares
  <2>5. v \in Int
    BY <2>4, ValueType
  <2>6. Contract(-v, ret.score, -RequiredScore(Top), -RequiredScore(Top) + 1)
    <3>1. Value[Play[Top.pos][Top.cur]] = -v
      BY <2>4, ValueType
    <3> QED
      BY <3>1, <2>1, <1>3 DEF ChildPos, ChildAlpha, ChildBeta
  <2>7. /\ Top.best.score \in Int /\ Top.best.best_move \in Int
        /\ RequiredScore(Top) \in Int
    <3>1. Top.best.score \in Int /\ Top.best.best_move \in Squares \cup {NoMove}
      BY <1>5 DEF NodeResults
    <3> QED
      BY <3>1 DEF Squares, NoMove, RequiredScore
  <2> HIDE DEF v, f
  <2>8. v < RequiredScore(Top)
    BY <2>1, <2>5, <2>6, <2>7, <1>4 DEF Contract
  <2>9. v <= Top.best.score /\ (v = Top.best.score => Top.best.best_move <= Top.cur)
    BY <2>4, <2>5, <2>7, <2>8 DEF RequiredScore
  <2>10. Searched(f) = Searched(Top) \cup {Top.cur}
    BY <2>1, <2>2, <2>3 DEF Searched
  <2>11. IsRootLoop(f)
    BY <2>2, <2>3 DEF IsRootLoop, InTail
  <2>12. LoopInv(f)
    BY <2>2, <2>3, <2>9, <2>10, <2>11 DEF LoopInv, v
  <2>13. FrameInv(f)
    BY <1>2, <2>2, <2>3, <2>12 DEF FrameInv, FullWindow, CandidateStages, Waiting
  <2>14. SameCall(f, Top)
    BY <2>2 DEF SameCall
  <2> QED
    BY <1>2, <2>1, <2>2, <2>13, <2>14, ContinueKeepsInv
<1>8. CASE RootScoutPromising \/ ScoutInside
  <2>1. PICK stage \in {"root_full", "research"} :
          /\ Call([Top EXCEPT !.stage = stage])
          /\ stage = "root_full" => Top.stage = "root_scout"
          /\ stage = "research" => Top.stage = "scout"
    BY <1>8 DEF RootScoutPromising, ScoutInside, Resumed
  <2> DEFINE f == [Top EXCEPT !.stage = stage]
  <2>2. /\ f.stage = stage /\ f.todo = Top.todo /\ f.cur = Top.cur
        /\ f.pos = Top.pos /\ f.alpha = Top.alpha /\ f.beta = Top.beta
        /\ f.original_alpha = Top.original_alpha /\ f.is_root = Top.is_root
        /\ f.best = Top.best /\ f \in Frames
    BY <1>2, <2>1 DEF Frames, Waiting
  <2>3. /\ LoopInv(Top) /\ Top.cur \in Moves[Top.pos] \ Top.todo
        /\ Top.alpha < Top.beta /\ Moves[Top.pos] # {}
        /\ stage = "root_full" <=> IsRootLoop(Top)
    BY <2>1, <1>2 DEF FrameInv, CandidateStages, Waiting
  <2> HIDE DEF f
  <2>4. Searched(f) = Searched(Top) /\ (IsRootLoop(f) <=> IsRootLoop(Top))
    BY <2>1, <2>2 DEF Searched, IsRootLoop, InTail
  <2>5. LoopInv(f)
    BY <2>2, <2>3, <2>4 DEF LoopInv
  <2>6. FrameInv(f)
    BY <1>2, <2>1, <2>2, <2>3, <2>4, <2>5
       DEF FrameInv, FullWindow, CandidateStages, Waiting
  <2>7. SameCall(f, Top) /\ f.stage \in Waiting /\ Call(f)
    BY <2>1, <2>2 DEF SameCall, Waiting, f
  <2> QED
    BY <1>2, <2>2, <2>6, <2>7, CallKeepsInv
<1>9. CASE ScoutOutside \/ ResumeFull
  <2>1. /\ Continue(AfterCandidate(Top))
        /\ \/ Top.stage \in {"root_full", "full", "research"}
           \/ Top.stage = "scout" /\ (-ret.score <= Top.alpha \/ -ret.score >= Top.beta)
    BY <1>9 DEF ScoutOutside, ResumeFull, Resumed
  <2>2. /\ AfterCandidate(Top) \in Frames /\ FrameInv(AfterCandidate(Top))
        /\ SameCall(AfterCandidate(Top), Top) /\ AfterCandidate(Top).stage = "loop"
    BY <2>1, <1>2, <1>3, <1>4, AfterCandidateInv
  <2> QED
    BY <2>1, <2>2, <1>2, ContinueKeepsInv
<1> QED
  BY <1>6, <1>7, <1>8, <1>9 DEF Resume

(***************************************************************************)
(* The theorems.                                                           *)
(***************************************************************************)
LEMMA InitInv ==
  ASSUME Init
  PROVE  Inv
<1>1. root \in Positions
  BY SolverAssumption DEF Init
<1> DEFINE f == NewFrame(root, ScoreMin, ScoreMax, TRUE)
<1>2. f \in Frames /\ FrameInv(f) /\ f.pos = root /\ f.stage = "enter" /\ FullWindow(f)
  <2>1. ScoreMin \in Int /\ ScoreMax \in Int /\ ScoreMin < ScoreMax
    BY DEF ScoreMin, ScoreMax
  <2>2. f \in Frames /\ FrameInv(f)
    BY <1>1, <2>1, NewFrameInv
  <2> QED
    BY <2>2 DEF NewFrame, FullWindow
<1> HIDE DEF f
<1>3. stack = <<f>> /\ ret = NoResult /\ tt = EmptyTable
  BY DEF Init, f
<1>4. stack \in Seq(Frames) /\ Len(stack) = 1 /\ stack[1] = f /\ stack # << >> /\ Top = f
  BY <1>2, <1>3 DEF Top
<1>5. tt \in Tables
  BY <1>3 DEF EmptyTable, Tables
<1>6. TypeOK
  BY <1>3, <1>4, <1>5 DEF TypeOK, Init
<1>7. ControlInv
  BY <1>2, <1>3, <1>4 DEF ControlInv
<1>8. TableSound
  BY <1>3 DEF TableSound, EmptyTable, EmptySlot
<1> QED
  BY <1>6, <1>7, <1>8 DEF Inv

LEMMA StepInv ==
  ASSUME Inv, [Next]_vars
  PROVE  Inv'
<1>1. CASE Next
  BY <1>1, EnterKeepsInv, LoopKeepsInv, ResumeKeepsInv DEF Next
<1>2. CASE UNCHANGED vars
  <2>1. stack' = stack /\ ret' = ret /\ root' = root /\ tt' = tt
    BY <1>2 DEF vars
  <2>2. TypeOK'
    BY <2>1 DEF Inv, TypeOK
  <2>3. ControlInv'
    BY <2>1 DEF Inv, ControlInv, Top
  <2>4. TableSound'
    BY <2>1 DEF Inv, TableSound
  <2> QED
    BY <2>2, <2>3, <2>4 DEF Inv
<1> QED
  BY <1>1, <1>2

\* Inv holds in every reachable state of the solver.
THEOREM Invariance == Spec => []Inv
<1>1. Init => Inv
  BY InitInv
<1>2. Inv /\ [Next]_vars => Inv'
  BY StepInv
<1> QED
  BY <1>1, <1>2, PTL DEF Spec

\* The state keeps its types: no square, slot or frame is out of range.
THEOREM TypeCorrect == Spec => []TypeOK
<1>1. Inv => TypeOK
  BY DEF Inv
<1> QED
  BY <1>1, Invariance, PTL

\* Every bound the transposition table holds is true of its position.
THEOREM TableIsSound == Spec => []TableSound
<1>1. Inv => TableSound
  BY DEF Inv
<1> QED
  BY <1>1, Invariance, PTL

\* Every score returned to a caller keeps the contract of its window.
THEOREM ContractsAreKept == Spec => []ReturnsKeepContract
<1>1. Inv => ReturnsKeepContract
  BY DEF Inv, ControlInv, ReturnsKeepContract, Running
<1> QED
  BY <1>1, Invariance, PTL

\* disc_margin is the game-theoretic margin of the position asked for.
THEOREM MarginIsExact == Spec => []MarginExact
<1>1. Inv => MarginExact
  BY DEF Inv, ControlInv, MarginExact, Done
<1> QED
  BY <1>1, Invariance, PTL

\* No call is ever made with an empty window.
THEOREM WindowsStayProper == Spec => []WindowsProper
<1>1. ASSUME Inv
      PROVE  WindowsProper
  <2>1. \A i \in 1 .. Len(stack) : stack[i] \in Frames /\ FrameInv(stack[i])
    BY <1>1, ElementOfSeq DEF Inv, TypeOK, ControlInv
  <2> SUFFICES ASSUME NEW i \in 1 .. Len(stack)
               PROVE  /\ stack[i].original_alpha < stack[i].beta
                      /\ stack[i].stage # "loop" => stack[i].alpha < stack[i].beta
    BY DEF WindowsProper
  <2>2. FrameInv(stack[i]) /\ stack[i] \in Frames
    BY <2>1
  <2> QED
    BY <2>2 DEF FrameInv, Frames, CandidateStages
<1> QED
  BY <1>1, Invariance, PTL

(***************************************************************************)
(* The best move of an exact result is the lowest square that keeps the    *)
(* margin, for every game, move order, table geometry and threshold.       *)
(*                                                                         *)
(* Far from the end LoopInv already ranks the root's candidates; near the  *)
(* end the root is searched by a tail function, whose squares come in      *)
(* ascending order and under the full window.  BaseInv adds that, and that *)
(* the table is still empty when the root looks into it.                   *)
(*                                                                         *)
(* Then the line reported with it: LineInv says that every result on its   *)
(* way up, and every best move the loops and the table hold, is the start  *)
(* of a line that can be played from its own position.                     *)
(***************************************************************************)

Base == stack[1]

Ranked(f) ==
  f.best.best_move # NoMove =>
    /\ f.best.best_move \in Searched(f)
    /\ f.best.score = -Value[Play[f.pos][f.best.best_move]]
    /\ \A m \in Searched(f) :
         /\ -Value[Play[f.pos][m]] <= f.best.score
         /\ -Value[Play[f.pos][m]] = f.best.score => f.best.best_move <= m

\* A tail function at the root: ascending squares, full windows only.
TailRoot(f) ==
  /\ f.stage \in {"enter", "loop", "pass", "full"}
  /\ f.stage \in {"loop", "full"} =>
       /\ Ranked(f)
       /\ \A m \in Moves[f.pos] \ f.todo : \A n \in f.todo : m < n
  /\ f.stage = "full" => \A m \in Searched(f) : m < f.cur

LowestOptimal(m) == m \in Optimal(root) /\ \A n \in Optimal(root) : m <= n

BaseInv ==
  /\ stack # << >> => Base.is_root /\ (InTail(Base) => TailRoot(Base))
  /\ Len(stack) = 1 /\ Base.stage = "enter" => tt = EmptyTable
  /\ stack = << >> /\ Moves[root] # {} => LowestOptimal(ret.best_move)

\* A step that keeps the bottom frame, with other frames above it before or
\* after, keeps BaseInv.
LEMMA BaseUnchanged ==
  ASSUME Inv, BaseInv, stack # << >>, stack' # << >>,
         Base' = Base, Base.stage # "enter"
  PROVE  BaseInv'
<1>1. Base.is_root /\ (InTail(Base) => TailRoot(Base))
  BY DEF BaseInv
<1>2. Base'.is_root /\ (InTail(Base') => TailRoot(Base'))
  BY <1>1
<1> QED
  BY <1>2 DEF BaseInv, Base

\* Likewise when the bottom frame is replaced by one that is ranked.
LEMMA BaseReplaced ==
  ASSUME NEW f, stack' # << >>, stack'[1] = f, f.stage # "enter", f.is_root,
         InTail(f) => TailRoot(f)
  PROVE  BaseInv'
BY DEF BaseInv, Base

\* What a step does to the bottom of a stack of two frames or more.
LEMMA BottomKept ==
  ASSUME stack \in Seq(Frames), stack # << >>, Len(stack) # 1, NEW f, NEW g
  PROVE  /\ SetTop(f) # << >> /\ SetTop(f)[1] = stack[1]
         /\ Append(SetTop(f), g) # << >> /\ Append(SetTop(f), g)[1] = stack[1]
         /\ Popped # << >> /\ Popped[1] = stack[1]
<1> DEFINE S == Frames \cup {f, g}
<1>1. Len(stack) \in Nat \ {0, 1}
  BY EmptySeq
<1>2. stack \in Seq(S)
  <2>1. \A i \in 1 .. Len(stack) : stack[i] \in S
    BY ElementOfSeq
  <2> QED
    BY <1>1, <2>1
<1>3. f \in S /\ g \in S /\ Len(stack) \in 1 .. Len(stack) /\ 1 \in 1 .. Len(stack) - 1
  BY <1>1
<1>4. /\ SetTop(f) \in Seq(S) /\ Len(SetTop(f)) = Len(stack)
      /\ SetTop(f)[1] = stack[1]
  BY <1>1, <1>2, <1>3, ExceptSeq DEF SetTop
<1>5. /\ Append(SetTop(f), g) \in Seq(S) /\ Len(Append(SetTop(f), g)) = Len(stack) + 1
      /\ Append(SetTop(f), g)[1] = SetTop(f)[1]
  <2> HIDE DEF S
  <2> QED
    BY <1>1, <1>3, <1>4, AppendProperties
<1>6. Popped \in Seq(Frames) /\ Len(Popped) = Len(stack) - 1 /\ Popped[1] = stack[1]
  BY <1>3, PopFacts
<1>7. SetTop(f) # << >> /\ Append(SetTop(f), g) # << >> /\ Popped # << >>
  BY <1>1, <1>4, <1>5, <1>6, EmptySeq
<1> QED
  BY <1>4, <1>5, <1>6, <1>7

\* A stack of one frame: its top is its bottom.
LEMMA OneFrame ==
  ASSUME stack \in Seq(Frames), Len(stack) = 1, NEW f, NEW g
  PROVE  /\ Top = Base /\ stack # << >>
         /\ SetTop(f) # << >> /\ SetTop(f)[1] = f
         /\ Append(SetTop(f), g) # << >> /\ Append(SetTop(f), g)[1] = f
         /\ Popped = << >>
<1> DEFINE S == Frames \cup {f, g}
<1>1. stack # << >> /\ Top = Base
  BY EmptySeq DEF Top, Base
<1>2. stack \in Seq(S)
  <2>1. \A i \in 1 .. Len(stack) : stack[i] \in S
    BY ElementOfSeq
  <2> QED
    BY <2>1
<1>3. f \in S /\ g \in S /\ Len(stack) \in 1 .. Len(stack)
  OBVIOUS
<1>4. SetTop(f) \in Seq(S) /\ Len(SetTop(f)) = 1 /\ SetTop(f)[1] = f
  <2> HIDE DEF S
  <2> DEFINE t == [stack EXCEPT ![1] = f]
  <2>1. 1 \in 1 .. Len(stack)
    BY <1>3
  <2>2. t \in Seq(S) /\ Len(t) = Len(stack) /\ t[1] = f
    BY <2>1, <1>2, <1>3, ExceptSeq
  <2>3. SetTop(f) = t
    BY DEF SetTop
  <2> HIDE DEF t
  <2> QED
    BY <2>2, <2>3
<1>5. /\ Append(SetTop(f), g) \in Seq(S) /\ Len(Append(SetTop(f), g)) = 2
      /\ Append(SetTop(f), g)[1] = f
  <2> DEFINE t == SetTop(f)
  <2>1. t \in Seq(S) /\ Len(t) = 1 /\ t[1] = f
    BY <1>4
  <2> HIDE DEF S, t
  <2>2. Append(t, g) \in Seq(S) /\ Len(Append(t, g)) = 2 /\ Append(t, g)[1] = t[1]
    <3>1. Len(Append(t, g)) = Len(t) + 1 /\ Append(t, g) \in Seq(S)
      BY <2>1, <1>3, AppendProperties
    <3>2. 1 \in 1 .. Len(t)
      BY <2>1
    <3>3. Append(t, g)[1] = t[1]
      BY <2>1, <3>2, <1>3, AppendProperties
    <3> QED
      BY <2>1, <3>1, <3>3
  <2> QED
    BY <2>1, <2>2 DEF t
<1>6. Popped \in Seq(Frames) /\ Len(Popped) = 0
  BY <1>1, PopFacts
<1>7. SetTop(f) # << >> /\ Append(SetTop(f), g) # << >> /\ Popped = << >>
  BY <1>4, <1>5, <1>6, EmptySeq
<1> QED
  BY <1>1, <1>4, <1>5, <1>7

\* A ranked loop that is over has found the lowest optimal move.
LEMMA RankedIsLowest ==
  ASSUME NEW f \in Frames, f.pos = root, FrameInv(f), f.stage = "loop",
         f.todo = {} \/ f.alpha >= f.beta, f.is_root,
         InTail(f) => Ranked(f)
  PROVE  LowestOptimal(f.best.best_move)
<1>1. /\ LoopInv(f) /\ Moves[root] # {} /\ root \in Positions
      /\ f.original_alpha = -1000 /\ f.beta = 1000 /\ f.best.score \in Int
  BY DEF FrameInv, FullWindow, Frames, NodeResults, ScoreMin, ScoreMax
<1>2. \A m \in Moves[root] :
        /\ Play[root][m] \in Positions /\ Value[Play[root][m]] \in Int
        /\ Value[Play[root][m]] >= -64 /\ Value[Play[root][m]] <= 64
  BY <1>1, GameTypes, ValueType
<1>3. Searched(f) \subseteq Moves[root]
  BY DEF Searched
<1>4. f.best.best_move = NoMove => f.alpha < f.beta /\ Searched(f) = {}
  BY <1>1 DEF LoopInv
<1>5. f.best.best_move # NoMove =>
        /\ f.best.best_move \in Moves[root]
        /\ f.best.score = -Value[Play[root][f.best.best_move]]
  BY <1>1, <1>3 DEF LoopInv, Ranked, IsRootLoop
<1>6. f.best.best_move # NoMove => f.alpha < f.beta
  BY <1>1, <1>2, <1>5 DEF LoopInv, MaxOf
<1>7. f.todo = {} /\ f.alpha < f.beta
  <2>1. f.alpha < f.beta
    BY <1>4, <1>6
  <2>2. f.alpha \in Int /\ f.beta \in Int
    BY DEF Frames
  <2> QED
    BY <2>1, <2>2
<1>8. Searched(f) = Moves[root] /\ f.best.best_move # NoMove
  BY <1>1, <1>4, <1>7 DEF Searched
<1>9. \A m \in Moves[root] :
        /\ -Value[Play[root][m]] <= f.best.score
        /\ -Value[Play[root][m]] = f.best.score => f.best.best_move <= m
  BY <1>1, <1>7, <1>8 DEF LoopInv, Ranked, IsRootLoop
<1>10. f.best.score = Value[root]
  <2>1. PICK m \in Moves[root] : Value[root] = -Value[Play[root][m]]
    BY <1>1, ValueEquation
  <2>2. Value[root] >= f.best.score
    BY <1>1, <1>5, <1>8, ValueEquation
  <2>3. Value[root] <= f.best.score /\ Value[root] \in Int
    BY <2>1, <1>1, <1>9, ValueType
  <2> QED
    BY <2>2, <2>3, <1>1
<1> QED
  BY <1>5, <1>8, <1>9, <1>10 DEF LowestOptimal, Optimal

\* A candidate of a tail root: its score is exact whenever it becomes the best.
LEMMA TailCandidate ==
  ASSUME NEW f \in Frames, FrameInv(f), InTail(f), f.is_root, f.stage = "full",
         TailRoot(f), ret \in NodeResults,
         Contract(Value[ChildPos(f)], ret.score, ChildAlpha(f), ChildBeta(f))
  PROVE  TailRoot(AfterCandidate(f))
<1> DEFINE c == -ret.score
           v == -Value[Play[f.pos][f.cur]]
           g == AfterCandidate(f)
<1>1. /\ f.cur \in Moves[f.pos] \ f.todo /\ LoopInv(f)
      /\ f.original_alpha = -1000 /\ f.beta = 1000 /\ f.pos \in Positions
      /\ f.best.score \in Int /\ f.alpha \in Int
  BY DEF FrameInv, FullWindow, CandidateStages, Waiting, Frames, NodeResults,
         ScoreMin, ScoreMax
<1>2. \A m \in Moves[f.pos] :
        /\ m \in Squares /\ Value[Play[f.pos][m]] \in Int
        /\ Value[Play[f.pos][m]] >= -64 /\ Value[Play[f.pos][m]] <= 64
  BY <1>1, GameTypes, ValueType
<1>3. \A m \in Moves[f.pos] : m \in Int /\ m # NoMove
  BY <1>2 DEF Squares, NoMove
<1>4. /\ Ranked(f) /\ \A m \in Searched(f) : m < f.cur
      /\ \A m \in Moves[f.pos] \ f.todo : \A n \in f.todo : m < n
  BY DEF TailRoot
<1>5. f.cur \in Moves[f.pos] \ Searched(f) /\ Searched(f) \subseteq Moves[f.pos]
  BY <1>1 DEF Searched
<1>6. /\ v \in Int /\ c \in Int /\ v >= -64 /\ v <= 64
      /\ c > f.alpha => v >= c
      /\ c < 1000 => v <= c
  BY <1>1, <1>2, CandidateScore
<1>7. /\ g.stage = "loop" /\ g.pos = f.pos /\ g.todo = f.todo
      /\ g.best = IF IsBetterBestMove(c, f.cur, f.best)
                  THEN [score |-> c, best_move |-> f.cur, pv |-> <<f.cur>> \o ret.pv]
                  ELSE f.best
  BY DEF AfterCandidate, Frames
<1>8. Searched(g) = Searched(f) \cup {f.cur}
  BY <1>1, <1>7 DEF Searched
<1> HIDE DEF c, g
<1>9. Ranked(g)
  <2>1. CASE f.best.best_move = NoMove
    <3>1. Searched(g) = {f.cur} /\ f.alpha = -1000
      BY <2>1, <1>1, <1>8 DEF LoopInv
    <3>2. v = c
      BY <3>1, <1>6
    <3>3. g.best.score = c /\ g.best.best_move = f.cur
      BY <2>1, <1>7 DEF IsBetterBestMove
    <3> QED
      BY <3>1, <3>2, <3>3, <1>1, <1>3, <1>6, <1>7 DEF Ranked
  <2>2. CASE f.best.best_move # NoMove
    <3>1. /\ f.best.best_move \in Searched(f)
          /\ f.best.score = -Value[Play[f.pos][f.best.best_move]]
          /\ \A m \in Searched(f) :
               /\ -Value[Play[f.pos][m]] <= f.best.score
               /\ -Value[Play[f.pos][m]] = f.best.score => f.best.best_move <= m
      BY <2>2, <1>4 DEF Ranked
    <3>2. f.alpha = f.best.score /\ f.best.score <= 64
      <4>1. f.best.best_move \in Moves[f.pos]
        BY <3>1, <1>5
      <4>2. f.best.score >= -64 /\ f.best.score <= 64
        BY <4>1, <3>1, <1>2
      <4>3. f.alpha = MaxOf(-1000, f.best.score)
        BY <2>2, <1>1 DEF LoopInv
      <4> QED
        BY <4>2, <4>3, <1>1 DEF MaxOf
    <3>3. f.best.best_move < f.cur
      BY <3>1, <1>4, <1>5
    <3>4. CASE c > f.best.score
      <4>1. v = c
        BY <3>2, <3>4, <1>1, <1>6
      <4>2. g.best.score = c /\ g.best.best_move = f.cur
        BY <3>4, <1>7 DEF IsBetterBestMove
      <4>3. \A m \in Searched(f) : -Value[Play[f.pos][m]] < c
        BY <3>1, <3>4, <1>1, <1>2, <1>5, <1>6
      <4> QED
        BY <4>1, <4>2, <4>3, <1>1, <1>2, <1>3, <1>5, <1>6, <1>7, <1>8 DEF Ranked
    <3>5. CASE c <= f.best.score
      <4>1. v <= f.best.score
        BY <3>2, <3>5, <1>1, <1>6
      <4>2. g.best = f.best
        <5>1. f.cur \in Int /\ f.best.best_move \in Int
          BY <3>1, <1>1, <1>3, <1>5
        <5>2. ~IsBetterBestMove(c, f.cur, f.best)
          BY <5>1, <2>2, <3>3, <3>5, <1>1, <1>6 DEF IsBetterBestMove
        <5> QED
          BY <5>2, <1>7
      <4>3. \A m \in Searched(g) :
              /\ -Value[Play[f.pos][m]] <= f.best.score
              /\ -Value[Play[f.pos][m]] = f.best.score => f.best.best_move <= m
        BY <3>1, <3>3, <4>1, <1>1, <1>3, <1>5, <1>8
      <4> QED
        BY <4>2, <4>3, <3>1, <1>7, <1>8 DEF Ranked
    <3> QED
      BY <3>4, <3>5, <1>1, <1>6
  <2> QED
    BY <2>1, <2>2
<1> QED
  BY <1>4, <1>7, <1>9 DEF TailRoot, g

(***************************************************************************)
(* Steps.                                                                  *)
(***************************************************************************)

\* Every step is a call, a loop step or a return.
LEMMA StepShape ==
  ASSUME Next
  PROVE  \/ \E f, g : stack' = Append(SetTop(f), g)
         \/ \E f : stack' = SetTop(f)
         \/ stack' = Popped
<1>1. CASE Enter
  BY <1>1 DEF Enter, SolveLast1, Cutoff, GameOver, SearchPass, StartMoves,
       StoreAndReturn, Return, Call, Continue
<1>2. CASE Loop
  BY <1>2 DEF Loop, RootCandidateFull, RootCandidateHopeless, RootCandidateScout,
       InteriorFull, InteriorScout, Finish, StoreAndReturn, Return, Call, Continue
<1>3. CASE Resume
  BY <1>3 DEF Resume, ResumePass, RootScoutReject, RootScoutPromising, ScoutInside,
       ScoutOutside, ResumeFull, StoreAndReturn, Return, Call, Continue
<1> QED
  BY <1>1, <1>2, <1>3 DEF Next

\* Above the bottom frame nothing matters.
LEMMA DeepStep ==
  ASSUME Inv, BaseInv, Next, stack # << >>, Len(stack) # 1
  PROVE  BaseInv'
<1>1. stack \in Seq(Frames)
  BY DEF Inv, TypeOK
<1>2. stack' # << >> /\ stack'[1] = stack[1]
  BY <1>1, StepShape, BottomKept
<1>3. CalledBy(stack[2], stack[1])
  <2>1. Len(stack) \in Nat \ {0, 1}
    BY <1>1, EmptySeq
  <2>2. \A n \in Nat \ {0, 1} : 1 \in 1 .. n - 1
    OBVIOUS
  <2>3. 1 \in 1 .. Len(stack) - 1 /\ 1 + 1 = 2
    BY <2>1, <2>2
  <2> QED
    BY <2>3 DEF Inv, ControlInv
<1> QED
  BY <1>2, <1>3, BaseUnchanged DEF Base, CalledBy, Waiting

\* The root's own result, or what the root's frame becomes.
LEMMA RootReturns ==
  ASSUME NEW r, stack' = << >>, ret' = r, root' = root,
         Moves[root] # {} => LowestOptimal(r.best_move)
  PROVE  BaseInv'
<1>1. LowestOptimal(r.best_move) => LowestOptimal(r.best_move)'
  BY DEF LowestOptimal, Optimal
<1>2. Len(stack') # 1
  BY EmptySeq
<1> QED
  BY <1>1, <1>2 DEF BaseInv

LEMMA RootEnter ==
  ASSUME Inv, BaseInv, Len(stack) = 1, Enter
  PROVE  BaseInv'
<1>1. stack \in Seq(Frames) /\ tt \in Tables /\ stack # << >>
  BY EmptySeq DEF Inv, TypeOK
<1>2. Top = Base /\ Popped = << >> /\ Top \in Frames /\ Top.pos \in Positions
  BY <1>1, OneFrame, TopFacts DEF Running, Frames
<1>3. Entering
  BY DEF Enter, SolveLast1, Cutoff, GameOver, SearchPass, StartMoves, Searches
<1>4. /\ Top.pos = root /\ Top.is_root /\ Top.stage = "enter" /\ tt = EmptyTable
      /\ FrameInv(Top)
  BY <1>1, <1>2, <1>3, TopFacts DEF BaseInv, Inv, ControlInv, Base, Entering
<1>5. CASE SolveLast1
  <2>1. ASSUME Moves[root] # {}
        PROVE  LowestOptimal(SolveLast1Result(root).best_move)
    <3>1. Empties[root] = 1
      <4>1. root \in Positions /\ Empties[root] <= 1
        BY <1>2, <1>4, <1>5 DEF SolveLast1
      <4>2. Empties[root] \in 0 .. 60
        BY <4>1, GameTypes
      <4> QED
        BY <4>1, <4>2, <2>1, GameProgress
    <3>2. SolveLast1Result(root).best_move \in Moves[root]
      BY <2>1 DEF SolveLast1Result
    <3>3. \A m, n \in Moves[root] : m = n
      BY <3>1, <1>2, <1>4, SolverAssumption
    <3>4. \E m \in Moves[root] : Value[root] = -Value[Play[root][m]]
      BY <2>1, <1>2, <1>4, ValueEquation
    <3>5. Moves[root] \subseteq Int
      <4>1. Moves[root] \subseteq Squares
        BY <1>2, <1>4, GameTypes
      <4> QED
        BY <4>1 DEF Squares
    <3> QED
      BY <3>2, <3>3, <3>4, <3>5 DEF LowestOptimal, Optimal
  <2> QED
    BY <2>1, <1>2, <1>4, <1>5, RootReturns DEF SolveLast1, Return
<1>6. CASE Cutoff
  <2>1. PICK e \in Matching(tt, Top.pos, Empties[Top.pos]) : TRUE
    BY <1>6 DEF Cutoff, NodeCutoffs, Cutoffs
  <2>2. PICK k \in Buckets : \E i \in Slots : tt[k][i] = e /\ e.occupied
    BY <2>1, <1>1, <1>2, MatchingFacts
  <2> QED
    BY <2>2, <1>4 DEF EmptyTable, EmptySlot
<1>7. CASE GameOver
  BY <1>2, <1>4, <1>7, RootReturns DEF GameOver, Terminal, StoreAndReturn, Return
<1>8. CASE SearchPass
  <2> DEFINE f == [Top EXCEPT !.stage = "pass"]
             g == NewFrame(ChildPos(f), ChildAlpha(f), ChildBeta(f), ChildIsRoot(f))
  <2>1. f \in Frames /\ f.stage = "pass" /\ f.is_root
    BY <1>2, <1>4 DEF Frames, Waiting
  <2>2. stack' = Append(SetTop(f), g)
    BY <1>8 DEF SearchPass, Call
  <2> HIDE DEF f, g
  <2>3. stack' # << >> /\ stack'[1] = f
    BY <1>1, <2>1, <2>2, OneFrame, EmptySeq
  <2> QED
    BY <2>1, <2>3, BaseReplaced DEF TailRoot
<1>9. CASE StartMoves
  <2> DEFINE hint == IF InTail(Top) THEN NoMove
                     ELSE BestMoveHint(tt, Top.pos, Empties[Top.pos])
             f == [Top EXCEPT !.stage = "loop", !.todo = Moves[Top.pos], !.hint = hint]
  <2>1. stack' = SetTop(f)
    BY <1>9 DEF StartMoves, Continue
  <2> HIDE DEF hint
  <2>2. /\ f.stage = "loop" /\ f.is_root /\ f.todo = Moves[f.pos]
        /\ f.best = NoCandidate
    BY <1>2, <1>4 DEF Frames, FrameInv
  <2> HIDE DEF f
  <2>3. stack' # << >> /\ stack'[1] = f
    BY <1>1, <2>1, OneFrame DEF f
  <2>4. TailRoot(f)
    BY <2>2 DEF TailRoot, Ranked, NoCandidate, Searched
  <2> QED
    BY <2>2, <2>3, <2>4, BaseReplaced
<1> QED
  BY <1>5, <1>6, <1>7, <1>8, <1>9 DEF Enter

LEMMA RootBecomes ==
  ASSUME stack \in Seq(Frames), Len(stack) = 1,
         NEW f, f.stage # "enter", f.is_root, InTail(f) => TailRoot(f),
         \/ \E g : stack' = Append(SetTop(f), g)
         \/ stack' = SetTop(f)
  PROVE  BaseInv'
<1>1. CASE \E g : stack' = Append(SetTop(f), g)
  <2>1. PICK g : stack' = Append(SetTop(f), g)
    BY <1>1
  <2>2. stack' # << >> /\ stack'[1] = f
    BY <2>1, OneFrame
  <2> QED
    BY <2>2, BaseReplaced
<1>2. CASE stack' = SetTop(f)
  <2>1. stack' # << >> /\ stack'[1] = f
    BY <1>2, OneFrame
  <2> QED
    BY <2>1, BaseReplaced
<1> QED
  BY <1>1, <1>2

LEMMA RootLoop ==
  ASSUME Inv, BaseInv, Len(stack) = 1, Loop
  PROVE  BaseInv'
<1>1. InLoop /\ stack \in Seq(Frames) /\ stack # << >>
  BY DEF Loop, RootCandidateFull, RootCandidateHopeless, RootCandidateScout,
         RootScouts, InteriorFull, InteriorScout, Finish, MoreMoves, InLoop,
         Running, Inv, TypeOK
<1>2. Top = Base /\ Popped = << >> /\ Top \in Frames /\ FrameInv(Top)
  BY <1>1, OneFrame, TopFacts DEF Running
<1>3. /\ Top.pos = root /\ Top.is_root /\ Top.stage = "loop"
      /\ InTail(Top) => TailRoot(Top)
  BY <1>1, <1>2 DEF BaseInv, Inv, ControlInv, Base, InLoop
<1>5. \A m, stage : /\ Pick(m, stage).stage = stage
                    /\ Pick(m, stage).is_root = Top.is_root
                    /\ Pick(m, stage).pos = Top.pos
                    /\ Pick(m, stage).best = Top.best
                    /\ Pick(m, stage).cur = m
                    /\ Pick(m, stage).todo = Top.todo \ {m}
  BY <1>2 DEF Pick, Frames
\* Candidates that are not full searches of a tail: only where there is no tail.
<1>6. CASE RootCandidateFull \/ RootCandidateScout \/ InteriorScout
  <2>1. PICK m, stage : /\ ~InTail(Top)
                        /\ stage # "enter"
                        /\ Call(Pick(m, stage))
    BY <1>6 DEF RootCandidateFull, RootCandidateScout, RootScouts, InteriorScout,
                IsRootLoop
  <2> DEFINE f == Pick(m, stage)
  <2>2. ~InTail(f) /\ f.stage # "enter" /\ f.is_root
    <3>1. f.stage = stage /\ f.pos = Top.pos /\ f.is_root = Top.is_root
      BY <1>5
    <3> HIDE DEF f
    <3> QED
      BY <3>1, <2>1, <1>3 DEF InTail
  <2>3. \E g : stack' = Append(SetTop(f), g)
    BY <2>1 DEF Call
  <2> HIDE DEF f
  <2> QED
    BY <2>2, <2>3, <1>1, RootBecomes
<1>7. CASE RootCandidateHopeless
  <2>1. PICK m : Continue([Top EXCEPT !.todo = @ \ {m}]) /\ ~InTail(Top)
    BY <1>7 DEF RootCandidateHopeless, RootScouts, IsRootLoop
  <2> DEFINE f == [Top EXCEPT !.todo = @ \ {m}]
  <2>2. f.stage = "loop" /\ f.is_root /\ ~InTail(f)
    BY <2>1, <1>2, <1>3 DEF Frames, InTail
  <2> HIDE DEF f
  <2> QED
    BY <2>1, <2>2, <1>1, RootBecomes DEF Continue, f
<1>8. CASE InteriorFull
  <2>1. PICK m \in Top.todo : IsNext(Top, m) /\ Call(Pick(m, "full"))
    BY <1>8 DEF InteriorFull
  <2>2. InTail(Top) /\ TailRoot(Top)
    BY <1>3, <1>8 DEF InteriorFull, IsRootLoop
  <2>3. /\ Ranked(Top)
        /\ \A q \in Moves[Top.pos] \ Top.todo : \A n \in Top.todo : q < n
        /\ \A n \in Top.todo \ {m} : m < n
    BY <2>1, <2>2, <1>3 DEF TailRoot, IsNext, Before
  <2> DEFINE f == Pick(m, "full")
  <2>4. /\ f.stage = "full" /\ f.is_root /\ f.pos = Top.pos /\ f.best = Top.best
        /\ f.cur = m /\ f.todo = Top.todo \ {m}
    BY <1>3, <1>5
  <2> HIDE DEF f
  <2>5. m \in Moves[Top.pos] /\ Top.todo \subseteq Moves[Top.pos]
    BY <2>1, <1>2 DEF FrameInv
  <2>6. Searched(f) = Searched(Top) /\ Searched(Top) = Moves[Top.pos] \ Top.todo
    BY <2>4, <2>5, <1>3 DEF Searched
  <2>7. TailRoot(f)
    <3>1. Ranked(f)
      BY <2>3, <2>4, <2>6 DEF Ranked
    <3> QED
      BY <3>1, <2>1, <2>3, <2>4, <2>5, <2>6 DEF TailRoot
  <2> QED
    BY <2>1, <2>4, <2>7, <1>1, RootBecomes DEF Call, f
<1>9. CASE Finish
  <2>1. /\ Top.todo = {} \/ Top.alpha >= Top.beta
        /\ stack' = << >> /\ ret' = Top.best /\ root' = root
    BY <1>2, <1>9 DEF Finish, StoreAndReturn, Return
  <2>2. LowestOptimal(Top.best.best_move)
    BY <2>1, <1>2, <1>3, RankedIsLowest DEF TailRoot
  <2> QED
    BY <2>1, <2>2, RootReturns
<1> QED
  BY <1>6, <1>7, <1>8, <1>9 DEF Loop

LEMMA RootResume ==
  ASSUME Inv, BaseInv, Len(stack) = 1, Resume
  PROVE  BaseInv'
<1>1. /\ stack \in Seq(Frames) /\ stack # << >> /\ Running /\ ret # NoResult
      /\ ret \in NodeResults
  BY DEF Resume, ResumePass, RootScoutReject, RootScoutPromising, ScoutInside,
         ScoutOutside, ResumeFull, Resumed, Running, Inv, TypeOK
<1>2. Top = Base /\ Popped = << >> /\ Top \in Frames /\ FrameInv(Top)
  BY <1>1, OneFrame, TopFacts
<1>3. /\ Top.pos = root /\ Top.is_root
      /\ InTail(Top) => TailRoot(Top)
      /\ Contract(Value[ChildPos(Top)], ret.score, ChildAlpha(Top), ChildBeta(Top))
  BY <1>1, <1>2 DEF BaseInv, Inv, ControlInv, Base
<1>5. CASE ResumePass
  <2>1. Moves[root] = {}
    BY <1>2, <1>3, <1>5 DEF ResumePass, Resumed, FrameInv
  <2> QED
    BY <2>1, <1>2, <1>5, RootReturns DEF ResumePass, StoreAndReturn, Return
<1>6. CASE RootScoutReject
  <2> DEFINE f == [Top EXCEPT !.cur = NoMove, !.stage = "loop"]
  <2>1. stack' = SetTop(f) /\ ~InTail(Top)
    BY <1>3, <1>6 DEF RootScoutReject, Resumed, Continue, TailRoot
  <2>2. f.stage = "loop" /\ f.is_root /\ ~InTail(f)
    BY <2>1, <1>2, <1>3 DEF Frames, InTail
  <2> HIDE DEF f
  <2> QED
    BY <2>1, <2>2, <1>1, RootBecomes
<1>7. CASE RootScoutPromising \/ ScoutInside
  <2>1. PICK stage \in {"root_full", "research"} :
          Call([Top EXCEPT !.stage = stage]) /\ ~InTail(Top)
    BY <1>3, <1>7 DEF RootScoutPromising, ScoutInside, Resumed, TailRoot
  <2> DEFINE f == [Top EXCEPT !.stage = stage]
  <2>2. f.stage # "enter" /\ f.is_root /\ ~InTail(f)
    BY <2>1, <1>2, <1>3 DEF Frames, InTail
  <2>3. \E g : stack' = Append(SetTop(f), g)
    BY <2>1 DEF Call
  <2> HIDE DEF f
  <2> QED
    BY <2>2, <2>3, <1>1, RootBecomes
<1>8. CASE ScoutOutside \/ ResumeFull
  <2>1. /\ stack' = SetTop(AfterCandidate(Top))
        /\ InTail(Top) => Top.stage = "full"
    BY <1>3, <1>8 DEF ScoutOutside, ResumeFull, Resumed, Continue, TailRoot
  <2>2. /\ AfterCandidate(Top).stage = "loop" /\ AfterCandidate(Top).is_root
        /\ InTail(AfterCandidate(Top)) <=> InTail(Top)
    BY <1>2, <1>3 DEF AfterCandidate, Frames, InTail
  <2>3. InTail(Top) => TailRoot(AfterCandidate(Top))
    BY <2>1, <1>1, <1>2, <1>3, TailCandidate
  <2> QED
    BY <2>1, <2>2, <2>3, <1>1, RootBecomes
<1> QED
  BY <1>5, <1>6, <1>7, <1>8 DEF Resume

LEMMA InitBaseInv ==
  ASSUME Init
  PROVE  BaseInv
<1> DEFINE f == NewFrame(root, ScoreMin, ScoreMax, TRUE)
<1>1. stack = <<f>> /\ tt = EmptyTable
  BY DEF Init
<1>2. f.is_root /\ f.stage = "enter"
  BY DEF NewFrame
<1> HIDE DEF f
<1>3. Base = f /\ stack # << >>
  BY <1>1 DEF Base
<1> QED
  BY <1>1, <1>2, <1>3 DEF BaseInv, TailRoot

LEMMA StepBaseInv ==
  ASSUME Inv, BaseInv, [Next]_vars
  PROVE  BaseInv'
<1>1. CASE Next
  <2>1. stack # << >>
    BY <1>1 DEF Next, Enter, SolveLast1, Cutoff, GameOver, SearchPass, StartMoves,
         Searches, Entering, Loop, RootCandidateFull, RootCandidateHopeless,
         RootCandidateScout, RootScouts, InteriorFull, InteriorScout, Finish,
         MoreMoves, InLoop, Resume, ResumePass, RootScoutReject,
         RootScoutPromising, ScoutInside, ScoutOutside, ResumeFull, Resumed, Running
  <2>2. CASE Len(stack) = 1
    BY <2>2, <1>1, RootEnter, RootLoop, RootResume DEF Next
  <2> QED
    BY <2>1, <2>2, <1>1, DeepStep
<1>2. CASE UNCHANGED vars
  <2>1. stack' = stack /\ ret' = ret /\ root' = root /\ tt' = tt
    BY <1>2 DEF vars
  <2> QED
    BY <2>1 DEF BaseInv, Base, LowestOptimal, Optimal
<1> QED
  BY <1>1, <1>2

\* The best move of an exact result is the lowest square that keeps the margin.
THEOREM BestMoveIsDeterministic == Spec => []BestMoveDeterministic
<1>1. Init => BaseInv
  BY InitBaseInv
<1>2. Inv /\ BaseInv /\ [Next]_vars => BaseInv'
  BY StepBaseInv
<1>3. BaseInv => BestMoveDeterministic
  BY DEF BaseInv, BestMoveDeterministic, LowestOptimal, Done
<1> QED
  BY <1>1, <1>2, <1>3, Invariance, PTL DEF Spec

(***************************************************************************)
(* Lines.  What a node reports for its position can be played from there   *)
(* and begins with its best move; in a game that is solved without a table *)
(* it goes on to the end of the game.                                      *)
(***************************************************************************)
LineOK(q, r) ==
  /\ LineEnd(q, r.pv) # {}
  /\ r.best_move \in Moves[q] \cup {NoMove}
  /\ r.best_move # NoMove => r.pv # << >> /\ Head(r.pv) = r.best_move
  /\ q \in Tableless => \A p \in LineEnd(q, r.pv) : Terminal(p)

FrameLine(f) == f.best.best_move # NoMove => LineOK(f.pos, f.best)
EntryMove(e) == e.best_move_index \in Moves[e.hash] \cup {NoMove}

FrameLines == \A i \in 1 .. Len(stack) : FrameLine(stack[i])
RetLine ==
  ret # NoResult => LineOK(IF stack = << >> THEN root ELSE ChildPos(Top), ret)
TableMoves ==
  \A k \in Buckets : \A i \in Slots : tt[k][i].occupied => EntryMove(tt[k][i])
LineInv == FrameLines /\ RetLine /\ TableMoves

\* The line of a position where the game is over.
LEMMA LeafLine ==
  ASSUME NEW q \in Positions, Terminal(q), NEW score
  PROVE  LineOK(q, Leaf(score))
<1>1. LineEnd(q, << >>) = {q}
  BY LineEmpty
<1> QED
  BY <1>1 DEF LineOK, Leaf

\* A move and the line of the position it leads to.
LEMMA MoveLine ==
  ASSUME NEW p \in Positions, NEW m \in Moves[p], NEW r, r.pv \in Seq(Squares),
         LineOK(Play[p][m], r), NEW score
  PROVE  LineOK(p, [score |-> score, best_move |-> m, pv |-> <<m>> \o r.pv])
<1> DEFINE new == [score |-> score, best_move |-> m, pv |-> <<m>> \o r.pv]
           q == Play[p][m]
<1>1. q \in Positions /\ m \in Squares /\ Follow(p, m) = {q}
  BY GameTypes DEF Follow
<1>2. new.best_move = m /\ new.pv = <<m>> \o r.pv
  OBVIOUS
<1>3. p \in Tableless => q \in Tableless
  BY TablelessAssumption
<1>4. LineOK(q, r)
  OBVIOUS
<1> HIDE DEF new, q
<1>5. LineEnd(p, new.pv) = LineEnd(q, r.pv) /\ new.pv # << >> /\ Head(new.pv) = m
  BY <1>1, <1>2, LineCons
<1>6. LineOK(p, new)
  BY <1>2, <1>3, <1>4, <1>5 DEF LineOK
<1> QED
  BY <1>6 DEF new

\* The line of a pass is that of the position passed to.
LEMMA PassLine ==
  ASSUME NEW p \in Positions, Moves[p] = {}, ~Terminal(p), NEW r,
         r.pv \in Seq(Squares), LineOK(Pass[p], r), NEW score
  PROVE  LineOK(p, [score |-> score, best_move |-> NoMove, pv |-> r.pv])
<1> DEFINE new == [score |-> score, best_move |-> NoMove, pv |-> r.pv]
<1>1. new.best_move = NoMove /\ new.pv = r.pv
  OBVIOUS
<1> HIDE DEF new
<1>2. /\ Pass[p] \in Positions /\ ~Terminal(Pass[p])
      /\ p \in Tableless => Pass[p] \in Tableless
  BY GameTypes, TablelessAssumption DEF Terminal
<1>3. CASE r.pv = << >>
  <2>1. LineEnd(p, r.pv) = {p} /\ LineEnd(Pass[p], r.pv) = {Pass[p]}
    BY <1>2, <1>3, LineEmpty
  <2>2. p \notin Tableless
    BY <1>2, <2>1 DEF LineOK
  <2> QED
    BY <1>1, <2>1, <2>2 DEF LineOK, new
<1>4. CASE r.pv # << >>
  <2>1. LineEnd(p, r.pv) = LineEnd(Pass[p], r.pv)
    BY <1>4, LineThroughPass
  <2> QED
    BY <1>1, <1>2, <2>1 DEF LineOK, new
<1> QED
  BY <1>3, <1>4

\* A line of one legal move that nothing need follow.
LEMMA OneMoveLine ==
  ASSUME NEW p \in Positions, NEW m \in Moves[p], NEW score,
         p \in Tableless => Terminal(Play[p][m])
  PROVE  LineOK(p, [score |-> score, best_move |-> m, pv |-> <<m>>])
<1> DEFINE end == [score |-> score, best_move |-> NoMove, pv |-> << >>]
           q == Play[p][m]
<1>1. q \in Positions /\ m \in Squares
  BY GameTypes
<1>2. end.pv = << >> /\ end.best_move = NoMove
  OBVIOUS
<1>3. << >> \in Seq(Squares) /\ <<m>> \in Seq(Squares)
  BY <1>1, EmptySeq
<1>4. <<m>> \o << >> = <<m>>
  BY <1>3
<1>5. LineEnd(q, << >>) = {q} /\ Follow(p, m) = {q}
  BY <1>1, LineEmpty DEF Follow
<1>6. LineEnd(p, <<m>>) = {q} /\ <<m>> # << >> /\ Head(<<m>>) = m
  <2> HIDE DEF q
  <2> DEFINE none == << >>
  <2>1. none \in Seq(Squares) /\ <<m>> \o none = <<m>> /\ LineEnd(q, none) = {q}
    BY <1>3, <1>4, <1>5
  <2> HIDE DEF none
  <2>2. /\ <<m>> \o none # << >> /\ Head(<<m>> \o none) = m
        /\ LineEnd(p, <<m>> \o none) = LineEnd(q, none)
    BY <1>1, <1>5, <2>1, LineCons
  <2> QED
    BY <2>1, <2>2
<1> DEFINE new == [score |-> score, best_move |-> m, pv |-> <<m>>]
<1>7. new.best_move = m /\ new.pv = <<m>>
  OBVIOUS
<1> HIDE DEF new
<1>8. LineOK(p, new)
  BY <1>6, <1>7 DEF LineOK
<1> QED
  BY <1>8 DEF new

\* With at most one empty square the tail functions report the last move.
LEMMA LastSquareLine ==
  ASSUME NEW p \in Positions, Empties[p] <= 1
  PROVE  LineOK(p, SolveLast1Result(p))
<1> DEFINE sq(q) == CHOOSE m \in Moves[q] : TRUE
           last(q) == Play[q][sq(q)]
<1>1. \A q \in Positions : Empties[q] = 0 => Terminal(q)
  BY GameTypes, GameProgress DEF Terminal
<1>2. \A q \in Positions : Empties[q] <= 1 /\ Moves[q] # {} =>
        sq(q) \in Moves[q] /\ Terminal(last(q))
  <2> SUFFICES ASSUME NEW q \in Positions, Empties[q] <= 1, Moves[q] # {}
               PROVE  sq(q) \in Moves[q] /\ Terminal(last(q))
    OBVIOUS
  <2>1. sq(q) \in Moves[q]
    OBVIOUS
  <2>2. Empties[q] = 1
    BY GameTypes, GameProgress
  <2>3. last(q) \in Positions /\ Empties[last(q)] = 0
    BY <2>1, <2>2, GameTypes, GameProgress
  <2> QED
    BY <2>1, <2>3, <1>1
<1>3. SolveLast1Result(p) =
        IF Moves[p] # {} THEN
          [score |-> -Margin[last(p)], best_move |-> sq(p), pv |-> <<sq(p)>>]
        ELSE IF Moves[Pass[p]] # {} THEN
          [score |-> Margin[last(Pass[p])], best_move |-> NoMove,
           pv |-> <<sq(Pass[p])>>]
        ELSE Leaf(Margin[p])
  BY DEF SolveLast1Result
<1>4. \A q \in Positions : Empties[q] <= 1 /\ Moves[q] # {} => Terminal(Play[q][sq(q)])
  BY <1>2
<1> HIDE DEF sq
<1>5. CASE Moves[p] # {}
  <2>1. LineOK(p, [score |-> -Margin[last(p)], best_move |-> sq(p), pv |-> <<sq(p)>>])
    BY <1>2, <1>4, <1>5, OneMoveLine
  <2> QED
    BY <1>3, <1>5, <2>1
<1>6. CASE Moves[p] = {} /\ Moves[Pass[p]] # {}
  <2> DEFINE q == Pass[p]
             r == [score |-> Margin[last(q)], best_move |-> sq(q), pv |-> <<sq(q)>>]
  <2>1. q \in Positions /\ Empties[q] <= 1 /\ Moves[q] # {}
    BY <1>6, GameTypes, GameProgress
  <2>2. sq(q) \in Moves[q] /\ sq(q) \in Squares
    BY <2>1, <1>2, GameTypes
  <2>3. LineOK(q, r)
    <3> HIDE DEF q
    <3> QED
      BY <2>1, <2>2, <1>4, OneMoveLine
  <2>4. r.pv = <<sq(q)>> /\ r.pv \in Seq(Squares)
    BY <2>2, EmptySeq
  <2> HIDE DEF r
  <2>5. LineOK(p, [score |-> Margin[last(q)], best_move |-> NoMove, pv |-> r.pv])
    <3>1. ~Terminal(p) /\ Moves[p] = {} /\ LineOK(Pass[p], r)
      BY <1>6, <2>3 DEF Terminal
    <3> QED
      BY <2>4, <3>1, PassLine
  <2> QED
    BY <1>3, <1>6, <2>4, <2>5
<1>7. CASE Moves[p] = {} /\ Moves[Pass[p]] = {}
  BY <1>3, <1>7, LeafLine DEF Terminal
<1> QED
  BY <1>5, <1>6, <1>7

(***************************************************************************)
(* The lines after a call, a loop step and a return.                       *)
(***************************************************************************)
LEMMA CallLines ==
  ASSUME Inv, LineInv, Running, NEW f \in Frames, ChildPos(f) \in Positions,
         FrameLine(f), Call(f)
  PROVE  LineInv'
<1> DEFINE n == Len(stack)
           g == NewFrame(ChildPos(f), ChildAlpha(f), ChildBeta(f), ChildIsRoot(f))
<1>1. stack # << >> /\ stack \in Seq(Frames) /\ n \in Nat
  BY TopFacts, EmptySeq DEF Inv, TypeOK
<1>2. g \in Frames
  <2>1. ChildIsRoot(f) \in BOOLEAN /\ NoCandidate \in NodeResults
    BY DEF ChildIsRoot, Frames, NoCandidate, NodeResults
  <2>2. f.alpha \in Int /\ f.beta \in Int /\ RequiredScore(f) \in Int
    BY DEF RequiredScore, Frames, NodeResults
  <2>3. ChildAlpha(f) \in Int /\ ChildBeta(f) \in Int
    BY <2>2 DEF ChildAlpha, ChildBeta, ScoreMin, ScoreMax
  <2> QED
    BY <2>1, <2>3 DEF NewFrame, Frames
<1>3. FrameLine(g)
  BY DEF FrameLine, NewFrame, NoCandidate
<1>4. stack' = Append(SetTop(f), g) /\ ret' = NoResult /\ tt' = tt
  BY DEF Call
<1> HIDE DEF g
<1>5. /\ Len(stack') = n + 1 /\ stack'[n + 1] = g /\ stack'[n] = f
      /\ \A i \in 1 .. n - 1 : stack'[i] = stack[i]
  BY <1>1, <1>2, <1>4, PushFacts
<1>6. \A i \in 1 .. n : FrameLine(stack[i])
  BY DEF LineInv, FrameLines
<1> HIDE DEF n
<1>7. \A i \in 1 .. n + 1 : FrameLine(stack'[i])
  <2> TAKE i \in 1 .. n + 1
  <2>1. \/ i \in 1 .. n - 1 /\ i \in 1 .. n
        \/ i = n \/ i = n + 1
    BY <1>1
  <2> QED
    BY <2>1, <1>3, <1>5, <1>6
<1>8. FrameLines'
  BY <1>5, <1>7 DEF FrameLines, FrameLine, LineOK
<1> QED
  BY <1>4, <1>8 DEF LineInv, RetLine, TableMoves, EntryMove

LEMMA ContinueLines ==
  ASSUME Inv, LineInv, Running, NEW f \in Frames, FrameLine(f), Continue(f)
  PROVE  LineInv'
<1> DEFINE n == Len(stack)
<1>1. stack # << >> /\ stack \in Seq(Frames) /\ n \in Nat
  BY TopFacts, EmptySeq DEF Inv, TypeOK
<1>2. stack' = SetTop(f) /\ ret' = NoResult /\ tt' = tt
  BY DEF Continue
<1>3. /\ Len(stack') = n /\ stack'[n] = f
      /\ \A i \in 1 .. n - 1 : stack'[i] = stack[i]
  BY <1>1, <1>2, SetTopFacts
<1>4. \A i \in 1 .. n : FrameLine(stack[i])
  BY DEF LineInv, FrameLines
<1> HIDE DEF n
<1>5. \A i \in 1 .. n : FrameLine(stack'[i])
  <2> TAKE i \in 1 .. n
  <2>1. i \in 1 .. n - 1 \/ i = n
    BY <1>1
  <2> QED
    BY <2>1, <1>3, <1>4
<1>6. FrameLines'
  BY <1>3, <1>5 DEF FrameLines, FrameLine, LineOK
<1> QED
  BY <1>2, <1>6 DEF LineInv, RetLine, TableMoves, EntryMove

LEMMA ReturnLines ==
  ASSUME Inv, LineInv, Running, NEW r \in NodeResults, Return(r), LineOK(Top.pos, r),
         tt' = tt \/ StoreAndReturn(Top, r)
  PROVE  LineInv'
<1> DEFINE n == Len(stack)
<1>1. /\ stack # << >> /\ stack \in Seq(Frames) /\ n \in Nat \ {0} /\ Top = stack[n]
      /\ Top \in Frames /\ Top.pos \in Positions /\ tt \in Tables /\ ControlInv
  BY TopFacts, EmptySeq DEF Inv, TypeOK, Top
<1>2. /\ Len(stack') = n - 1 /\ stack' \in Seq(Frames)
      /\ \A i \in 1 .. n - 1 : stack'[i] = stack[i]
  BY <1>1, PopFacts DEF Return
<1>3. ret' = r /\ root' = root
  BY DEF Return
<1>4. \A i \in 1 .. n : FrameLine(stack[i])
  BY DEF LineInv, FrameLines
<1>5. \A i \in 1 .. n - 1 : CalledBy(stack[i + 1], stack[i])
  BY <1>1 DEF ControlInv
<1>6. stack[1].pos = root
  BY <1>1 DEF ControlInv
<1> HIDE DEF n
<1>7. \A i \in 1 .. n - 1 : FrameLine(stack'[i])
  <2> TAKE i \in 1 .. n - 1
  <2>1. i \in 1 .. n
    BY <1>1
  <2> QED
    BY <2>1, <1>2, <1>4
<1>8. FrameLines'
  BY <1>2, <1>7 DEF FrameLines, FrameLine, LineOK
<1>9. (IF stack' = << >> THEN root' ELSE ChildPos(Top')) = Top.pos
  <2>1. CASE n = 1
    <3>1. stack' = << >>
      BY <1>2, <2>1, EmptySeq
    <3> QED
      BY <3>1, <2>1, <1>1, <1>3, <1>6
  <2>2. CASE n # 1
    <3>1. n - 1 \in 1 .. n - 1 /\ n - 1 + 1 = n
      BY <1>1, <2>2
    <3>2. stack' # << >> /\ Top' = stack[n - 1]
      BY <1>1, <1>2, <2>2, <3>1, EmptySeq DEF Top
    <3>3. CalledBy(Top, stack[n - 1])
      BY <1>1, <1>5, <3>1
    <3> QED
      BY <3>2, <3>3 DEF CalledBy
  <2> QED
    BY <2>1, <2>2
<1>10. RetLine'
  BY <1>3, <1>9 DEF RetLine, LineOK
<1>11. TableMoves'
  <2>1. CASE tt' = tt
    BY <2>1 DEF LineInv, TableMoves, EntryMove
  <2>2. CASE tt' # tt
    <3> DEFINE e == NewEntry(Top.pos, Empties[Top.pos], r.score, Top.original_alpha,
                             Top.beta, r.best_move)
    <3>1. /\ r.score \in Int /\ r.best_move \in Squares \cup {NoMove}
          /\ Top.original_alpha \in Int /\ Top.beta \in Int
      BY <1>1 DEF NodeResults, Frames
    <3>2. \A k \in Buckets : \A i \in Slots : tt'[k][i] \in {tt[k][i], e}
      BY <1>1, <2>2, <3>1, StoreFacts DEF StoreAndReturn
    <3>3. EntryMove(e)
      BY DEF EntryMove, NewEntry, LineOK
    <3> HIDE DEF e
    <3>4. ASSUME NEW k \in Buckets, NEW i \in Slots, tt'[k][i].occupied
          PROVE  EntryMove(tt'[k][i])
      <4>1. CASE tt'[k][i] = e
        BY <3>3, <4>1
      <4>2. CASE tt'[k][i] = tt[k][i]
        BY <3>4, <4>2 DEF LineInv, TableMoves
      <4> QED
        BY <3>2, <4>1, <4>2
    <3> QED
      BY <3>4 DEF TableMoves, EntryMove
  <2> QED
    BY <2>1, <2>2
<1> QED
  BY <1>8, <1>10, <1>11 DEF LineInv

LEMMA EnterLines ==
  ASSUME Inv, LineInv, Enter
  PROVE  LineInv'
<1>1. Entering /\ Running
  BY DEF Enter, SolveLast1, Cutoff, GameOver, SearchPass, StartMoves, Searches, Entering
<1>2. /\ Top \in Frames /\ FrameInv(Top) /\ Top.pos \in Positions /\ Top.stage = "enter"
      /\ tt \in Tables /\ Top.best = NoCandidate
  BY <1>1, TopFacts DEF Entering, Inv, TypeOK, FrameInv
<1>3. CASE SolveLast1
  <2>1. /\ SolveLast1Result(Top.pos) \in NodeResults
        /\ LineOK(Top.pos, SolveLast1Result(Top.pos))
    BY <1>2, <1>3, LastSquareExact, LastSquareLine DEF SolveLast1
  <2> QED
    BY <2>1, <1>1, <1>3, ReturnLines DEF SolveLast1
<1>4. CASE Cutoff
  <2>1. PICK e \in NodeCutoffs(Top) : Return(CutoffResult(e)) /\ tt' = tt
    BY <1>4 DEF Cutoff
  <2>2. e \in Matching(tt, Top.pos, Empties[Top.pos]) /\ Top.pos \notin Tableless
    BY DEF NodeCutoffs, Cutoffs, Matching, Enabled
  <2>3. /\ e \in Entries /\ e.hash = Top.pos
        /\ \E k \in Buckets : \E i \in Slots : tt[k][i] = e /\ e.occupied
    BY <2>2, <1>2, MatchingFacts
  <2>4. e.best_move_index \in Moves[Top.pos] \cup {NoMove} /\ e.score \in Int
    BY <2>3 DEF LineInv, TableMoves, EntryMove, Entries
  <2>5. CutoffResult(e) \in NodeResults /\ LineOK(Top.pos, CutoffResult(e))
    <3> DEFINE m == e.best_move_index
    <3>1. << >> \in Seq(Squares) /\ Moves[Top.pos] \subseteq Squares
      BY <1>2, EmptySeq, GameTypes
    <3>2. CASE m = NoMove
      <4>1. CutoffResult(e) = [score |-> e.score, best_move |-> NoMove, pv |-> << >>]
        BY <3>2 DEF CutoffResult
      <4>2. LineEnd(Top.pos, << >>) = {Top.pos}
        BY <1>2, LineEmpty
      <4>3. LineOK(Top.pos, CutoffResult(e))
        BY <4>1, <4>2, <2>2 DEF LineOK
      <4> QED
        BY <4>1, <4>3, <2>4, <3>1 DEF NodeResults
    <3>3. CASE m # NoMove
      <4>1. CutoffResult(e) = [score |-> e.score, best_move |-> m, pv |-> <<m>>]
        BY <3>3 DEF CutoffResult
      <4>2. m \in Moves[Top.pos] /\ m \in Squares
        BY <2>4, <3>1, <3>3
      <4> HIDE DEF m
      <4>3. LineOK(Top.pos, CutoffResult(e))
        BY <1>2, <2>2, <4>1, <4>2, OneMoveLine
      <4>4. CutoffResult(e) \in NodeResults
        <5>1. <<m>> \in Seq(Squares)
          BY <4>2
        <5> QED
          BY <4>1, <4>2, <5>1, <2>4 DEF NodeResults
      <4> QED
        BY <4>3, <4>4
    <3> QED
      BY <3>2, <3>3
  <2> QED
    BY <2>1, <2>5, <1>1, ReturnLines
<1>5. CASE GameOver
  <2>1. Terminal(Top.pos) /\ StoreAndReturn(Top, Leaf(Margin[Top.pos]))
    BY <1>5 DEF GameOver
  <2>2. LineOK(Top.pos, Leaf(Margin[Top.pos])) /\ Leaf(Margin[Top.pos]) \in NodeResults
    <3>1. Margin[Top.pos] \in Int
      BY <1>2, MarginTypes DEF FinalDiscMarginMax
    <3> QED
      BY <1>2, <2>1, <3>1, LeafLine, EmptySeq DEF Leaf, NodeResults
  <2> QED
    BY <2>1, <2>2, <1>1, ReturnLines DEF StoreAndReturn
<1>6. CASE SearchPass
  <2> DEFINE f == [Top EXCEPT !.stage = "pass"]
  <2>1. f \in Frames /\ f.pos = Top.pos /\ f.best = Top.best /\ f.stage = "pass"
    BY <1>2 DEF Frames, Waiting
  <2>2. Moves[Top.pos] = {} /\ Call(f)
    BY <1>6 DEF SearchPass
  <2> HIDE DEF f
  <2>3. ChildPos(f) \in Positions
    BY <1>2, <2>1, <2>2, GameTypes DEF ChildPos
  <2>4. FrameLine(f)
    BY <1>2, <2>1 DEF FrameLine, NoCandidate
  <2> QED
    BY <1>1, <2>1, <2>2, <2>3, <2>4, CallLines
<1>7. CASE StartMoves
  <2> DEFINE hint == IF InTail(Top) THEN NoMove
                     ELSE BestMoveHint(tt, Top.pos, Empties[Top.pos])
             f == [Top EXCEPT !.stage = "loop", !.todo = Moves[Top.pos], !.hint = hint]
  <2>1. hint \in Squares \cup {NoMove} /\ Moves[Top.pos] \subseteq Squares
    BY <1>2, HintType, GameTypes
  <2>3. Continue(f)
    BY <1>7 DEF StartMoves
  <2> HIDE DEF hint
  <2>2. f \in Frames /\ f.pos = Top.pos /\ f.best = Top.best
    BY <1>2, <2>1 DEF Frames
  <2>4. FrameLine(f)
    BY <1>2, <2>2 DEF FrameLine, NoCandidate
  <2> HIDE DEF f
  <2> QED
    BY <1>1, <2>2, <2>3, <2>4, ContinueLines
<1> QED
  BY <1>3, <1>4, <1>5, <1>6, <1>7 DEF Enter

LEMMA LoopLines ==
  ASSUME Inv, LineInv, Loop
  PROVE  LineInv'
<1>1. InLoop /\ Running
  BY DEF Loop, RootCandidateFull, RootCandidateHopeless, RootCandidateScout,
         RootScouts, InteriorFull, InteriorScout, Finish, MoreMoves, InLoop
<1>2. /\ Top \in Frames /\ FrameInv(Top) /\ Top.pos \in Positions /\ Top.stage = "loop"
      /\ stack # << >> /\ FrameLine(Top)
  <2>1. Len(stack) \in 1 .. Len(stack)
    BY <1>1, TopFacts, TopType DEF Inv, TypeOK
  <2> QED
    BY <1>1, <2>1, TopFacts DEF InLoop, LineInv, FrameLines, Top
<1>3. ASSUME NEW m \in Top.todo, NEW stage \in {"root_full", "root_scout", "full", "scout"},
             Call(Pick(m, stage))
      PROVE  LineInv'
  <2> DEFINE f == Pick(m, stage)
  <2>1. m \in Moves[Top.pos] /\ m \in Squares
    BY <1>2, GameTypes DEF FrameInv
  <2>2. /\ f \in Frames /\ f.pos = Top.pos /\ f.best = Top.best /\ f.cur = m
        /\ f.stage = stage
    BY <1>2, <2>1 DEF Pick, Frames, Waiting
  <2> HIDE DEF f
  <2>3. ChildPos(f) \in Positions
    BY <1>2, <2>1, <2>2, GameTypes DEF ChildPos
  <2>4. FrameLine(f)
    BY <1>2, <2>2 DEF FrameLine
  <2>5. Call(f)
    BY <1>3 DEF f
  <2> QED
    BY <1>1, <2>2, <2>3, <2>4, <2>5, CallLines
<1>4. CASE RootCandidateFull \/ RootCandidateScout \/ InteriorFull \/ InteriorScout
  <2>1. PICK m \in Top.todo, stage \in {"root_full", "root_scout", "full", "scout"} :
          Call(Pick(m, stage))
    BY <1>4 DEF RootCandidateFull, RootCandidateScout, InteriorFull, InteriorScout
  <2> QED
    BY <2>1, <1>3
<1>5. CASE RootCandidateHopeless
  <2>1. PICK m \in Top.todo : Continue([Top EXCEPT !.todo = @ \ {m}])
    BY <1>5 DEF RootCandidateHopeless
  <2> DEFINE f == [Top EXCEPT !.todo = @ \ {m}]
  <2>2. f \in Frames /\ f.pos = Top.pos /\ f.best = Top.best
    BY <1>2 DEF Frames
  <2>3. FrameLine(f)
    BY <1>2, <2>2 DEF FrameLine
  <2> HIDE DEF f
  <2> QED
    BY <1>1, <2>1, <2>2, <2>3, ContinueLines DEF f
<1>6. CASE Finish
  <2>1. StoreAndReturn(Top, Top.best) /\ Top.best \in NodeResults
    BY <1>2, <1>6 DEF Finish, Frames
  <2>2. Top.best.best_move # NoMove
    <3>1. LoopInv(Top) /\ Moves[Top.pos] # {} /\ Top.original_alpha < Top.beta
      BY <1>2 DEF FrameInv
    <3>2. Top.todo = {} \/ Top.alpha >= Top.beta
      BY <1>6 DEF Finish
    <3>3. Top.alpha \in Int /\ Top.beta \in Int /\ Top.original_alpha \in Int
      BY <1>2 DEF Frames
    <3>4. Top.todo = {} => Searched(Top) = Moves[Top.pos]
      BY <1>2 DEF Searched
    <3> QED
      BY <3>1, <3>2, <3>3, <3>4 DEF LoopInv
  <2>3. LineOK(Top.pos, Top.best)
    BY <1>2, <2>2 DEF FrameLine
  <2> QED
    BY <1>1, <2>1, <2>3, ReturnLines DEF StoreAndReturn
<1> QED
  BY <1>4, <1>5, <1>6 DEF Loop

LEMMA ResumeLines ==
  ASSUME Inv, LineInv, Resume
  PROVE  LineInv'
<1>1. Running /\ ret # NoResult /\ Top.stage \in Waiting
  BY DEF Resume, ResumePass, RootScoutReject, RootScoutPromising, ScoutInside,
         ScoutOutside, ResumeFull, Resumed, Waiting
<1>2. /\ Top \in Frames /\ FrameInv(Top) /\ Top.pos \in Positions /\ FrameLine(Top)
  <2>1. Len(stack) \in 1 .. Len(stack)
    BY <1>1, TopFacts, TopType DEF Inv, TypeOK
  <2> QED
    BY <1>1, <2>1, TopFacts DEF LineInv, FrameLines, Top
<1>3. /\ ret \in NodeResults /\ ret.score \in Int /\ ret.pv \in Seq(Squares)
      /\ Contract(Value[ChildPos(Top)], ret.score, ChildAlpha(Top), ChildBeta(Top))
      /\ LineOK(ChildPos(Top), ret)
  BY <1>1 DEF Inv, TypeOK, ControlInv, NodeResults, LineInv, RetLine, Running
<1>4. Top.stage # "pass" => Top.cur \in Moves[Top.pos]
  BY <1>1, <1>2 DEF FrameInv, CandidateStages
<1>5. CASE ResumePass
  <2>1. Top.stage = "pass" /\ StoreAndReturn(Top, PassResult(ret))
    BY <1>5 DEF ResumePass, Resumed
  <2>2. Moves[Top.pos] = {} /\ ~Terminal(Top.pos) /\ LineOK(Pass[Top.pos], ret)
    BY <2>1, <1>2, <1>3 DEF FrameInv, ChildPos
  <2>3. LineOK(Top.pos, PassResult(ret))
    BY <2>2, <1>2, <1>3, PassLine DEF PassResult
  <2>4. PassResult(ret) \in NodeResults
    BY <1>3 DEF PassResult, NodeResults
  <2> QED
    BY <2>1, <2>3, <2>4, <1>1, ReturnLines DEF StoreAndReturn
<1>6. CASE RootScoutReject
  <2> DEFINE f == [Top EXCEPT !.cur = NoMove, !.stage = "loop"]
  <2>1. Continue(f)
    BY <1>6 DEF RootScoutReject
  <2>2. f \in Frames /\ f.pos = Top.pos /\ f.best = Top.best
    BY <1>2 DEF Frames
  <2> HIDE DEF f
  <2>3. FrameLine(f)
    BY <1>2, <2>2 DEF FrameLine
  <2> QED
    BY <1>1, <2>1, <2>2, <2>3, ContinueLines
<1>7. CASE RootScoutPromising \/ ScoutInside
  <2>1. PICK stage \in {"root_full", "research"} :
          Call([Top EXCEPT !.stage = stage]) /\ Top.stage # "pass"
    BY <1>7 DEF RootScoutPromising, ScoutInside, Resumed
  <2> DEFINE f == [Top EXCEPT !.stage = stage]
  <2>2. /\ f \in Frames /\ f.pos = Top.pos /\ f.best = Top.best /\ f.cur = Top.cur
        /\ f.stage # "pass"
    BY <1>2, <2>1 DEF Frames, Waiting
  <2>3. Call(f)
    BY <2>1
  <2> HIDE DEF f
  <2>4. ChildPos(f) \in Positions
    BY <1>2, <1>4, <2>1, <2>2, GameTypes DEF ChildPos
  <2>5. FrameLine(f)
    BY <1>2, <2>2 DEF FrameLine
  <2> QED
    BY <1>1, <2>2, <2>3, <2>4, <2>5, CallLines
<1>8. CASE ScoutOutside \/ ResumeFull
  <2> DEFINE f == AfterCandidate(Top)
             new == [score |-> -ret.score, best_move |-> Top.cur,
                     pv |-> <<Top.cur>> \o ret.pv]
  <2>1. /\ Continue(f) /\ Top.stage # "pass"
        /\ \/ Top.stage \in {"root_full", "full", "research"}
           \/ Top.stage = "scout" /\ (-ret.score <= Top.alpha \/ -ret.score >= Top.beta)
    BY <1>8 DEF ScoutOutside, ResumeFull, Resumed
  <2>2. f \in Frames
    BY <2>1, <1>2, <1>3, AfterCandidateInv
  <2>3. f.pos = Top.pos /\ (f.best = new \/ f.best = Top.best)
    BY <1>2 DEF AfterCandidate, Frames
  <2>4. LineOK(Top.pos, new)
    <3>1. Top.cur \in Moves[Top.pos] /\ LineOK(Play[Top.pos][Top.cur], ret)
      BY <2>1, <1>3, <1>4 DEF ChildPos
    <3> QED
      BY <3>1, <1>2, <1>3, MoveLine
  <2> HIDE DEF f, new
  <2>5. FrameLine(f)
    BY <1>2, <2>3, <2>4 DEF FrameLine
  <2> QED
    BY <1>1, <2>1, <2>2, <2>5, ContinueLines
<1> QED
  BY <1>5, <1>6, <1>7, <1>8 DEF Resume

LEMMA InitLines ==
  ASSUME Init
  PROVE  LineInv
<1> DEFINE f == NewFrame(root, ScoreMin, ScoreMax, TRUE)
<1>1. stack = <<f>> /\ ret = NoResult /\ tt = EmptyTable
  BY DEF Init
<1>2. FrameLine(f)
  BY DEF FrameLine, NewFrame, NoCandidate
<1> HIDE DEF f
<1>3. FrameLines
  BY <1>1, <1>2 DEF FrameLines
<1>4. TableMoves
  BY <1>1 DEF TableMoves, EmptyTable, EmptySlot
<1> QED
  BY <1>1, <1>3, <1>4 DEF LineInv, RetLine

LEMMA StepLines ==
  ASSUME Inv, LineInv, [Next]_vars
  PROVE  LineInv'
<1>1. CASE Next
  BY <1>1, EnterLines, LoopLines, ResumeLines DEF Next
<1>2. CASE UNCHANGED vars
  <2>1. stack' = stack /\ ret' = ret /\ root' = root /\ tt' = tt
    BY <1>2 DEF vars
  <2>2. FrameLines'
    BY <2>1 DEF LineInv, FrameLines
  <2>3. RetLine'
    <3>1. ret # NoResult /\ stack # << >> => LineOK(ChildPos(Top), ret)
      BY DEF LineInv, RetLine
    <3>2. ret # NoResult /\ stack = << >> => LineOK(root, ret)
      BY DEF LineInv, RetLine
    <3>3. Top' = Top
      BY <2>1 DEF Top
    <3> QED
      BY <2>1, <3>1, <3>2, <3>3 DEF RetLine
  <2>4. TableMoves'
    BY <2>1 DEF LineInv, TableMoves, EntryMove
  <2> QED
    BY <2>2, <2>3, <2>4 DEF LineInv
<1> QED
  BY <1>1, <1>2

\* The principal variation of an exact result can be played from the root,
\* starts with best_move and, in a game solved without a table, ends where the
\* game is over.
THEOREM LineIsLegal == Spec => []LineLegal
<1>1. Init => LineInv
  BY InitLines
<1>2. Inv /\ LineInv /\ [Next]_vars => LineInv'
  BY StepLines
<1>3. ASSUME Inv, LineInv
      PROVE  LineLegal
  <2>1. Done => ret # NoResult /\ LineOK(root, ret)
    BY <1>3 DEF Inv, ControlInv, LineInv, RetLine, Done
  <2> QED
    BY <2>1 DEF LineLegal, LineOK
<1> QED
  BY <1>1, <1>2, <1>3, Invariance, PTL DEF Spec
=============================================================================
