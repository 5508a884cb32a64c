--------------------------- MODULE GameTreeProofs ---------------------------
(***************************************************************************)
(* Lines of moves, for the proofs about the searches, and what all proofs  *)
(* about recursive definitions need: induction and recursion over the      *)
(* naturals, as facts about sets and functions.  A set is well-founded by  *)
(* the library's theorem on finite sets ordered by inclusion, so that no   *)
(* operator has to be instantiated.                                        *)
(***************************************************************************)
EXTENDS GameTree, FiniteSetTheorems, SequenceTheorems, TLAPS

(***************************************************************************)
(* Induction and recursion.                                                *)
(***************************************************************************)

\* A function defined by recursion on 0 .. n, from its first value and what
\* each step does.
Recurses(f, n, first, step) ==
  f[0] = first /\ \A i \in 1 .. n : f[i] = step[i][f[i - 1]]

\* Two functions that begin alike, and continue alike where they are alike.
ContinueAlike(f, g, n) ==
  f[0] = g[0] /\ \A i \in 1 .. n : f[i - 1] = g[i - 1] => f[i] = g[i]
Alike(f, g, n) == \A i \in 0 .. n : f[i] = g[i]

\* Every set of naturals has a least element.
LEMMA LeastElement ==
  ASSUME NEW T \in SUBSET Nat, T # {}
  PROVE  \E n \in T : \A m \in T : n <= m
<1> DEFINE R == StrictSubsetOrdering(Nat)
           U == { 1 .. n : n \in T }
<1>1. IsWellFoundedOn(R, FiniteSubsetsOf(Nat))
  BY FS_StrictSubsetOrderingWellFounded
<1>2. U \subseteq FiniteSubsetsOf(Nat) /\ U # {}
  <2> SUFFICES ASSUME NEW n \in T
               PROVE  1 .. n \in FiniteSubsetsOf(Nat)
    OBVIOUS
  <2>1. IsFiniteSet(1 .. n)
    BY FS_Interval
  <2> QED
    BY <2>1 DEF FiniteSubsetsOf
<1>3. PICK x \in U : \A y \in U : <<y, x>> \notin R
  <2> HIDE DEF R, U
  <2> QED
    BY <1>1, <1>2, WFMin
<1>4. PICK n \in T : x = 1 .. n
  OBVIOUS
<1>5. \A m \in T : n <= m
  <2> SUFFICES ASSUME NEW m \in T, m < n
               PROVE  FALSE
    OBVIOUS
  <2>1. 1 .. m \subseteq 1 .. n /\ n \in 1 .. n /\ n \notin 1 .. m
    OBVIOUS
  <2>2. <<1 .. m, 1 .. n>> \in R
    BY <2>1 DEF StrictSubsetOrdering
  <2> QED
    BY <2>2, <1>3, <1>4
<1> QED
  BY <1>5

\* Induction: a set that has 0, and the successor of each natural it has, has
\* them all.
LEMMA SetInduction ==
  ASSUME NEW S, 0 \in S, \A n \in Nat : n \in S => n + 1 \in S
  PROVE  Nat \subseteq S
<1> SUFFICES ASSUME Nat \ S # {}
             PROVE  FALSE
  OBVIOUS
<1>1. PICK n \in Nat \ S : \A m \in Nat \ S : n <= m
  BY LeastElement
<1>2. n # 0 /\ n - 1 \in Nat
  BY <1>1
<1>3. n - 1 \in S
  BY <1>1, <1>2
<1> QED
  BY <1>1, <1>2, <1>3

\* A function defined by recursion exists, and has the range one expects.
LEMMA RecursiveFunction ==
  ASSUME NEW n \in Nat, NEW X, NEW c \in X, NEW step \in [1 .. n -> [X -> X]]
  PROVE  \E f \in [0 .. n -> X] : Recurses(f, n, c, step)
<1> DEFINE S == { k \in Nat : k <= n => \E f \in [0 .. k -> X] : Recurses(f, k, c, step) }
<1>1. 0 \in S
  <2> DEFINE f == [i \in 0 .. 0 |-> c]
  <2>1. f \in [0 .. 0 -> X] /\ Recurses(f, 0, c, step)
    BY DEF Recurses
  <2> QED
    BY <2>1
<1>2. ASSUME NEW k \in Nat, k \in S
      PROVE  k + 1 \in S
  <2> SUFFICES ASSUME k + 1 <= n
               PROVE  \E g \in [0 .. k + 1 -> X] : Recurses(g, k + 1, c, step)
    OBVIOUS
  <2>1. PICK f \in [0 .. k -> X] : Recurses(f, k, c, step)
    BY <1>2
  <2> DEFINE g == [i \in 0 .. k + 1 |-> IF i <= k THEN f[i] ELSE step[i][f[k]]]
  <2>2. k + 1 \in 1 .. n /\ f[k] \in X
    OBVIOUS
  <2>3. step[k + 1][f[k]] \in X
    BY <2>2
  <2>4. g \in [0 .. k + 1 -> X]
    <3> SUFFICES ASSUME NEW i \in 0 .. k + 1
                 PROVE  g[i] \in X
      OBVIOUS
    <3>1. i \in 0 .. k \/ i = k + 1
      OBVIOUS
    <3> QED
      BY <3>1, <2>3
  <2>5. g[0] = c
    BY <2>1 DEF Recurses
  <2>6. \A i \in 1 .. k + 1 : g[i] = step[i][g[i - 1]]
    <3> TAKE i \in 1 .. k + 1
    <3>1. i - 1 \in 0 .. k /\ i \in 0 .. k + 1 /\ g[i - 1] = f[i - 1]
      OBVIOUS
    <3>2. CASE i <= k
      <4>1. i \in 1 .. k /\ g[i] = f[i]
        BY <3>2
      <4> QED
        BY <4>1, <3>1, <2>1 DEF Recurses
    <3>3. CASE i = k + 1
      BY <3>1, <3>3
    <3> QED
      BY <3>2, <3>3
  <2> QED
    BY <2>4, <2>5, <2>6 DEF Recurses
<1> HIDE DEF S
<1>3. n \in S
  BY <1>1, <1>2, SetInduction
<1> QED
  BY <1>3 DEF S

\* Two functions that begin and continue alike are alike.
LEMMA RecursionUnique ==
  ASSUME NEW n \in Nat, NEW f, NEW g, ContinueAlike(f, g, n)
  PROVE  Alike(f, g, n)
<1> DEFINE S == { k \in Nat : k <= n => f[k] = g[k] }
<1>1. 0 \in S
  BY DEF ContinueAlike
<1>2. \A k \in Nat : k \in S => k + 1 \in S
  <2> SUFFICES ASSUME NEW k \in Nat, k \in S, k + 1 <= n
               PROVE  f[k + 1] = g[k + 1]
    OBVIOUS
  <2>1. f[k] = g[k] /\ k + 1 \in 1 .. n /\ (k + 1) - 1 = k
    OBVIOUS
  <2> QED
    BY <2>1 DEF ContinueAlike
<1> HIDE DEF S
<1>3. Nat \subseteq S
  BY <1>1, <1>2, SetInduction
<1> QED
  BY <1>3 DEF S, Alike

(***************************************************************************)
(* Lines.                                                                  *)
(***************************************************************************)
LEMMA FollowType ==
  ASSUME NEW p \in Positions, NEW m
  PROVE  /\ Follow(p, m) \subseteq Positions
         /\ Follow(p, m) # {} => \E q \in Positions : Follow(p, m) = {q}
BY GameTypes DEF Follow

\* The positions along a line.
Walked(at, line) ==
  /\ at \in [0 .. Len(line) -> SUBSET Positions]
  /\ \A i \in 1 .. Len(line) : at[i] = UNION { Follow(q, line[i]) : q \in at[i - 1] }

LEMMA LineWalked ==
  ASSUME NEW p \in Positions, NEW line \in Seq(Squares)
  PROVE  \E at : Walked(at, line) /\ at[0] = {p} /\ LineEnd(p, line) = at[Len(line)]
<1> DEFINE n == Len(line)
           Step(P, i) == UNION { Follow(q, line[i]) : q \in P }
           X == SUBSET Positions
           step == [i \in 1 .. n |-> [P \in X |-> Step(P, i)]]
           Body(f) == [i \in 0 .. n |-> IF i = 0 THEN {p} ELSE Step(f[i - 1], i)]
           at == CHOOSE f : f = Body(f)
<1>1. n \in Nat /\ {p} \in X
  BY LenProperties
<1>2. \A i \in 1 .. n : \A P \in X : Step(P, i) \in X
  BY FollowType
<1> HIDE DEF Step
<1>3. step \in [1 .. n -> [X -> X]]
  BY <1>2
<1>4. PICK f \in [0 .. n -> X] : Recurses(f, n, {p}, step)
  <2> HIDE DEF n, X, step
  <2> QED
    BY <1>1, <1>3, RecursiveFunction
<1>5. \A i \in 1 .. n : f[i] = Step(f[i - 1], i)
  <2> TAKE i \in 1 .. n
  <2>1. f[i] = step[i][f[i - 1]]
    <3> HIDE DEF n, step, X
    <3> QED
      BY <1>4 DEF Recurses
  <2>2. i - 1 \in 0 .. n /\ f[i - 1] \in X
    BY <1>1
  <2> QED
    BY <2>1, <2>2
<1>6. f[0] = {p}
  BY <1>4 DEF Recurses
<1>7. f = Body(f)
  <2>1. \A i \in 0 .. n : f[i] = IF i = 0 THEN {p} ELSE Step(f[i - 1], i)
    BY <1>1, <1>5, <1>6
  <2> HIDE DEF X
  <2> QED
    BY <2>1
<1>8. at = Body(at)
  <2> HIDE DEF Body
  <2> QED
    BY <1>7
<1>9. \A i \in 0 .. n : at[i] = IF i = 0 THEN {p} ELSE Step(at[i - 1], i)
  <2> HIDE DEF at
  <2> QED
    BY <1>8
<1> HIDE DEF at, step
<1>10. ContinueAlike(f, at, n)
  <2>1. \A i \in 1 .. n : i \in 0 .. n /\ i # 0
    BY <1>1
  <2>2. at[0] = {p}
    BY <1>1, <1>9
  <2> HIDE DEF n
  <2> QED
    BY <2>1, <2>2, <1>5, <1>6, <1>9 DEF ContinueAlike
<1>11. f[n] = at[n]
  <2>1. Alike(f, at, n)
    <3> HIDE DEF n
    <3> QED
      BY <1>1, <1>10, RecursionUnique
  <2> QED
    BY <1>1, <2>1 DEF Alike
<1>12. LineEnd(p, line) = at[n]
  BY DEF LineEnd, at, Step
<1>13. Walked(f, line)
  BY <1>4, <1>5, <1>6 DEF Walked, Step
<1> QED
  BY <1>6, <1>11, <1>12, <1>13

\* No move leads nowhere.
LEMMA LineEmpty ==
  ASSUME NEW p \in Positions
  PROVE  LineEnd(p, << >>) = {p}
<1>1. << >> \in Seq(Squares) /\ Len(<< >>) = 0
  BY EmptySeq
<1> QED
  BY <1>1, LineWalked DEF Walked

\* Where two lines meet and go on with the same moves, they stay together.
LEMMA LinesMeet ==
  ASSUME NEW a \in Seq(Squares), NEW b \in Seq(Squares), Len(a) = 1 + Len(b),
         \A i \in 1 .. Len(b) : b[i] = a[i + 1],
         NEW e, NEW f, Walked(e, a), Walked(f, b), f[0] = e[1]
  PROVE  e[Len(a)] = f[Len(b)]
<1> DEFINE n == Len(b)
           g == [i \in 0 .. n |-> e[i + 1]]
<1>1. n \in Nat /\ \A i \in 0 .. n : g[i] = e[i + 1]
  BY LenProperties
<1> HIDE DEF g
<1>2. ContinueAlike(f, g, n)
  <2>1. f[0] = g[0]
    BY <1>1
  <2>2. ASSUME NEW i \in 1 .. n, f[i - 1] = g[i - 1]
        PROVE  f[i] = g[i]
    <3>1. i - 1 \in 0 .. n /\ i \in 0 .. n /\ i + 1 \in 1 .. Len(a) /\ i \in 1 .. Len(b)
          /\ (i + 1) - 1 = (i - 1) + 1
      BY <1>1
    <3>2. f[i] = UNION { Follow(q, b[i]) : q \in f[i - 1] }
      BY <3>1 DEF Walked
    <3>3. e[i + 1] = UNION { Follow(q, a[i + 1]) : q \in e[(i + 1) - 1] }
      BY <3>1 DEF Walked
    <3>4. e[(i + 1) - 1] = f[i - 1] /\ a[i + 1] = b[i] /\ g[i] = e[i + 1]
      BY <2>2, <3>1, <1>1
    <3> QED
      BY <3>2, <3>3, <3>4
  <2> HIDE DEF n
  <2> QED
    BY <1>1, <2>1, <2>2 DEF ContinueAlike
<1>3. f[n] = g[n]
  <2> HIDE DEF n
  <2> QED
    BY <1>1, <1>2, RecursionUnique DEF Alike
<1> QED
  BY <1>1, <1>3

\* A line is its first move and the rest.
LEMMA LineCons ==
  ASSUME NEW p \in Positions, NEW m \in Squares, NEW line \in Seq(Squares)
  PROVE  /\ <<m>> \o line \in Seq(Squares) /\ Len(<<m>> \o line) = Len(line) + 1
         /\ <<m>> \o line # << >> /\ Head(<<m>> \o line) = m
         /\ \A q \in Positions : Follow(p, m) = {q} =>
              LineEnd(p, <<m>> \o line) = LineEnd(q, line)
         /\ Follow(p, m) = {} => LineEnd(p, <<m>> \o line) = {}
<1> DEFINE a == <<m>> \o line
           n == Len(line)
<1>1. n \in Nat /\ 1 \in Nat /\ <<m>> \in Seq(Squares) /\ Len(<<m>>) = 1 /\ <<m>>[1] = m
  BY LenProperties
<1>2. /\ a \in Seq(Squares) /\ Len(a) = 1 + n /\ a[1] = m
      /\ \A i \in 1 .. n : line[i] = a[1 + i]
  <2>1. /\ a \in Seq(Squares) /\ Len(a) = 1 + n
        /\ \A i \in 1 .. 1 + n : a[i] = IF i <= 1 THEN <<m>>[i] ELSE line[i - 1]
    BY <1>1, ConcatProperties
  <2> HIDE DEF a
  <2> QED
    BY <1>1, <2>1
<1> HIDE DEF a
<1>3. a # << >> /\ Head(a) = m
  BY <1>1, <1>2, EmptySeq
<1>8. Len(a) = 1 + Len(line) /\ \A i \in 1 .. Len(line) : line[i] = a[i + 1]
  BY <1>1, <1>2
<1>4. PICK e : Walked(e, a) /\ e[0] = {p} /\ LineEnd(p, a) = e[Len(a)]
  BY <1>2, LineWalked
<1>5. e[1] = Follow(p, m)
  <2>1. 1 \in 1 .. Len(a) /\ 1 - 1 = 0
    BY <1>1, <1>2
  <2>2. e[1] = UNION { Follow(q, a[1]) : q \in e[0] }
    BY <1>4, <2>1 DEF Walked
  <2> QED
    BY <2>2, <1>2, <1>4 DEF Walked
<1>6. ASSUME NEW q \in Positions, Follow(p, m) = {q}
      PROVE  LineEnd(p, a) = LineEnd(q, line)
  <2>1. PICK f : Walked(f, line) /\ f[0] = {q} /\ LineEnd(q, line) = f[Len(line)]
    BY LineWalked
  <2>2. e[1] = {q}
    BY <1>5, <1>6
  <2>3. e[Len(a)] = f[Len(line)]
    <3>1. f[0] = e[1]
      BY <2>1, <2>2
    <3> HIDE DEF n
    <3> QED
      BY <1>2, <1>4, <1>8, <2>1, <3>1, LinesMeet
  <2> QED
    BY <1>4, <2>1, <2>3
<1>7. ASSUME Follow(p, m) = {}
      PROVE  LineEnd(p, a) = {}
  <2> DEFINE none == [i \in 0 .. n |-> {}]
  <2>1. Walked(none, line) /\ none[0] = {}
    BY <1>1 DEF Walked
  <2>2. none[Len(line)] = {}
    BY <1>1
  <2> HIDE DEF none
  <2>3. e[Len(a)] = none[Len(line)]
    <3>1. none[0] = e[1]
      BY <1>5, <1>7, <2>1
    <3> HIDE DEF n
    <3> QED
      BY <1>2, <1>4, <1>8, <2>1, <3>1, LinesMeet
  <2> QED
    BY <1>4, <2>2, <2>3
<1> QED
  BY <1>1, <1>2, <1>3, <1>6, <1>7 DEF a

\* A line that begins after a forced pass is one that begins before it.
LEMMA LineThroughPass ==
  ASSUME NEW p \in Positions, Moves[p] = {}, ~Terminal(p),
         NEW line \in Seq(Squares), line # << >>
  PROVE  LineEnd(p, line) = LineEnd(Pass[p], line)
<1> DEFINE m == Head(line)
           rest == Tail(line)
<1>1. m \in Squares /\ rest \in Seq(Squares) /\ line = <<m>> \o rest
  <2>1. /\ m \in Squares /\ rest \in Seq(Squares) /\ Len(rest) = Len(line) - 1
        /\ \A i \in 1 .. Len(rest) : rest[i] = line[i + 1]
    BY HeadTailProperties
  <2>2. Len(line) \in Nat \ {0} /\ m = line[1]
    BY EmptySeq
  <2> HIDE DEF m, rest
  <2>3. /\ <<m>> \in Seq(Squares) /\ Len(<<m>>) = 1 /\ <<m>>[1] = m
    BY <2>1
  <2>4. /\ <<m>> \o rest \in Seq(Squares) /\ Len(<<m>> \o rest) = Len(line)
        /\ \A i \in 1 .. Len(line) : (<<m>> \o rest)[i] = IF i <= 1 THEN m ELSE rest[i - 1]
    <3>1. /\ <<m>> \o rest \in Seq(Squares) /\ Len(<<m>> \o rest) = 1 + Len(rest)
          /\ \A i \in 1 .. 1 + Len(rest) :
               (<<m>> \o rest)[i] = IF i <= 1 THEN <<m>>[i] ELSE rest[i - 1]
      BY <2>1, <2>3, ConcatProperties
    <3> QED
      BY <2>1, <2>2, <2>3, <3>1
  <2>5. \A i \in 1 .. Len(line) : (<<m>> \o rest)[i] = line[i]
    BY <2>1, <2>2, <2>4
  <2>6. <<m>> \o rest = line
    BY <2>4, <2>5, SeqEqual
  <2> QED
    BY <2>1, <2>6
<1>2. Pass[p] \in Positions /\ Follow(p, m) = Follow(Pass[p], m)
  BY GameTypes DEF Follow, Terminal
<1> HIDE DEF m, rest
<1>3. CASE Follow(p, m) = {}
  <2>1. /\ LineEnd(p, <<m>> \o rest) = {}
        /\ LineEnd(Pass[p], <<m>> \o rest) = {}
    BY <1>1, <1>2, <1>3, LineCons
  <2> QED
    BY <1>1, <2>1
<1>4. CASE Follow(p, m) # {}
  <2>1. PICK q \in Positions : Follow(p, m) = {q}
    BY <1>4, FollowType
  <2>2. /\ LineEnd(p, <<m>> \o rest) = LineEnd(q, rest)
        /\ LineEnd(Pass[p], <<m>> \o rest) = LineEnd(q, rest)
    BY <1>1, <1>2, <2>1, LineCons
  <2> QED
    BY <1>1, <2>2
<1> QED
  BY <1>3, <1>4
=============================================================================
