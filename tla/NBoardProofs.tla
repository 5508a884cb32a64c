---------------------------- MODULE NBoardProofs ----------------------------
(***************************************************************************)
(* The NBoard engine, at a console and in a match, for every game, every   *)
(* depth and set of openings:                                              *)
(*                                                                         *)
(*   BoardFollowsHistory    the engine's board is where its history leads  *)
(*   SessionFollowsGame     its session knows the game being played only   *)
(*   EveryGoAnswered        every go is answered, with a move if there is one *)
(*   EnginesAreGone         no engine process outlives the game            *)
(*   GamesAreByTheRules     the game is one that a Referee would record    *)
(*   AnswersAreOfTheTurn    the answer taken is the answer to the question *)
(*   GamesAreSpoiltByFaults and no game is lost but by an engine's failure *)
(*                                                                         *)
(* The first part says what a command does to an engine; the others rest on *)
(* it.  In a match, EnginesAreGone and GamesAreByTheRules rest on MatchInv: *)
(* what the runner keeps by itself, and for each engine how its            *)
(* ProcessClient and its process stand.  The last two need TalkInv: what may *)
(* be under way in the two pipes at each moment of a turn.                 *)
(***************************************************************************)
EXTENDS NBoardMatch, NBoardConsole, GameTreeProofs

(***************************************************************************)
(* Histories, and what the commands of the engine do (run_engine).         *)
(***************************************************************************)
LEMMA AfterTokenType ==
  ASSUME NEW p \in Positions, NEW t \in Tokens
  PROVE  /\ AfterToken(p, t) \subseteq Positions
         /\ AfterToken(p, t) # {} => \E q \in Positions : AfterToken(p, t) = {q}
<1>1. CASE t = PassToken
  BY <1>1, GameTypes DEF AfterToken
<1>2. CASE t # PassToken
  BY <1>2, GameTypes DEF AfterToken
<1> QED
  BY <1>1, <1>2

(***************************************************************************)
(* Histories.                                                              *)
(***************************************************************************)

\* The positions along a history: what the recursion in Replay computes.
Along(at, history) ==
  /\ at \in [0 .. Len(history) -> SUBSET Positions]
  /\ at[0] = {Initial}
  /\ \A i \in 1 .. Len(history) :
       at[i] = UNION { AfterToken(p, history[i]) : p \in at[i - 1] }

LEMMA ReplayAlong ==
  ASSUME NEW h \in Seq(Tokens)
  PROVE  \E at : Along(at, h) /\ Replay(h) = at[Len(h)]
<1> DEFINE n == Len(h)
           Step(P, i) == UNION { AfterToken(p, h[i]) : p \in P }
           X == SUBSET Positions
           step == [i \in 1 .. n |-> [P \in X |-> Step(P, i)]]
           Body(f) == [i \in 0 .. n |-> IF i = 0 THEN {Initial} ELSE Step(f[i - 1], i)]
           at == CHOOSE f : f = Body(f)
<1>1. n \in Nat /\ {Initial} \in X
  BY EngineAssumption
<1>2. \A i \in 1 .. n : \A P \in X : Step(P, i) \in X
  <2> TAKE i \in 1 .. n
  <2> TAKE P \in X
  <2>1. h[i] \in Tokens
    BY ElementOfSeq
  <2>2. \A p \in P : AfterToken(p, h[i]) \subseteq Positions
    BY <2>1, AfterTokenType
  <2> QED
    BY <2>2
<1> HIDE DEF Step
<1>3. step \in [1 .. n -> [X -> X]]
  BY <1>2
<1>4. PICK f \in [0 .. n -> X] : Recurses(f, n, {Initial}, step)
  <2> HIDE DEF n, X, step
  <2> QED
    BY <1>1, <1>3, RecursiveFunction
<1>5. f = Body(f)
  <2>1. \A i \in 0 .. n : f[i] = IF i = 0 THEN {Initial} ELSE Step(f[i - 1], i)
    <3> TAKE i \in 0 .. n
    <3>1. CASE i = 0
      BY <3>1, <1>4 DEF Recurses
    <3>2. CASE i # 0
      <4>1. i \in 1 .. n /\ i - 1 \in 0 .. n /\ f[i - 1] \in X
        BY <1>1, <3>2
      <4> QED
        BY <4>1, <3>2, <1>4 DEF Recurses
    <3> QED
      BY <3>1, <3>2
  <2> QED
    BY <2>1
<1>6. at = Body(at)
  <2> HIDE DEF Body
  <2> QED
    BY <1>5
<1>7. \A i \in 0 .. n : at[i] = IF i = 0 THEN {Initial} ELSE Step(at[i - 1], i)
  <2> HIDE DEF at
  <2> QED
    BY <1>6
<1> HIDE DEF at
<1>8. \A i \in 1 .. n : /\ i \in 0 .. n /\ i # 0
                        /\ f[i] = Step(f[i - 1], i)
                        /\ at[i] = Step(at[i - 1], i)
  <2> TAKE i \in 1 .. n
  <2>1. i \in 0 .. n /\ i # 0
    BY <1>1
  <2>2. f[i] = step[i][f[i - 1]] /\ f[i - 1] \in X
    <3>1. i - 1 \in 0 .. n
      BY <1>1
    <3> HIDE DEF n, step, X
    <3> QED
      BY <1>4, <3>1 DEF Recurses
  <2>3. f[i] = Step(f[i - 1], i)
    BY <2>2
  <2> HIDE DEF X, step
  <2> QED
    BY <2>1, <2>3, <1>7
<1>9. Along(f, h) /\ f[0] = at[0]
  <2>1. f[0] = {Initial}
    BY <1>4 DEF Recurses
  <2>2. 0 \in 0 .. n
    BY <1>1
  <2>3. at[0] = {Initial}
    BY <2>2, <1>7
  <2> QED
    BY <2>1, <2>3, <1>8, <1>4 DEF Along, Step
<1>12. Alike(f, at, n)
  <2> HIDE DEF n, X, step
  <2>1. ContinueAlike(f, at, n)
    BY <1>8, <1>9 DEF ContinueAlike
  <2> QED
    BY <1>1, <2>1, RecursionUnique
<1>10. Replay(h) = at[n]
  BY DEF Replay, at, Step
<1>11. Replay(h) = f[n]
  BY <1>1, <1>12, <1>10 DEF Alike
<1> QED
  BY <1>9, <1>11

LEMMA ReplayEmpty == Replay(<< >>) = {Initial}
<1>1. << >> \in Seq(Tokens) /\ Len(<< >>) = 0
  BY EmptySeq
<1> QED
  BY <1>1, ReplayAlong DEF Along

\* Two traces of histories with a common beginning agree on it.
LEMMA AlongAgree ==
  ASSUME NEW h \in Seq(Tokens), NEW g \in Seq(Tokens), NEW n \in Nat,
         n <= Len(h), n <= Len(g), \A i \in 1 .. n : h[i] = g[i],
         NEW f, NEW e, Along(f, h), Along(e, g)
  PROVE  f[n] = e[n]
<1>1. ContinueAlike(f, e, n)
  <2>1. f[0] = e[0]
    BY DEF Along
  <2>2. ASSUME NEW i \in 1 .. n, f[i - 1] = e[i - 1]
        PROVE  f[i] = e[i]
    <3>1. i \in 1 .. Len(h) /\ i \in 1 .. Len(g) /\ h[i] = g[i]
      BY LenProperties
    <3>2. f[i] = UNION { AfterToken(p, h[i]) : p \in f[i - 1] }
      BY <3>1 DEF Along
    <3>3. e[i] = UNION { AfterToken(p, g[i]) : p \in e[i - 1] }
      BY <3>1 DEF Along
    <3> QED
      BY <2>2, <3>1, <3>2, <3>3
  <2> QED
    BY <2>1, <2>2 DEF ContinueAlike
<1>2. Alike(f, e, n)
  BY <1>1, RecursionUnique
<1> QED
  BY <1>2 DEF Alike

\* One more ply leads one ply further.
LEMMA ReplayAppend ==
  ASSUME NEW h \in Seq(Tokens), NEW t \in Tokens
  PROVE  Replay(Append(h, t)) = UNION { AfterToken(p, t) : p \in Replay(h) }
<1> DEFINE n == Len(h)
           g == Append(h, t)
<1>1. /\ n \in Nat /\ g \in Seq(Tokens) /\ Len(g) = n + 1
      /\ \A i \in 1 .. n : h[i] = g[i]
      /\ g[n + 1] = t
  BY AppendProperties, LenProperties
<1>2. PICK f : Along(f, h) /\ Replay(h) = f[n]
  BY ReplayAlong
<1>3. PICK e : Along(e, g) /\ Replay(g) = e[Len(g)]
  BY <1>1, ReplayAlong
<1> HIDE DEF g, n
<1>4. f[n] = e[n]
  BY <1>1, <1>2, <1>3, AlongAgree DEF n
<1>5. e[n + 1] = UNION { AfterToken(p, t) : p \in e[n] }
  <2>1. n + 1 \in 1 .. Len(g) /\ (n + 1) - 1 = n
    BY <1>1
  <2> QED
    BY <2>1, <1>1, <1>3 DEF Along
<1> QED
  BY <1>1, <1>2, <1>3, <1>4, <1>5 DEF g

\* A history leads to one position or, if a ply is not legal, to none.
LEMMA ReplayType ==
  ASSUME NEW h \in Seq(Tokens)
  PROVE  Replay(h) # {} => \E p \in Positions : Replay(h) = {p}
<1>1. PICK f : Along(f, h) /\ Replay(h) = f[Len(h)]
  BY ReplayAlong
<1> DEFINE n == Len(h)
           S == { k \in Nat : k <= n => f[k] = {} \/ \E p \in Positions : f[k] = {p} }
<1>2. n \in Nat
  BY LenProperties
<1>3. 0 \in S
  BY <1>1, EngineAssumption DEF Along
<1>4. ASSUME NEW k \in Nat, k \in S
      PROVE  k + 1 \in S
  <2> SUFFICES ASSUME k + 1 <= n
               PROVE  f[k + 1] = {} \/ \E p \in Positions : f[k + 1] = {p}
    OBVIOUS
  <2>1. k + 1 \in 1 .. n /\ (k + 1) - 1 = k /\ h[k + 1] \in Tokens
    BY <1>2, ElementOfSeq
  <2>2. f[k + 1] = UNION { AfterToken(p, h[k + 1]) : p \in f[k] }
    BY <2>1, <1>1 DEF Along
  <2>3. CASE f[k] = {}
    BY <2>2, <2>3
  <2>4. CASE \E p \in Positions : f[k] = {p}
    <3>1. PICK p \in Positions : f[k] = {p}
      BY <2>4
    <3>2. f[k + 1] = AfterToken(p, h[k + 1])
      BY <2>2, <3>1
    <3> QED
      BY <3>2, <2>1, AfterTokenType
  <2> QED
    BY <1>2, <1>4, <2>3, <2>4
<1> HIDE DEF S
<1>5. n \in S
  BY <1>2, <1>3, <1>4, SetInduction
<1> QED
  BY <1>1, <1>2, <1>5 DEF S

(***************************************************************************)
(* Prefixes: the positions of a game.                                      *)
(***************************************************************************)
GamePositions(h) == UNION { Replay(SubSeq(h, 1, n)) : n \in 0 .. Len(h) }

LEMMA PrefixFacts ==
  ASSUME NEW h \in Seq(Tokens), NEW n \in 0 .. Len(h)
  PROVE  /\ SubSeq(h, 1, n) \in Seq(Tokens)
         /\ Len(SubSeq(h, 1, n)) = n
         /\ \A i \in 1 .. n : SubSeq(h, 1, n)[i] = h[i]
<1>1. Len(h) \in Nat /\ n \in Int /\ 1 \in Int
  BY LenProperties
<1>2. \A i \in 1 .. n : h[i] \in Tokens
  BY <1>1, ElementOfSeq
<1>3. /\ SubSeq(h, 1, n) \in Seq(Tokens)
      /\ Len(SubSeq(h, 1, n)) = IF 1 <= n THEN n - 1 + 1 ELSE 0
      /\ \A i \in 1 .. n - 1 + 1 : SubSeq(h, 1, n)[i] = h[1 + i - 1]
  BY <1>1, <1>2, SubSeqProperties
<1>4. \A i \in 1 .. n : i \in 1 .. n - 1 + 1 /\ 1 + i - 1 = i
  BY <1>1
<1> QED
  BY <1>1, <1>3, <1>4

\* The positions of a game are positions of every game that extends it.
LEMMA ExtensionKeeps ==
  ASSUME NEW h \in Seq(Tokens), NEW g \in Seq(Tokens), IsSameGameExtension(h, g)
  PROVE  GamePositions(h) \subseteq GamePositions(g)
<1> SUFFICES ASSUME NEW n \in 0 .. Len(h)
             PROVE  n \in 0 .. Len(g) /\ SubSeq(g, 1, n) = SubSeq(h, 1, n)
  BY DEF GamePositions
<1>1. Len(h) \in Nat /\ Len(g) \in Nat /\ n \in 0 .. Len(g)
  BY LenProperties DEF IsSameGameExtension
<1>2. \A i \in 1 .. n : h[i] = g[i]
  BY <1>1 DEF IsSameGameExtension
<1> DEFINE s == SubSeq(h, 1, n)
           t == SubSeq(g, 1, n)
<1>3. s \in Seq(Tokens) /\ Len(s) = n /\ \A i \in 1 .. n : s[i] = h[i]
  BY PrefixFacts
<1>4. t \in Seq(Tokens) /\ Len(t) = n /\ \A i \in 1 .. n : t[i] = g[i]
  BY <1>1, PrefixFacts
<1> HIDE DEF s, t
<1>5. s = t
  BY <1>2, <1>3, <1>4, SeqEqual
<1> QED
  BY <1>1, <1>5 DEF s, t

\* The position a game stands at is one of its positions.
LEMMA LastOfGame ==
  ASSUME NEW h \in Seq(Tokens)
  PROVE  Replay(h) \subseteq GamePositions(h)
<1>1. Len(h) \in 0 .. Len(h) /\ SubSeq(h, 1, Len(h)) = h
  BY LenProperties, SubSeqFull
<1> QED
  BY <1>1 DEF GamePositions

(***************************************************************************)
(* The commands.                                                           *)
(***************************************************************************)

\* What every command keeps.
EngineInv(e) == e \in Engines /\ BoardIsHistory(e) /\ SessionOfGame(e)

\* A line that could be parsed.
Parsed(line) ==
  /\ line.kind = "set game" => line.moves \in Seq(Tokens)
  /\ line.kind = "set depth" => line.depth \in Int
  /\ line.kind = "move" => line.token \in Tokens

LEMMA NewEngineInv == EngineInv(NewEngine)
<1>1. << >> \in Seq(Tokens)
  BY EmptySeq
<1> QED
  BY <1>1, ReplayEmpty, EngineAssumption
     DEF EngineInv, NewEngine, Engines, BoardIsHistory, SessionOfGame

LEMMA SessionIsOfGame ==
  ASSUME NEW e
  PROVE  SessionOfGame(e) <=> e.session \subseteq GamePositions(e.moves)
BY DEF SessionOfGame, GamePositions

\* The one answer of a silent command.
LEMMA SilentIs ==
  ASSUME NEW e, NEW h \in Silent(e)
  PROVE  h.engine = e
BY DEF Silent

\* Another game, legal or not, leaves board, history and session in step.
LEMMA SetGameKeeps ==
  ASSUME NEW e, EngineInv(e), NEW g \in Seq(Tokens), NEW h \in SetGame(e, g)
  PROVE  EngineInv(h.engine)
<1>1. CASE Replay(g) = {}
  BY <1>1 DEF SetGame, Silent
<1>2. CASE Replay(g) # {}
  <2>1. PICK p \in Positions : Replay(g) = {p}
    BY <1>2, ReplayType
  <2> DEFINE session == IF IsSameGameExtension(e.moves, g) THEN e.session ELSE {}
             f == [e EXCEPT !.board = p, !.moves = g, !.session = session]
  <2>2. (CHOOSE q \in Replay(g) : TRUE) = p
    BY <2>1
  <2>3. h.engine = f
    <3>1. SetGame(e, g) = Silent(f)
      BY <1>2, <2>2 DEF SetGame
    <3> HIDE DEF f
    <3> QED
      BY <3>1, SilentIs
  <2>4. e \in Engines /\ e.moves \in Seq(Tokens) /\ e.session \subseteq Positions
    BY DEF EngineInv, Engines
  <2>5. session \subseteq GamePositions(g) /\ session \subseteq Positions
    BY <2>4, ExtensionKeeps, SessionIsOfGame DEF EngineInv
  <2> HIDE DEF session
  <2>6. f \in Engines /\ f.moves = g /\ f.board = p /\ f.session = session
    BY <2>4, <2>5 DEF Engines
  <2> HIDE DEF f
  <2>7. BoardIsHistory(f) /\ SessionOfGame(f)
    BY <2>1, <2>5, <2>6, SessionIsOfGame DEF BoardIsHistory
  <2> QED
    BY <2>3, <2>6, <2>7 DEF EngineInv
<1> QED
  BY <1>1, <1>2

LEMMA MoveKeeps ==
  ASSUME NEW e, EngineInv(e), NEW t \in Tokens, NEW h \in Move(e, t)
  PROVE  EngineInv(h.engine)
<1>1. e \in Engines /\ e.moves \in Seq(Tokens) /\ e.board \in Positions /\ Replay(e.moves) = {e.board}
  BY DEF EngineInv, Engines, BoardIsHistory
<1>2. CASE AfterToken(e.board, t) = {}
  BY <1>2 DEF Move, Silent
<1>3. CASE AfterToken(e.board, t) # {}
  <2>1. PICK p \in Positions : AfterToken(e.board, t) = {p}
    BY <1>1, <1>3, AfterTokenType
  <2> DEFINE g == Append(e.moves, t)
             f == [e EXCEPT !.board = p, !.moves = g]
  <2>2. (CHOOSE q \in AfterToken(e.board, t) : TRUE) = p
    BY <2>1
  <2>3. h.engine = f
    <3>1. Move(e, t) = Silent(f)
      BY <1>3, <2>2 DEF Move
    <3> HIDE DEF f
    <3> QED
      BY <3>1, SilentIs
  <2>4. /\ g \in Seq(Tokens) /\ Len(g) = Len(e.moves) + 1
        /\ \A i \in 1 .. Len(e.moves) : e.moves[i] = g[i]
    BY <1>1, AppendProperties
  <2>5. IsSameGameExtension(e.moves, g)
    BY <1>1, <2>4, LenProperties DEF IsSameGameExtension
  <2>6. Replay(g) = {p}
    BY <1>1, <2>1, ReplayAppend
  <2>7. e.session \subseteq GamePositions(g)
    BY <1>1, <2>4, <2>5, ExtensionKeeps, SessionIsOfGame DEF EngineInv
  <2> HIDE DEF g
  <2>8. f \in Engines /\ f.moves = g /\ f.board = p /\ f.session = e.session
    BY <1>1, <2>4 DEF Engines
  <2> HIDE DEF f
  <2> QED
    BY <2>3, <2>6, <2>7, <2>8, SessionIsOfGame DEF EngineInv, BoardIsHistory
<1> QED
  BY <1>2, <1>3

LEMMA GoKeeps ==
  ASSUME NEW e, EngineInv(e), NEW h \in Go(e)
  PROVE  EngineInv(h.engine)
<1>1. e \in Engines /\ e.moves \in Seq(Tokens) /\ e.board \in Positions /\ Replay(e.moves) = {e.board}
  BY DEF EngineInv, Engines, BoardIsHistory
<1> DEFINE f == [e EXCEPT !.session = @ \cup {e.board}]
<1>2. h.engine = f
  BY DEF Go
<1>3. f \in Engines /\ f.moves = e.moves /\ f.board = e.board /\ f.session = e.session \cup {e.board}
  BY <1>1 DEF Engines
<1>4. e.board \in GamePositions(e.moves)
  BY <1>1, LastOfGame
<1> HIDE DEF f
<1> QED
  BY <1>1, <1>2, <1>3, <1>4, SessionIsOfGame DEF EngineInv, BoardIsHistory

\* No line, of whatever kind, parts board and history or brings another game
\* into the session.
LEMMA HandledKeeps ==
  ASSUME NEW e, EngineInv(e), NEW line, Parsed(line), NEW h \in Handled(e, line)
  PROVE  EngineInv(h.engine)
<1>1. CASE line.kind = "nboard"
  BY <1>1 DEF Handled
<1>2. CASE line.kind = "ping"
  BY <1>2 DEF Handled
<1>3. CASE line.kind = "set depth"
  <2> DEFINE f == [e EXCEPT !.depth = line.depth]
  <2>1. Handled(e, line) = Silent(IF line.depth > 0 THEN f ELSE e)
    BY <1>3 DEF Handled, SetDepth
  <2>2. h.engine = IF line.depth > 0 THEN f ELSE e
    BY <2>1, SilentIs
  <2>3. CASE line.depth > 0
    <3>1. e \in Engines
      BY DEF EngineInv
    <3>2. line.depth \in Int
      BY <1>3 DEF Parsed
    <3>3. line.depth \in Nat \ {0}
      BY <3>2, <2>3
    <3>4. /\ f \in Engines /\ f.moves = e.moves /\ f.board = e.board /\ f.session = e.session
      BY <3>1, <3>3 DEF Engines
    <3> HIDE DEF f
    <3> QED
      BY <2>2, <2>3, <3>4 DEF EngineInv, BoardIsHistory, SessionOfGame
  <2> QED
    BY <2>2, <2>3
<1>4. CASE line.kind = "set game"
  BY <1>4, SetGameKeeps DEF Handled, Parsed
<1>5. CASE line.kind = "move"
  BY <1>5, MoveKeeps DEF Handled, Parsed
<1>6. CASE line.kind = "go"
  BY <1>6, GoKeeps DEF Handled
<1>7. CASE line.kind \notin {"nboard", "ping", "set depth", "set game", "move", "go"}
  <2>1. Handled(e, line) = Silent(e)
    BY <1>7 DEF Handled
  <2> QED
    BY <2>1, SilentIs
<1> QED
  BY <1>1, <1>2, <1>3, <1>4, <1>5, <1>6, <1>7

(***************************************************************************)
(* The engine at a console.                                                *)
(***************************************************************************)
\* Every line of the console can be parsed.
LEMMA LinesParsed == \A line \in Lines : Parsed(line)
<1> SUFFICES ASSUME NEW line \in Lines
             PROVE  Parsed(line)
  OBVIOUS
<1>1. CASE line \in {[kind |-> k] : k \in {"nboard", "go", "help"}}
  <2>1. PICK k \in {"nboard", "go", "help"} : line = [kind |-> k]
    BY <1>1
  <2>2. line.kind \notin {"set depth", "set game", "move"}
    BY <2>1
  <2> QED
    BY <2>2, ConsoleAssumption DEF Parsed
<1>2. CASE line \in {[kind |-> "ping", id |-> i] : i \in PingIds}
  <2>1. PICK i \in PingIds : line = [kind |-> "ping", id |-> i]
    BY <1>2
  <2>2. line.kind = "ping"
    BY <2>1
  <2> QED
    BY <2>2, ConsoleAssumption DEF Parsed
<1>3. CASE line \in {[kind |-> "set depth", depth |-> d] : d \in AskedDepths}
  <2>1. PICK d \in AskedDepths : line = [kind |-> "set depth", depth |-> d]
    BY <1>3
  <2>2. line.kind = "set depth" /\ line.depth \in AskedDepths
    BY <2>1
  <2> QED
    BY <2>2, ConsoleAssumption DEF Parsed
<1>4. CASE line \in {[kind |-> "set game", moves |-> h] : h \in AskedGames}
  <2>1. PICK h \in AskedGames : line = [kind |-> "set game", moves |-> h]
    BY <1>4
  <2>2. line.kind = "set game" /\ line.moves \in AskedGames
    BY <2>1
  <2> QED
    BY <2>2, ConsoleAssumption DEF Parsed
<1>5. CASE line \in {[kind |-> "move", token |-> t] : t \in AskedTokens}
  <2>1. PICK t \in AskedTokens : line = [kind |-> "move", token |-> t]
    BY <1>5
  <2>2. line.kind = "move" /\ line.token \in AskedTokens
    BY <2>1
  <2> QED
    BY <2>2, ConsoleAssumption DEF Parsed
<1> QED
  BY <1>1, <1>2, <1>3, <1>4, <1>5 DEF Lines

\* What a go leaves, and what it prints.
GoAnswered(board, reply) ==
  /\ Len(reply) = 1
  /\ reply[1].kind = "==="
  /\ ~Terminal(board) => AfterToken(board, reply[1].token) # {}

LEMMA GoAnswers ==
  ASSUME NEW e \in Engines, NEW h \in Go(e)
  PROVE  h.engine.board = e.board /\ GoAnswered(e.board, h.reply)
<1> DEFINE answers == IF Moves[e.board] = {} THEN {PassToken} ELSE Moves[e.board]
<1>1. PICK t \in answers :
        h = [engine |-> [e EXCEPT !.session = @ \cup {e.board}],
             reply |-> <<[kind |-> "===", token |-> t]>>]
  BY DEF Go
<1>2. e.board \in Positions /\ h.engine.board = e.board
  BY <1>1 DEF Engines
<1>3. Len(h.reply) = 1 /\ h.reply[1] = [kind |-> "===", token |-> t]
  BY <1>1
<1>4. ASSUME ~Terminal(e.board)
      PROVE  AfterToken(e.board, t) # {}
  <2>1. CASE Moves[e.board] = {}
    BY <1>4, <2>1 DEF Terminal, AfterToken
  <2>2. CASE Moves[e.board] # {}
    <3>1. t \in Moves[e.board] /\ t # PassToken
      BY <2>2, <1>2, GameTypes DEF PassToken, Squares
    <3> QED
      BY <3>1 DEF AfterToken
  <2> QED
    BY <2>1, <2>2
<1> QED
  BY <1>2, <1>3, <1>4 DEF GoAnswered

ConsoleInv ==
  /\ EngineInv(console)
  /\ last.line.kind = "go" => GoAnswered(console.board, last.reply)

LEMMA ConsoleInvInit == ConsoleInit => ConsoleInv
BY NewEngineInv DEF ConsoleInit, ConsoleInv

LEMMA ConsoleInvStep == ConsoleInv /\ [ConsoleNext]_console_vars => ConsoleInv'
<1> SUFFICES ASSUME ConsoleInv, [ConsoleNext]_console_vars
             PROVE  ConsoleInv'
  OBVIOUS
<1>1. CASE Read
  <2>0. PICK line \in Lines :
          \E h \in Handled(console, line) :
            console' = h.engine /\ last' = [line |-> line, reply |-> h.reply]
    BY <1>1 DEF Read
  <2>1. PICK h \in Handled(console, line) :
          console' = h.engine /\ last' = [line |-> line, reply |-> h.reply]
    BY <2>0
  <2>2. EngineInv(h.engine)
    BY <2>1, LinesParsed, HandledKeeps DEF ConsoleInv
  <2>3. ASSUME line.kind = "go"
        PROVE  GoAnswered(console'.board, h.reply)
    <3>1. h \in Go(console)
      BY <2>1, <2>3 DEF Handled
    <3>2. console \in Engines
      BY DEF ConsoleInv, EngineInv
    <3> QED
      BY <2>1, <3>1, <3>2, GoAnswers
  <2> QED
    BY <2>1, <2>2, <2>3 DEF ConsoleInv
<1>2. CASE Quit
  BY <1>2 DEF Quit, ConsoleInv
<1>3. CASE UNCHANGED console_vars
  BY <1>3 DEF console_vars, ConsoleInv
<1> QED
  BY <1>1, <1>2, <1>3 DEF ConsoleNext

LEMMA ConsoleInvHolds == ConsoleSpec => []ConsoleInv
<1> QED
  BY ConsoleInvInit, ConsoleInvStep, PTL DEF ConsoleSpec

\* Whatever lines were read, refused games and moves among them, the board is
\* the one the engine's own history leads to, and its depth at least 1
\* (run_engine in engine_main.cpp).
THEOREM BoardFollowsHistory == ConsoleSpec => []HistoryLeadsToBoard
<1>1. ConsoleInv => HistoryLeadsToBoard
  BY DEF ConsoleInv, EngineInv, HistoryLeadsToBoard
<1> QED
  BY <1>1, ConsoleInvHolds, PTL

\* The session that is searched with knows no position off the line being
\* played, since a game that is no extension of the last one resets it.
THEOREM SessionFollowsGame == ConsoleSpec => []SessionStaysInGame
<1>1. ConsoleInv => SessionStaysInGame
  BY DEF ConsoleInv, EngineInv, SessionStaysInGame
<1> QED
  BY <1>1, ConsoleInvHolds, PTL

\* Every go is answered by one line, with a move or pass that may be played
\* unless the game is over (choose_move in engine_main.cpp).
THEOREM EveryGoAnswered == ConsoleSpec => []GoIsAnswered
<1>1. ConsoleInv => GoIsAnswered
  BY DEF ConsoleInv, GoAnswered, GoIsAnswered
<1> QED
  BY <1>1, ConsoleInvHolds, PTL

(***************************************************************************)
(* The engines of a match.                                                 *)
(***************************************************************************)

(***************************************************************************)
(* Sequences.                                                              *)
(***************************************************************************)
LEMMA Tuples ==
  /\ \A a : <<a>> # << >> /\ Head(<<a>>) = a /\ Tail(<<a>>) = << >>
  /\ \A a, b : <<a, b>> # << >> /\ Head(<<a, b>>) = a /\ Tail(<<a, b>>) = <<b>>
  /\ \A a, b, c : <<a, b, c>> # << >> /\ Head(<<a, b, c>>) = a /\ Tail(<<a, b, c>>) = <<b, c>>
  /\ \A a, b, c, d : /\ <<a, b, c, d>> # << >> /\ Head(<<a, b, c, d>>) = a
                     /\ Tail(<<a, b, c, d>>) = <<b, c, d>>
<1>1. \A a : <<a>> # << >> /\ Head(<<a>>) = a /\ Tail(<<a>>) = << >>
  OBVIOUS
<1>2. \A a, b : <<a, b>> # << >> /\ Head(<<a, b>>) = a /\ Tail(<<a, b>>) = <<b>>
  OBVIOUS
<1>3. \A a, b, c : <<a, b, c>> # << >> /\ Head(<<a, b, c>>) = a /\ Tail(<<a, b, c>>) = <<b, c>>
  OBVIOUS
<1>4. \A a, b, c, d : /\ <<a, b, c, d>> # << >> /\ Head(<<a, b, c, d>>) = a
                     /\ Tail(<<a, b, c, d>>) = <<b, c, d>>
  OBVIOUS
<1> QED
  BY <1>1, <1>2, <1>3, <1>4

LEMMA Joined ==
  ASSUME NEW S, NEW a \in S, NEW b \in Seq(S)
  PROVE  /\ <<a>> \o b \in Seq(S) /\ Len(<<a>> \o b) = Len(b) + 1
         /\ (<<a>> \o b)[1] = a
         /\ \A i \in 1 .. Len(b) : (<<a>> \o b)[i + 1] = b[i]
<1> DEFINE n == Len(b)
           ab == <<a>> \o b
<1>1. <<a>> \in Seq(S) /\ Len(<<a>>) = 1 /\ <<a>>[1] = a /\ n \in Nat
  BY LenProperties
<1>2. /\ ab \in Seq(S) /\ Len(ab) = 1 + n
      /\ \A i \in 1 .. 1 + n : ab[i] = IF i <= 1 THEN <<a>>[i] ELSE b[i - 1]
  BY <1>1, ConcatProperties
<1> HIDE DEF ab, n
<1>3. ASSUME NEW i \in 1 .. n
      PROVE  ab[i + 1] = b[i]
  <2>1. i + 1 \in 1 .. 1 + n /\ ~(i + 1 <= 1) /\ (i + 1) - 1 = i
    BY <1>1
  <2> QED
    BY <2>1, <1>2
<1>4. 1 \in 1 .. 1 + n
  BY <1>1
<1> QED
  BY <1>1, <1>2, <1>3, <1>4 DEF ab, n

LEMMA JoinedPair == \A a, b : <<a>> \o <<b>> = <<a, b>>
<1> SUFFICES ASSUME NEW a, NEW b
             PROVE  <<a>> \o <<b>> = <<a, b>>
  OBVIOUS
<1> DEFINE S == {a, b}
           s == <<a>> \o <<b>>
           t == <<a, b>>
<1>1. <<b>> \in Seq(S) /\ Len(<<b>>) = 1 /\ <<b>>[1] = b
  OBVIOUS
<1>2. t \in Seq(S) /\ Len(t) = 2 /\ t[1] = a /\ t[2] = b
  OBVIOUS
<1>3. a \in S
  OBVIOUS
<1> HIDE DEF S, t
<1>4. s \in Seq(S) /\ Len(s) = 2 /\ s[1] = a /\ s[2] = b
  <2>1. /\ s \in Seq(S) /\ Len(s) = Len(<<b>>) + 1 /\ s[1] = a
        /\ \A i \in 1 .. Len(<<b>>) : s[i + 1] = <<b>>[i]
    BY <1>1, <1>3, Joined
  <2>2. s[1 + 1] = <<b>>[1]
    BY <2>1, <1>1
  <2> HIDE DEF s
  <2> QED
    BY <2>1, <2>2, <1>1
<1> HIDE DEF s
<1>5. \A i \in 1 .. 2 : s[i] = t[i]
  BY <1>2, <1>4
<1>6. s = t
  BY <1>2, <1>4, <1>5, SeqEqual
<1> QED
  BY <1>6 DEF s, t

LEMMA JoinedFour == \A a, b, c, d : <<a>> \o <<b, c, d>> = <<a, b, c, d>>
<1> SUFFICES ASSUME NEW a, NEW b, NEW c, NEW d
             PROVE  <<a>> \o <<b, c, d>> = <<a, b, c, d>>
  OBVIOUS
<1> DEFINE S == {a, b, c, d}
           r == <<b, c, d>>
           s == <<a>> \o r
           t == <<a, b, c, d>>
<1>1. r \in Seq(S) /\ Len(r) = 3 /\ r[1] = b /\ r[2] = c /\ r[3] = d
  OBVIOUS
<1>2. t \in Seq(S) /\ Len(t) = 4 /\ t[1] = a /\ t[2] = b /\ t[3] = c /\ t[4] = d
  OBVIOUS
<1>3. a \in S
  OBVIOUS
<1> HIDE DEF S, r, t
<1>4. s \in Seq(S) /\ Len(s) = 4 /\ s[1] = a /\ s[2] = b /\ s[3] = c /\ s[4] = d
  <2>0. r \in Seq(S)
    BY <1>1
  <2>1. /\ <<a>> \o r \in Seq(S) /\ Len(<<a>> \o r) = Len(r) + 1 /\ (<<a>> \o r)[1] = a
        /\ \A i \in 1 .. Len(r) : (<<a>> \o r)[i + 1] = r[i]
    BY <2>0, <1>3, Joined
  <2>3. /\ s \in Seq(S) /\ Len(s) = Len(r) + 1 /\ s[1] = a
        /\ \A i \in 1 .. Len(r) : s[i + 1] = r[i]
    BY <2>1 DEF s
  <2> HIDE DEF s
  <2>2. s[1 + 1] = r[1] /\ s[2 + 1] = r[2] /\ s[3 + 1] = r[3]
    BY <2>3, <1>1
  <2> QED
    BY <2>3, <2>2, <1>1
<1> HIDE DEF s
<1>5. \A i \in 1 .. 4 : s[i] = t[i]
  BY <1>2, <1>4
<1>6. s = t
  BY <1>2, <1>4, <1>5, SeqEqual
<1> QED
  BY <1>6 DEF s, t, r

\* A line that is sent moves from what is to be sent to what is to be read.
LEMMA PendingSent ==
  ASSUME NEW S, NEW a \in Seq(S), NEW b \in Seq(S), b # << >>
  PROVE  /\ Append(a, Head(b)) \o Tail(b) = a \o b
         /\ Append(a, Head(b)) \in Seq(S) /\ Tail(b) \in Seq(S)
         /\ Len(b) = 1 <=> Tail(b) = << >>
<1> DEFINE n == Len(a)
           h == Head(b)
           r == Tail(b)
           c == Append(a, h)
           s == c \o r
           t == a \o b
<1>1. /\ h \in S /\ r \in Seq(S) /\ Len(r) = Len(b) - 1 /\ h = b[1]
      /\ \A i \in 1 .. Len(r) : r[i] = b[i + 1]
  BY HeadTailProperties, EmptySeq
<1>2. n \in Nat /\ Len(b) \in Nat \ {0}
  BY LenProperties, EmptySeq
<1> HIDE DEF n, h, r
<1>3. /\ c \in Seq(S) /\ Len(c) = n + 1 /\ c[n + 1] = h
      /\ \A i \in 1 .. n : c[i] = a[i]
  BY <1>1, <1>2, AppendProperties DEF n
<1> HIDE DEF c
<1>4. /\ s \in Seq(S) /\ Len(s) = Len(c) + Len(r)
      /\ \A i \in 1 .. Len(c) + Len(r) : s[i] = IF i <= Len(c) THEN c[i] ELSE r[i - Len(c)]
  BY <1>1, <1>3, ConcatProperties
<1>5. /\ t \in Seq(S) /\ Len(t) = n + Len(b)
      /\ \A i \in 1 .. n + Len(b) : t[i] = IF i <= n THEN a[i] ELSE b[i - n]
  BY ConcatProperties DEF n
<1> HIDE DEF s, t
<1>6. Len(s) = Len(t) /\ Len(t) = n + Len(b) /\ Len(c) + Len(r) = n + Len(b)
  BY <1>1, <1>2, <1>3, <1>4, <1>5
<1>7. ASSUME NEW i \in 1 .. Len(s)
      PROVE  s[i] = t[i]
  <2>1. /\ i \in 1 .. n + Len(b) /\ i \in Int
        /\ s[i] = IF i <= n + 1 THEN c[i] ELSE r[i - (n + 1)]
        /\ t[i] = IF i <= n THEN a[i] ELSE b[i - n]
    BY <1>2, <1>3, <1>4, <1>5, <1>6
  <2>2. CASE i <= n
    <3>1. i \in 1 .. n /\ i <= n + 1
      BY <2>1, <2>2, <1>2
    <3> QED
      BY <2>1, <2>2, <3>1, <1>3
  <2>3. CASE i = n + 1
    <3>1. i <= n + 1 /\ ~(i <= n) /\ i - n = 1
      BY <2>3, <1>2
    <3> QED
      BY <2>1, <2>3, <3>1, <1>1, <1>3
  <2>4. CASE i > n + 1
    <3>1. /\ ~(i <= n + 1) /\ ~(i <= n) /\ i - (n + 1) \in 1 .. Len(r)
          /\ (i - (n + 1)) + 1 = i - n
      BY <2>1, <2>4, <1>1, <1>2
    <3> QED
      BY <2>1, <3>1, <1>1
  <2> QED
    BY <2>1, <2>2, <2>3, <2>4, <1>2
<1>8. s = t
  BY <1>4, <1>5, <1>6, <1>7, SeqEqual
<1>9. Len(b) = 1 <=> r = << >>
  BY <1>1, <1>2, EmptySeq
<1> QED
  BY <1>1, <1>3, <1>8, <1>9 DEF s, t, c, h, r

\* A line that is read leaves both.
LEMMA PendingRead ==
  ASSUME NEW S, NEW a \in Seq(S), NEW b \in Seq(S), a # << >>
  PROVE  /\ Tail(a) \o b = Tail(a \o b) /\ Head(a) = Head(a \o b) /\ a \o b # << >>
         /\ Head(a) \in S /\ Tail(a) \in Seq(S)
<1> DEFINE r == Tail(a)
           s == r \o b
           t == a \o b
           u == Tail(t)
<1>1. /\ Head(a) \in S /\ r \in Seq(S) /\ Len(r) = Len(a) - 1 /\ Head(a) = a[1]
      /\ \A i \in 1 .. Len(r) : r[i] = a[i + 1]
  BY HeadTailProperties, EmptySeq
<1>2. Len(a) \in Nat \ {0} /\ Len(b) \in Nat
  BY LenProperties, EmptySeq
<1> HIDE DEF r
<1>3. /\ s \in Seq(S) /\ Len(s) = Len(r) + Len(b)
      /\ \A i \in 1 .. Len(r) + Len(b) : s[i] = IF i <= Len(r) THEN r[i] ELSE b[i - Len(r)]
  BY <1>1, ConcatProperties
<1>4. /\ t \in Seq(S) /\ Len(t) = Len(a) + Len(b)
      /\ \A i \in 1 .. Len(a) + Len(b) : t[i] = IF i <= Len(a) THEN a[i] ELSE b[i - Len(a)]
  BY ConcatProperties
<1> HIDE DEF s, t
<1>5. t # << >> /\ t[1] = a[1]
  <2>1. 1 \in 1 .. Len(a) + Len(b) /\ 1 <= Len(a) /\ Len(t) # 0
    BY <1>2, <1>4
  <2> QED
    BY <2>1, <1>4, EmptySeq
<1>6. /\ u \in Seq(S) /\ Len(u) = Len(t) - 1 /\ Head(t) = t[1]
      /\ \A i \in 1 .. Len(u) : u[i] = t[i + 1]
  BY <1>4, <1>5, HeadTailProperties, EmptySeq
<1> HIDE DEF u
<1>7. Len(s) = Len(u) /\ Len(s) = (Len(a) - 1) + Len(b)
  BY <1>1, <1>2, <1>3, <1>4, <1>6
<1>8. ASSUME NEW i \in 1 .. Len(s)
      PROVE  s[i] = u[i]
  <2>1. /\ i \in Int /\ 1 <= i /\ i + 1 \in 1 .. Len(a) + Len(b) /\ i \in 1 .. Len(r) + Len(b)
        /\ i \in 1 .. Len(u)
    BY <1>1, <1>2, <1>7
  <2>2. /\ s[i] = IF i <= Len(r) THEN r[i] ELSE b[i - Len(r)]
        /\ u[i] = IF i + 1 <= Len(a) THEN a[i + 1] ELSE b[(i + 1) - Len(a)]
    BY <2>1, <1>3, <1>4, <1>6
  <2>3. CASE i <= Len(r)
    <3>1. i \in 1 .. Len(r) /\ i + 1 <= Len(a)
      BY <2>1, <2>3, <1>1, <1>2
    <3> QED
      BY <2>2, <2>3, <3>1, <1>1
  <2>4. CASE ~(i <= Len(r))
    <3>1. ~(i + 1 <= Len(a)) /\ i - Len(r) = (i + 1) - Len(a)
      BY <2>1, <2>4, <1>1, <1>2
    <3> QED
      BY <2>2, <2>4, <3>1
  <2> QED
    BY <2>3, <2>4
<1>9. s = u
  BY <1>3, <1>6, <1>7, <1>8, SeqEqual
<1> QED
  BY <1>1, <1>5, <1>6, <1>9 DEF s, t, u, r

(***************************************************************************)
(* The runner by itself: what its steps keep whatever the engines do.      *)
(***************************************************************************)
NoPly(p) == IF Moves[p] = {} THEN 1 ELSE 0
Requests ==
  [kind : {"nboard", "go"}] \cup [kind : {"set game"}, moves : Seq(Tokens)]
    \cup [kind : {"set depth"}, depth : {AskedDepth}] \cup [kind : {"ping"}, id : {1}]
Faulty == {"not started", "timeout"}
Wrong == {"illegal move", "pass on a legal-move turn"}
GamePcs == {"start", "turn", "send", "pong", "move"}

Runners ==
  [pc : GamePcs \cup {"finish", "done", "killed"}, external : SUBSET PlayerSides,
   board : Positions, moves : Seq(Tokens), turn : Nat,
   error : {"none"} \cup Faulty \cup Wrong, peer : PlayerSides \cup {NoSide},
   todo : Seq(Requests), next : {"start", "pong", "move"}]

\* A turn of the conversation is under way.
Asks(r) == r.pc = "pong" \/ (r.pc = "send" /\ r.next = "pong")
Goes(r) == r.pc = "move" \/ (r.pc = "send" /\ r.next = "move")

\* The last conjunct is why the turn limit is never met: of two turns at least
\* one fills a square.
RunnerInv(r) ==
  /\ r \in Runners
  /\ r.pc = "send" => r.todo # << >>
  /\ r.pc \notin {"send", "killed"} => r.todo = << >>
  /\ r.pc \in {"send", "pong", "move"} => r.peer \in PlayerSides
  /\ Asks(r) \/ Goes(r) => Moves[r.board] # {}
  /\ r.pc \in GamePcs => r.error = "none"
  /\ r.turn + 2 * Empties[r.board] + NoPly(r.board) <= MaxTurns

LEMMA BoardFacts ==
  ASSUME NEW p \in Positions
  PROVE  /\ Empties[p] \in Nat /\ NoPly(p) \in {0, 1} /\ MaxTurns \in Nat
         /\ ~Terminal(p) => Empties[p] # 0
         /\ \A m \in Moves[p] : /\ Play[p][m] \in Positions /\ m \in Squares
                                /\ Empties[Play[p][m]] = Empties[p] - 1
         /\ Moves[p] = {} => /\ Pass[p] \in Positions /\ Empties[Pass[p]] = Empties[p]
<1>1. Empties \in [Positions -> 0 .. 60] /\ Moves \in [Positions -> SUBSET Squares]
  BY GameTypes
<1>2. Empties[p] \in 0 .. 60
  BY <1>1
<1>3. Empties[p] \in Nat
  BY <1>2
<1>4. Empties[p] = 0 => Terminal(p)
  BY GameTypes, GameProgress DEF Terminal
<1> QED
  BY <1>1, <1>3, <1>4, GameTypes, GameProgress, MatchAssumption DEF NoPly

LEMMA SidesAre ==
  /\ "Black" \in PlayerSides /\ "White" \in PlayerSides
  /\ \A p : SideToMove(p) \in PlayerSides
  /\ \A S \in SUBSET PlayerSides : S # {} => FirstOf(S) \in S /\ LastOf(S) \in S
BY DEF PlayerSides, SideToMove, FirstOf, LastOf

LEMMA TokensAre ==
  /\ PassToken \in Tokens /\ Squares \subseteq Tokens /\ \A m \in Squares : m # PassToken
BY DEF Tokens, PassToken, Squares

\* The game is broken off.
LEMMA BreakKeeps ==
  ASSUME RunnerInv(runner), runner.pc \notin {"send", "killed"},
         NEW reason \in Faulty \cup Wrong
  PROVE  RunnerInv(Break(reason))
<1> DEFINE r == Break(reason)
<1>1. runner \in Runners /\ runner.todo = << >>
  BY DEF RunnerInv
<1>2. /\ r \in Runners /\ r.pc = "finish" /\ r.error = reason /\ r.todo = << >>
      /\ r.board = runner.board /\ r.turn = runner.turn
  BY <1>1 DEF Break, Runners
<1> HIDE DEF r
<1>3. RunnerInv(r)
  BY <1>2 DEF RunnerInv, Asks, Goes, GamePcs
<1> QED
  BY <1>3 DEF r

\* A legal move is played.
LEMMA MoveKeepsRunner ==
  ASSUME RunnerInv(runner), runner.pc \in {"turn", "move"}, NEW m \in Moves[runner.board]
  PROVE  RunnerInv(Played(m)) /\ Played(m).pc = "turn"
<1> DEFINE p == runner.board
           r == [runner EXCEPT !.pc = "turn", !.board = Play[p][m], !.turn = @ + 1,
                               !.moves = Append(@, m)]
<1>1. /\ runner \in Runners /\ runner.todo = << >> /\ runner.error = "none"
      /\ runner.turn + 2 * Empties[p] + NoPly(p) <= MaxTurns
      /\ p \in Positions /\ runner.turn \in Nat /\ runner.moves \in Seq(Tokens)
  BY DEF RunnerInv, Runners, GamePcs
<1>2. /\ Empties[p] \in Nat /\ NoPly(p) \in {0, 1} /\ MaxTurns \in Nat
      /\ Play[p][m] \in Positions /\ Empties[Play[p][m]] = Empties[p] - 1 /\ m \in Tokens
  BY <1>1, BoardFacts, TokensAre
<1>3. Append(runner.moves, m) \in Seq(Tokens)
  BY <1>1, <1>2, AppendProperties
<1>4. NoPly(Play[p][m]) \in {0, 1}
  BY <1>2, BoardFacts
<1>5. runner.turn + 1 \in Nat
  BY <1>1
<1>9. r \in Runners
  BY <1>1, <1>2, <1>3, <1>5 DEF Runners, GamePcs
<1>10. /\ r.pc = "turn" /\ r.error = "none" /\ r.todo = << >>
       /\ r.board = Play[p][m] /\ r.turn = runner.turn + 1
  BY <1>1 DEF Runners
<1>6. Played(m) = r
  BY DEF Played
<1> HIDE DEF r, p
<1>7. r.turn + 2 * Empties[r.board] + NoPly(r.board) <= MaxTurns
  <2>1. \A t, e, k, n \in Int :
          t + 2 * e + k <= MaxTurns /\ k >= 0 /\ n <= 1 => (t + 1) + 2 * (e - 1) + n <= MaxTurns
    BY <1>2
  <2>2. /\ runner.turn \in Int /\ Empties[p] \in Int
        /\ NoPly(p) \in Int /\ NoPly(p) >= 0
        /\ NoPly(Play[p][m]) \in Int /\ NoPly(Play[p][m]) <= 1
    BY <1>1, <1>2, <1>4
  <2>3. (runner.turn + 1) + 2 * (Empties[p] - 1) + NoPly(Play[p][m]) <= MaxTurns
    BY <1>1, <2>1, <2>2
  <2> QED
    BY <1>2, <1>10, <2>3
<1>8. RunnerInv(r)
  BY <1>9, <1>10, <1>7 DEF RunnerInv, Asks, Goes, GamePcs
<1> QED
  BY <1>6, <1>8, <1>10

LEMMA TurnStepKeeps ==
  ASSUME RunnerInv(runner), LoopEnds \/ ForcedPass \/ InProcessMove \/ AskEngine
  PROVE  RunnerInv(runner')
<1> DEFINE p == runner.board
<1>1. /\ runner \in Runners /\ runner.todo = << >> /\ runner.error = "none"
      /\ runner.pc = "turn"
      /\ runner.turn + 2 * Empties[p] + NoPly(p) <= MaxTurns
      /\ p \in Positions /\ runner.turn \in Nat /\ runner.moves \in Seq(Tokens)
  BY DEF RunnerInv, Runners, GamePcs, LoopEnds, ForcedPass, InProcessMove, AskEngine, TurnBegins
<1>2. /\ Empties[p] \in Nat /\ NoPly(p) \in {0, 1} /\ MaxTurns \in Nat
      /\ ~Terminal(p) => Empties[p] # 0
  BY <1>1, BoardFacts
<1>3. CASE LoopEnds
  <2>1. Terminal(p)
    <3> SUFFICES ASSUME ~Terminal(p)
                 PROVE  FALSE
      OBVIOUS
    <3>1. runner.turn >= MaxTurns /\ Empties[p] # 0
      BY <1>2, <1>3 DEF LoopEnds
    <3> HIDE DEF p
    <3> QED
      BY <1>1, <1>2, <3>1
  <2> DEFINE r == [runner EXCEPT !.pc = "finish"]
  <2>2. runner' = r
    BY <1>3, <2>1 DEF LoopEnds
  <2>3. /\ r \in Runners /\ r.pc = "finish" /\ r.todo = << >>
        /\ r.board = p /\ r.turn = runner.turn
    BY <1>1 DEF Runners
  <2> HIDE DEF r, p
  <2>4. RunnerInv(r)
    BY <1>1, <2>3 DEF RunnerInv, Asks, Goes, GamePcs
  <2> QED
    BY <2>2, <2>4
<1>4. CASE ForcedPass
  <2>1. Moves[p] = {} /\ Moves[Pass[p]] # {}
    BY <1>4 DEF ForcedPass, TurnBegins, Terminal
  <2>2. Pass[p] \in Positions /\ Empties[Pass[p]] = Empties[p]
    BY <1>1, <2>1, BoardFacts
  <2>3. Append(runner.moves, PassToken) \in Seq(Tokens)
    BY <1>1, TokensAre, AppendProperties
  <2> DEFINE r == [runner EXCEPT !.board = Pass[p], !.turn = @ + 1,
                                 !.moves = Append(@, PassToken)]
  <2>4. runner' = r
    BY <1>4 DEF ForcedPass
  <2>9. runner.turn + 1 \in Nat
    BY <1>1
  <2>10. r \in Runners
    BY <1>1, <2>2, <2>3, <2>9 DEF Runners, GamePcs
  <2>5. /\ r.pc = "turn" /\ r.error = "none" /\ r.todo = << >>
        /\ r.board = Pass[p] /\ r.turn = runner.turn + 1
    BY <1>1 DEF Runners
  <2>6. NoPly(p) = 1 /\ NoPly(Pass[p]) = 0
    BY <2>1 DEF NoPly
  <2> HIDE DEF r, p
  <2>7. r.turn + 2 * Empties[r.board] + NoPly(r.board) <= MaxTurns
    BY <1>1, <1>2, <2>2, <2>5, <2>6
  <2>8. RunnerInv(r)
    BY <2>5, <2>7, <2>10 DEF RunnerInv, Asks, Goes, GamePcs
  <2> QED
    BY <2>4, <2>8
<1>5. CASE InProcessMove
  <2>1. PICK m \in Moves[p] : runner' = Played(m)
    BY <1>5 DEF InProcessMove
  <2> QED
    BY <1>1, <2>1, MoveKeepsRunner
<1>6. CASE AskEngine
  <2> DEFINE todo == <<[kind |-> "set game", moves |-> runner.moves],
                       [kind |-> "set depth", depth |-> AskedDepth],
                       [kind |-> "ping", id |-> 1]>>
             r == [runner EXCEPT !.pc = "send", !.peer = SideToMove(p), !.next = "pong",
                                 !.todo = todo]
  <2>1. runner' = r /\ Moves[p] # {}
    BY <1>6 DEF AskEngine
  <2>2. todo \in Seq(Requests) /\ todo # << >>
    <3> DEFINE a == [kind |-> "set game", moves |-> runner.moves]
               b == [kind |-> "set depth", depth |-> AskedDepth]
               c == [kind |-> "ping", id |-> 1]
    <3>1. a \in Requests /\ b \in Requests /\ c \in Requests
      BY <1>1 DEF Requests
    <3>2. todo = <<a, b, c>>
      OBVIOUS
    <3> HIDE DEF a, b, c, todo
    <3> QED
      BY <3>1, <3>2, Tuples
  <2>3. SideToMove(p) \in PlayerSides
    BY SidesAre
  <2> HIDE DEF todo
  <2>4. /\ r \in Runners /\ r.pc = "send" /\ r.error = "none" /\ r.todo = todo
        /\ r.board = p /\ r.turn = runner.turn /\ r.peer = SideToMove(p)
    BY <1>1, <2>2, <2>3 DEF Runners, GamePcs
  <2> HIDE DEF r, p
  <2>5. RunnerInv(r)
    BY <1>1, <2>1, <2>2, <2>3, <2>4 DEF RunnerInv
  <2> QED
    BY <2>1, <2>5
<1> QED
  BY <1>3, <1>4, <1>5, <1>6

LEMMA StartStepKeeps ==
  ASSUME RunnerInv(runner), StartEngine \/ StartFails \/ AllStarted
  PROVE  RunnerInv(runner')
<1>1. /\ runner \in Runners /\ runner.todo = << >> /\ runner.error = "none"
      /\ runner.pc = "start" /\ Moves[runner.board] \in SUBSET Squares
      /\ runner.turn + 2 * Empties[runner.board] + NoPly(runner.board) <= MaxTurns
  BY GameTypes DEF RunnerInv, Runners, GamePcs, StartEngine, StartFails, AllStarted
<1>2. CASE StartEngine
  <2> DEFINE s == FirstOf(Unstarted)
             todo == <<[kind |-> "nboard"]>>
             r == [runner EXCEPT !.pc = "send", !.peer = s, !.next = "start", !.todo = todo]
  <2>1. runner' = r
    BY <1>2 DEF StartEngine
  <2>2. s \in PlayerSides
    <3>1. Unstarted # {}
      BY <1>2 DEF StartEngine
    <3>2. Unstarted \in SUBSET PlayerSides
      BY <1>1 DEF Unstarted, Runners
    <3> QED
      BY <3>1, <3>2, SidesAre
  <2>3. todo \in Seq(Requests) /\ todo # << >>
    BY DEF Requests
  <2> HIDE DEF todo, s
  <2>4. r \in Runners
    BY <1>1, <2>2, <2>3 DEF Runners, GamePcs
  <2>5. /\ r.pc = "send" /\ r.next = "start" /\ r.error = "none" /\ r.todo = todo
        /\ r.board = runner.board /\ r.turn = runner.turn /\ r.peer = s
    BY <1>1 DEF Runners
  <2> HIDE DEF r
  <2>6. RunnerInv(r)
    BY <1>1, <2>2, <2>3, <2>4, <2>5 DEF RunnerInv, Asks, Goes
  <2> QED
    BY <2>1, <2>6
<1>3. CASE StartFails
  BY <1>1, <1>3, BreakKeeps DEF StartFails, Faulty
<1>4. CASE AllStarted
  <2> DEFINE r == [runner EXCEPT !.pc = "turn"]
  <2>1. runner' = r
    BY <1>4 DEF AllStarted
  <2>2. r \in Runners
    BY <1>1 DEF Runners, GamePcs
  <2>3. /\ r.pc = "turn" /\ r.error = "none" /\ r.todo = << >>
        /\ r.board = runner.board /\ r.turn = runner.turn
    BY <1>1 DEF Runners
  <2> HIDE DEF r
  <2>4. RunnerInv(r)
    BY <1>1, <2>2, <2>3 DEF RunnerInv, Asks, Goes
  <2> QED
    BY <2>1, <2>4
<1> QED
  BY <1>2, <1>3, <1>4

\* What the end of a conversation makes of the answer.
LEMMA AnsweredKeeps ==
  ASSUME RunnerInv(runner), runner.pc = "move", NEW token
  PROVE  RunnerInv(Answered(token))
<1>1. CASE AfterToken(runner.board, token) = {}
  BY <1>1, BreakKeeps DEF Answered, Wrong
<1>2. CASE AfterToken(runner.board, token) # {} /\ token = PassToken
  BY <1>2, BreakKeeps DEF Answered, Wrong
<1>3. CASE AfterToken(runner.board, token) # {} /\ token # PassToken
  <2>1. token \in Moves[runner.board]
    BY <1>3 DEF AfterToken
  <2> QED
    BY <1>3, <2>1, MoveKeepsRunner DEF Answered
<1> QED
  BY <1>1, <1>2, <1>3

LEMMA TalkStepKeeps ==
  ASSUME RunnerInv(runner), SendLine \/ ReadPong \/ ReadMove \/ Timeout
  PROVE  RunnerInv(runner')
<1>1. /\ runner \in Runners /\ runner.error = "none" /\ runner.pc \in {"send", "pong", "move"}
      /\ runner.turn + 2 * Empties[runner.board] + NoPly(runner.board) <= MaxTurns
      /\ runner.peer \in PlayerSides /\ runner.todo \in Seq(Requests)
  BY DEF RunnerInv, Runners, GamePcs, SendLine, ReadPong, ReadMove, Timeout
<1>2. CASE SendLine
  <2>1. runner.pc = "send" /\ runner.todo # << >>
    BY <1>2 DEF SendLine, RunnerInv
  <2>2. CASE Running(runner.peer)
    <3> DEFINE pc == IF Len(runner.todo) = 1 THEN runner.next ELSE "send"
               rest == Tail(runner.todo)
               r == [runner EXCEPT !.todo = rest, !.pc = pc]
    <3>1. runner' = r
      BY <1>2, <2>2 DEF SendLine, Written
    <3>2. /\ rest \in Seq(Requests) /\ (Len(runner.todo) = 1 <=> rest = << >>)
      <4>1. << >> \in Seq(Requests)
        OBVIOUS
      <4> QED
        BY <1>1, <2>1, <4>1, PendingSent
    <3>3. runner.next \in {"start", "pong", "move"} /\ (Moves[runner.board] # {} \/ runner.next = "start")
      BY <1>1, <2>1 DEF Runners, RunnerInv, Asks, Goes
    <3>4. \/ pc = runner.next /\ rest = << >>
          \/ pc = "send" /\ rest # << >>
      BY <3>2
    <3> HIDE DEF pc, rest
    <3>5. r \in Runners
      BY <1>1, <3>2, <3>3, <3>4 DEF Runners, GamePcs
    <3>6. /\ r.pc = pc /\ r.next = runner.next /\ r.error = "none" /\ r.todo = rest
          /\ r.board = runner.board /\ r.turn = runner.turn /\ r.peer = runner.peer
      BY <1>1 DEF Runners
    <3> HIDE DEF r
    <3>7. RunnerInv(r)
      BY <1>1, <3>3, <3>4, <3>5, <3>6 DEF RunnerInv, Asks, Goes
    <3> QED
      BY <3>1, <3>7
  <2>3. CASE ~Running(runner.peer)
    <3> DEFINE r == [runner EXCEPT !.pc = "killed"]
    <3>1. runner' = r
      BY <1>2, <2>3 DEF SendLine, Written
    <3>2. r \in Runners
      BY <1>1 DEF Runners
    <3>3. /\ r.pc = "killed" /\ r.board = runner.board /\ r.turn = runner.turn
      BY <1>1 DEF Runners
    <3> HIDE DEF r
    <3>4. RunnerInv(r)
      BY <1>1, <3>2, <3>3 DEF RunnerInv, Asks, Goes, GamePcs
    <3> QED
      BY <3>1, <3>4
  <2> QED
    BY <2>2, <2>3
<1>3. CASE ReadPong
  <2> DEFINE todo == <<[kind |-> "go"]>>
             r == [runner EXCEPT !.pc = "send", !.next = "move", !.todo = todo]
  <2>1. runner' = r \/ runner' = runner
    BY <1>3 DEF ReadPong
  <2>2. todo \in Seq(Requests) /\ todo # << >>
    BY DEF Requests
  <2>3. Moves[runner.board] # {}
    BY <1>3 DEF ReadPong, RunnerInv, Asks
  <2> HIDE DEF todo
  <2>4. r \in Runners
    BY <1>1, <2>2 DEF Runners, GamePcs
  <2>5. /\ r.pc = "send" /\ r.error = "none" /\ r.todo = todo
        /\ r.board = runner.board /\ r.turn = runner.turn /\ r.peer = runner.peer
    BY <1>1 DEF Runners
  <2> HIDE DEF r
  <2>6. RunnerInv(r)
    BY <1>1, <2>2, <2>3, <2>4, <2>5 DEF RunnerInv
  <2> QED
    BY <2>1, <2>6
<1>4. CASE ReadMove
  <2>1. runner' = runner \/ \E token : runner' = Answered(token)
    BY <1>4 DEF ReadMove
  <2> QED
    BY <1>4, <2>1, AnsweredKeeps DEF ReadMove
<1>5. CASE Timeout
  BY <1>5, BreakKeeps DEF Timeout, Faulty
<1> QED
  BY <1>2, <1>3, <1>4, <1>5

\* Whatever the runner does and the engines answer.
LEMMA RunnerKeeps ==
  ASSUME RunnerInv(runner), Next
  PROVE  RunnerInv(runner')
<1>1. CASE StartEngine \/ StartFails \/ AllStarted
  BY <1>1, StartStepKeeps
<1>2. CASE LoopEnds \/ ForcedPass \/ InProcessMove \/ AskEngine
  BY <1>2, TurnStepKeeps
<1>3. CASE SendLine \/ ReadPong \/ ReadMove \/ Timeout
  BY <1>3, TalkStepKeeps
<1>4. CASE Return
  <2> DEFINE r == [runner EXCEPT !.pc = "done"]
  <2>1. runner' = r /\ runner.pc = "finish"
    BY <1>4 DEF Return
  <2>2. runner \in Runners /\ runner.todo = << >>
        /\ runner.turn + 2 * Empties[runner.board] + NoPly(runner.board) <= MaxTurns
    BY <2>1 DEF RunnerInv
  <2>3. r \in Runners
    BY <2>2 DEF Runners
  <2>4. /\ r.pc = "done" /\ r.todo = << >> /\ r.board = runner.board /\ r.turn = runner.turn
    BY <2>2 DEF Runners
  <2> HIDE DEF r
  <2>5. RunnerInv(r)
    BY <2>2, <2>3, <2>4 DEF RunnerInv, Asks, Goes, GamePcs
  <2> QED
    BY <2>1, <2>5
<1>5. CASE \/ Close \/ \E s \in PlayerSides : Reap(s)
           \/ \E s \in PlayerSides :
                EngineStep(s) \/ EngineHangs(s) \/ EngineCrashes(s) \/ EngineExits(s)
  <2>1. runner' = runner
    BY <1>5 DEF Close, Reap, EngineStep, EngineHangs, EngineCrashes, EngineExits
  <2> QED
    BY <2>1
<1> QED
  BY <1>1, <1>2, <1>3, <1>4, <1>5 DEF Next, RunnerStep

(***************************************************************************)
(* The engine processes, whatever is said in the conversation.             *)
(***************************************************************************)
Clients == {"new", "running", "waiting", "reaped"}
Statuses == {"none", "live", "hung", "ending", "dead"}

SideInv(s) ==
  /\ client[s] = "new" => /\ engine[s].status = "none"
                          /\ toEngine[s] = << >> /\ fromEngine[s] = << >>
  /\ client[s] = "running" => s \in runner.external /\ engine[s].status \in {"live", "hung", "dead"}
  /\ client[s] = "waiting" => runner.pc = "finish" /\ engine[s].status \in {"ending", "dead"}
  /\ client[s] = "reaped" => engine[s].status = "dead"
  /\ runner.pc = "done" => client[s] \in {"new", "reaped"}

PipesInv ==
  /\ client \in [PlayerSides -> Clients]
  /\ engine \in [PlayerSides -> [status : Statuses, state : Engines]]
  /\ toEngine \in [PlayerSides -> Seq(Requests)] /\ DOMAIN fromEngine = PlayerSides
  /\ \A s \in PlayerSides : EngineInv(engine[s].state)

MatchInv == RunnerInv(runner) /\ PipesInv /\ \A s \in PlayerSides : SideInv(s)

LEMMA RequestsParsed == \A line \in Requests : Parsed(line)
<1> SUFFICES ASSUME NEW line \in Requests
             PROVE  Parsed(line)
  OBVIOUS
<1>1. CASE line \in [kind : {"nboard", "go"}]
  BY <1>1 DEF Parsed
<1>2. CASE line \in [kind : {"set game"}, moves : Seq(Tokens)]
  BY <1>2 DEF Parsed
<1>3. CASE line \in [kind : {"set depth"}, depth : {AskedDepth}]
  <2>1. line.kind = "set depth" /\ line.depth = AskedDepth
    BY <1>3
  <2>2. AskedDepth \in Int
    BY MatchAssumption
  <2> QED
    BY <2>1, <2>2 DEF Parsed
<1>4. CASE line \in [kind : {"ping"}, id : {1}]
  BY <1>4 DEF Parsed
<1> QED
  BY <1>1, <1>2, <1>3, <1>4 DEF Requests

\* An engine's process changes, its state does not.
LEMMA StatusKeepsPipes ==
  ASSUME PipesInv, NEW s \in PlayerSides, NEW status \in Statuses,
         engine' = [engine EXCEPT ![s].status = status]
  PROVE  /\ engine' \in [PlayerSides -> [status : Statuses, state : Engines]]
         /\ \A t \in PlayerSides : engine'[t].state = engine[t].state
         /\ engine'[s].status = status
         /\ \A t \in PlayerSides : t # s => engine'[t] = engine[t]
<1>1. engine \in [PlayerSides -> [status : Statuses, state : Engines]]
  BY DEF PipesInv
<1>2. engine[s] \in [status : Statuses, state : Engines]
  BY <1>1
<1> DEFINE e == [engine[s] EXCEPT !.status = status]
<1>3. /\ e \in [status : Statuses, state : Engines] /\ e.state = engine[s].state
      /\ e.status = status
  BY <1>2
<1>4. engine' = [engine EXCEPT ![s] = e]
  OBVIOUS
<1> HIDE DEF e
<1>5. \A t \in PlayerSides : engine'[t] = IF t = s THEN e ELSE engine[t]
  BY <1>1, <1>4
<1>6. engine' \in [PlayerSides -> [status : Statuses, state : Engines]]
  BY <1>1, <1>3, <1>4
<1> QED
  BY <1>3, <1>5, <1>6

\* One engine reads a line.
LEMMA StepKeepsPipes ==
  ASSUME MatchInv, NEW s \in PlayerSides, EngineStep(s)
  PROVE  /\ PipesInv'
         /\ \A t \in PlayerSides : engine'[t].status = engine[t].status
         /\ \A t \in PlayerSides : t # s => /\ engine'[t] = engine[t]
                                            /\ toEngine'[t] = toEngine[t]
                                            /\ fromEngine'[t] = fromEngine[t]
         /\ toEngine[s] # << >> /\ toEngine'[s] = Tail(toEngine[s])
         /\ \E h \in Handled(engine[s].state, Head(toEngine[s])) :
              /\ engine'[s].state = h.engine
              /\ fromEngine'[s] = fromEngine[s] \o h.reply
<1>1. /\ client \in [PlayerSides -> Clients]
      /\ engine \in [PlayerSides -> [status : Statuses, state : Engines]]
      /\ toEngine \in [PlayerSides -> Seq(Requests)] /\ DOMAIN fromEngine = PlayerSides
      /\ \A t \in PlayerSides : EngineInv(engine[t].state)
  BY DEF MatchInv, PipesInv
<1>2. /\ toEngine[s] # << >> /\ toEngine' = [toEngine EXCEPT ![s] = Tail(@)]
      /\ UNCHANGED client
  BY DEF EngineStep
<1>3. PICK h \in Handled(engine[s].state, Head(toEngine[s])) :
            /\ engine' = [engine EXCEPT ![s].state = h.engine]
            /\ fromEngine' = [fromEngine EXCEPT ![s] = @ \o h.reply]
  BY DEF EngineStep
<1>4. toEngine[s] \in Seq(Requests) /\ engine[s] \in [status : Statuses, state : Engines]
  BY <1>1
<1>5. Head(toEngine[s]) \in Requests /\ Tail(toEngine[s]) \in Seq(Requests)
  BY <1>2, <1>4, HeadTailProperties, EmptySeq
<1>6. EngineInv(h.engine)
  BY <1>1, <1>5, RequestsParsed, HandledKeeps
<1>7. h.engine \in Engines
  BY <1>6 DEF EngineInv
<1> DEFINE e == [engine[s] EXCEPT !.state = h.engine]
<1>8. /\ e \in [status : Statuses, state : Engines] /\ e.state = h.engine
      /\ e.status = engine[s].status
  BY <1>4, <1>7
<1>9. engine' = [engine EXCEPT ![s] = e]
  BY <1>3
<1> HIDE DEF e
<1>10. \A t \in PlayerSides : engine'[t] = IF t = s THEN e ELSE engine[t]
  BY <1>1, <1>9
<1>11. engine' \in [PlayerSides -> [status : Statuses, state : Engines]]
  BY <1>1, <1>8, <1>9
<1>12. /\ toEngine' \in [PlayerSides -> Seq(Requests)]
       /\ \A t \in PlayerSides :
            toEngine'[t] = IF t = s THEN Tail(toEngine[s]) ELSE toEngine[t]
  BY <1>1, <1>2, <1>5
<1>13. /\ DOMAIN fromEngine' = PlayerSides
       /\ \A t \in PlayerSides :
            fromEngine'[t] = IF t = s THEN fromEngine[s] \o h.reply ELSE fromEngine[t]
  BY <1>1, <1>3
<1>14. \A t \in PlayerSides : EngineInv(engine'[t].state)
  BY <1>1, <1>6, <1>8, <1>10
<1>15. PipesInv'
  BY <1>1, <1>2, <1>11, <1>12, <1>13, <1>14 DEF PipesInv
<1>16. \A t \in PlayerSides : engine'[t].status = engine[t].status
  BY <1>8, <1>10
<1>17. \A t \in PlayerSides : t # s => /\ engine'[t] = engine[t]
                                       /\ toEngine'[t] = toEngine[t]
                                       /\ fromEngine'[t] = fromEngine[t]
  BY <1>10, <1>12, <1>13
<1>18. toEngine'[s] = Tail(toEngine[s])
  BY <1>12
<1>19. engine'[s].state = h.engine /\ fromEngine'[s] = fromEngine[s] \o h.reply
  BY <1>8, <1>10, <1>13
<1> QED
  BY <1>2, <1>15, <1>16, <1>17, <1>18, <1>19

\* A line is written to an engine that runs, or nothing is.
LEMMA SendKeepsPipes ==
  ASSUME MatchInv, SendLine
  PROVE  /\ PipesInv' /\ UNCHANGED <<client, engine, fromEngine>>
         /\ runner.peer \in PlayerSides /\ runner.todo \in Seq(Requests) /\ runner.todo # << >>
         /\ \A t \in PlayerSides : t # runner.peer => toEngine'[t] = toEngine[t]
         /\ Running(runner.peer) =>
              toEngine'[runner.peer] = Append(toEngine[runner.peer], Head(runner.todo))
         /\ ~Running(runner.peer) => toEngine' = toEngine
<1> DEFINE s == runner.peer
           line == Head(runner.todo)
<1>1. /\ s \in PlayerSides /\ runner.todo \in Seq(Requests) /\ runner.todo # << >>
      /\ UNCHANGED <<client, engine, fromEngine>>
  BY DEF MatchInv, RunnerInv, Runners, SendLine
<1>2. line \in Requests
  BY <1>1, HeadTailProperties, EmptySeq
<1>3. /\ toEngine \in [PlayerSides -> Seq(Requests)]
  BY DEF MatchInv, PipesInv
<1> HIDE DEF line
<1>4. Append(toEngine[s], line) \in Seq(Requests)
  BY <1>1, <1>2, <1>3, AppendProperties
<1>5. CASE Running(s)
  <2>1. toEngine' = [toEngine EXCEPT ![s] = Append(@, line)]
    BY <1>5 DEF SendLine, Written, line
  <2>2. /\ toEngine' \in [PlayerSides -> Seq(Requests)]
        /\ \A t \in PlayerSides :
             toEngine'[t] = IF t = s THEN Append(toEngine[s], line) ELSE toEngine[t]
    BY <1>1, <1>3, <1>4, <2>1
  <2>3. PipesInv'
    BY <1>1, <2>2 DEF MatchInv, PipesInv
  <2> QED
    BY <1>1, <1>5, <2>2, <2>3 DEF line
<1>6. CASE ~Running(s)
  <2>1. toEngine' = toEngine
    BY <1>6 DEF SendLine, Written
  <2>2. PipesInv'
    BY <1>1, <2>1 DEF MatchInv, PipesInv
  <2> QED
    BY <1>1, <1>6, <2>1, <2>2
<1> QED
  BY <1>5, <1>6

LEMMA ReadKeepsPipes ==
  ASSUME MatchInv, ReadPong \/ ReadMove
  PROVE  /\ PipesInv' /\ UNCHANGED <<client, engine, toEngine>>
         /\ runner.peer \in PlayerSides /\ fromEngine[runner.peer] # << >>
         /\ \A t \in PlayerSides : t # runner.peer => fromEngine'[t] = fromEngine[t]
         /\ fromEngine'[runner.peer] = Tail(fromEngine[runner.peer])
<1> DEFINE s == runner.peer
<1>1. /\ s \in PlayerSides /\ fromEngine[s] # << >> /\ UNCHANGED <<client, engine, toEngine>>
      /\ fromEngine' = [fromEngine EXCEPT ![s] = Tail(@)]
  BY DEF MatchInv, RunnerInv, ReadPong, ReadMove, LineRead
<1>2. DOMAIN fromEngine = PlayerSides
  BY DEF MatchInv, PipesInv
<1>3. /\ DOMAIN fromEngine' = PlayerSides
      /\ \A t \in PlayerSides :
           fromEngine'[t] = IF t = s THEN Tail(fromEngine[s]) ELSE fromEngine[t]
  BY <1>1, <1>2
<1>4. PipesInv'
  BY <1>1, <1>3 DEF MatchInv, PipesInv
<1> QED
  BY <1>1, <1>3, <1>4

LEMMA PipesKeep ==
  ASSUME MatchInv, Next
  PROVE  PipesInv'
<1>1. CASE \/ StartFails \/ AllStarted \/ LoopEnds \/ ForcedPass \/ InProcessMove \/ AskEngine
           \/ Timeout \/ Return
  <2>1. UNCHANGED <<client, engine, toEngine, fromEngine>>
    BY <1>1 DEF StartFails, AllStarted, LoopEnds, ForcedPass, InProcessMove, AskEngine,
                Timeout, Return
  <2> QED
    BY <2>1 DEF MatchInv, PipesInv
<1>2. CASE StartEngine
  <2> DEFINE s == FirstOf(Unstarted)
  <2>1. s \in PlayerSides
    <3>1. Unstarted \in SUBSET PlayerSides /\ Unstarted # {}
      BY <1>2 DEF MatchInv, RunnerInv, Runners, StartEngine, Unstarted
    <3> QED
      BY <3>1, SidesAre
  <2>2. /\ client' = [client EXCEPT ![s] = "running"]
        /\ engine' = [engine EXCEPT ![s].status = "live"]
        /\ UNCHANGED <<toEngine, fromEngine>>
    BY <1>2 DEF StartEngine
  <2> HIDE DEF s
  <2>3. PipesInv /\ "live" \in Statuses
    BY DEF MatchInv, Statuses
  <2>4. /\ engine' \in [PlayerSides -> [status : Statuses, state : Engines]]
        /\ \A t \in PlayerSides : engine'[t].state = engine[t].state
    BY <2>1, <2>2, <2>3, StatusKeepsPipes
  <2>5. client' \in [PlayerSides -> Clients]
    BY <2>1, <2>2, <2>3 DEF PipesInv, Clients
  <2> QED
    BY <2>2, <2>3, <2>4, <2>5 DEF PipesInv
<1>3. CASE SendLine
  BY <1>3, SendKeepsPipes
<1>4. CASE ReadPong \/ ReadMove
  BY <1>4, ReadKeepsPipes
<1>5. CASE Close
  <2> DEFINE s == LastOf(Unstopped)
  <2>1. s \in PlayerSides
    <3>1. Unstopped \in SUBSET PlayerSides /\ Unstopped # {}
      BY <1>5 DEF MatchInv, RunnerInv, Runners, Close, Unstopped
    <3> QED
      BY <3>1, SidesAre
  <2>2. /\ client' = [client EXCEPT ![s] = IF Running(s) THEN "waiting" ELSE "reaped"]
        /\ engine' = IF Running(s) THEN [engine EXCEPT ![s].status = "ending"] ELSE engine
        /\ UNCHANGED <<toEngine, fromEngine>>
    BY <1>5 DEF Close
  <2> HIDE DEF s
  <2>3. PipesInv /\ "ending" \in Statuses
    BY DEF MatchInv, Statuses
  <2>4. /\ engine' \in [PlayerSides -> [status : Statuses, state : Engines]]
        /\ \A t \in PlayerSides : engine'[t].state = engine[t].state
    <3>1. CASE Running(s)
      BY <2>1, <2>2, <2>3, <3>1, StatusKeepsPipes
    <3>2. CASE ~Running(s)
      BY <2>2, <2>3, <3>2 DEF PipesInv
    <3> QED
      BY <3>1, <3>2
  <2>5. client' \in [PlayerSides -> Clients]
    BY <2>1, <2>2, <2>3 DEF PipesInv, Clients
  <2> QED
    BY <2>2, <2>3, <2>4, <2>5 DEF PipesInv
<1>6. ASSUME NEW s \in PlayerSides, Reap(s)
      PROVE  PipesInv'
  <2>1. client' \in [PlayerSides -> Clients]
    BY <1>6 DEF MatchInv, PipesInv, Clients, Reap
  <2> QED
    BY <1>6, <2>1 DEF MatchInv, PipesInv, Reap
<1>7. ASSUME NEW s \in PlayerSides, EngineStep(s)
      PROVE  PipesInv'
  BY <1>7, StepKeepsPipes
<1>8. ASSUME NEW s \in PlayerSides, EngineHangs(s) \/ EngineCrashes(s) \/ EngineExits(s)
      PROVE  PipesInv'
  <2>1. PICK status \in Statuses : engine' = [engine EXCEPT ![s].status = status]
    BY <1>8 DEF EngineHangs, EngineCrashes, EngineExits, Statuses
  <2>2. PipesInv /\ UNCHANGED <<client, toEngine, fromEngine>>
    BY <1>8 DEF EngineHangs, EngineCrashes, EngineExits, MatchInv
  <2>3. /\ engine' \in [PlayerSides -> [status : Statuses, state : Engines]]
        /\ \A t \in PlayerSides : engine'[t].state = engine[t].state
    BY <2>1, <2>2, StatusKeepsPipes
  <2> QED
    BY <2>2, <2>3 DEF PipesInv
<1> QED
  BY <1>1, <1>2, <1>3, <1>4, <1>5, <1>6, <1>7, <1>8 DEF Next, RunnerStep

(***************************************************************************)
(* Openings.                                                               *)
(***************************************************************************)
LEMMA OpeningPlyType ==
  ASSUME NEW p \in Positions, NEW m
  PROVE  OpeningPly(p, m) \subseteq Positions
<1> DEFINE q == IF Moves[p] = {} THEN Pass[p] ELSE p
<1>1. q \in Positions
  BY GameTypes
<1>2. OpeningPly(p, m) = IF ~Terminal(p) /\ m \in Moves[q] THEN {Play[q][m]} ELSE {}
  BY DEF OpeningPly
<1> HIDE DEF q
<1> QED
  BY <1>1, <1>2, GameTypes

\* Openings lead to positions of the game.
LEMMA OpeningBoardType ==
  ASSUME NEW h \in Seq(Squares)
  PROVE  OpeningBoard(h) \subseteq Positions
<1> DEFINE n == Len(h)
           Step(P, i) == UNION { OpeningPly(p, h[i]) : p \in P }
           X == SUBSET Positions
           step == [i \in 1 .. n |-> [P \in X |-> Step(P, i)]]
           Body(f) == [i \in 0 .. n |-> IF i = 0 THEN {Initial} ELSE Step(f[i - 1], i)]
           at == CHOOSE f : f = Body(f)
<1>1. n \in Nat /\ {Initial} \in X
  BY EngineAssumption, LenProperties
<1>2. \A i \in 1 .. n : \A P \in X : Step(P, i) \in X
  <2> TAKE i \in 1 .. n
  <2> TAKE P \in X
  <2>2. \A p \in P : OpeningPly(p, h[i]) \subseteq Positions
    BY OpeningPlyType
  <2> QED
    BY <2>2
<1> HIDE DEF Step
<1>3. step \in [1 .. n -> [X -> X]]
  BY <1>2
<1>4. PICK f \in [0 .. n -> X] : Recurses(f, n, {Initial}, step)
  <2> HIDE DEF n, X, step
  <2> QED
    BY <1>1, <1>3, RecursiveFunction
<1>5. f = Body(f)
  <2>1. \A i \in 0 .. n : f[i] = IF i = 0 THEN {Initial} ELSE Step(f[i - 1], i)
    <3> TAKE i \in 0 .. n
    <3>1. CASE i = 0
      BY <3>1, <1>4 DEF Recurses
    <3>2. CASE i # 0
      <4>1. i \in 1 .. n /\ i - 1 \in 0 .. n /\ f[i - 1] \in X
        BY <1>1, <3>2
      <4> QED
        BY <4>1, <3>2, <1>4 DEF Recurses
    <3> QED
      BY <3>1, <3>2
  <2> QED
    BY <2>1
<1>6. at = Body(at)
  <2> HIDE DEF Body
  <2> QED
    BY <1>5
<1>7. \A i \in 0 .. n : at[i] = IF i = 0 THEN {Initial} ELSE Step(at[i - 1], i)
  <2> HIDE DEF at
  <2> QED
    BY <1>6
<1> HIDE DEF at
<1>8. \A i \in 1 .. n : /\ i \in 0 .. n /\ i # 0
                        /\ f[i] = Step(f[i - 1], i)
                        /\ at[i] = Step(at[i - 1], i)
  <2> TAKE i \in 1 .. n
  <2>1. i \in 0 .. n /\ i # 0
    BY <1>1
  <2>2. f[i] = step[i][f[i - 1]] /\ f[i - 1] \in X
    <3>1. i - 1 \in 0 .. n
      BY <1>1
    <3> HIDE DEF n, step, X
    <3> QED
      BY <1>4, <3>1 DEF Recurses
  <2>3. f[i] = Step(f[i - 1], i)
    BY <2>2
  <2> HIDE DEF X, step
  <2> QED
    BY <2>1, <2>3, <1>7
<1>9. f[0] = at[0]
  <2>1. f[0] = {Initial}
    BY <1>4 DEF Recurses
  <2>2. 0 \in 0 .. n
    BY <1>1
  <2>3. at[0] = {Initial}
    BY <2>2, <1>7
  <2> QED
    BY <2>1, <2>3
<1>12. Alike(f, at, n)
  <2> HIDE DEF n, X, step
  <2>1. ContinueAlike(f, at, n)
    BY <1>8, <1>9 DEF ContinueAlike
  <2> QED
    BY <1>1, <2>1, RecursionUnique
<1>10. OpeningBoard(h) = at[n]
  BY DEF OpeningBoard, at, Step
<1>11. OpeningBoard(h) = f[n] /\ n \in 0 .. n
  BY <1>1, <1>12, <1>10 DEF Alike
<1> QED
  BY <1>4, <1>11

\* What the runner does before the end of the game.
Playing ==
  \/ StartEngine \/ StartFails \/ AllStarted
  \/ LoopEnds \/ ForcedPass \/ InProcessMove \/ AskEngine
  \/ SendLine \/ ReadPong \/ ReadMove \/ Timeout

LEMMA PlayingRunner ==
  ASSUME RunnerInv(runner), Playing
  PROVE  /\ runner.pc \notin {"finish", "done"} /\ runner'.pc # "done"
         /\ runner'.external = runner.external
<1>1. runner \in Runners
  BY DEF RunnerInv
<1>3. \A reason : Break(reason).external = runner.external /\ Break(reason).pc = "finish"
  <2> TAKE reason
  <2> QED
    BY <1>1 DEF Break, Runners
<1>4. \A m : Played(m).external = runner.external /\ Played(m).pc # "done"
  <2> TAKE m
  <2>1. CASE m \in Moves[runner.board]
    BY <1>1, <2>1 DEF Played, Runners
  <2>2. CASE m \notin Moves[runner.board]
    BY <1>3, <2>2 DEF Played
  <2> QED
    BY <2>1, <2>2
<1>5. \A t : Answered(t).external = runner.external /\ Answered(t).pc # "done"
  BY <1>3, <1>4 DEF Answered
<1>6. CASE StartEngine
  BY <1>1, <1>6 DEF StartEngine, Runners
<1>7. CASE StartFails
  BY <1>3, <1>7 DEF StartFails
<1>8. CASE AllStarted
  BY <1>1, <1>8 DEF AllStarted, Runners
<1>9. CASE LoopEnds
  <2>1. runner.pc = "turn"
    BY <1>9 DEF LoopEnds
  <2>2. \/ runner' = [runner EXCEPT !.pc = "finish"]
        \/ runner' = Break("maximum turn count exceeded")
    BY <1>9 DEF LoopEnds
  <2> QED
    BY <1>1, <1>3, <2>1, <2>2 DEF Runners
<1>10. CASE ForcedPass
  BY <1>1, <1>10 DEF ForcedPass, TurnBegins, Runners
<1>11. CASE InProcessMove
  BY <1>4, <1>11 DEF InProcessMove, TurnBegins
<1>12. CASE AskEngine
  BY <1>1, <1>12 DEF AskEngine, TurnBegins, Runners
<1>13. CASE SendLine
  <2>1. runner.pc = "send" /\ runner.next \in {"start", "pong", "move"}
    BY <1>1, <1>13 DEF SendLine, Runners
  <2> DEFINE pc == IF Len(runner.todo) = 1 THEN runner.next ELSE "send"
  <2>2. pc # "done"
    BY <2>1
  <2> HIDE DEF pc
  <2>3. \/ runner' = [runner EXCEPT !.todo = Tail(runner.todo), !.pc = pc]
        \/ runner' = [runner EXCEPT !.pc = "killed"]
    BY <1>13 DEF SendLine, Written, pc
  <2>4. CASE runner' = [runner EXCEPT !.todo = Tail(runner.todo), !.pc = pc]
    <3>1. runner'.external = runner.external /\ runner'.pc = pc
      BY <1>1, <2>4 DEF Runners
    <3> QED
      BY <3>1, <2>1, <2>2
  <2>5. CASE runner' = [runner EXCEPT !.pc = "killed"]
    BY <1>1, <2>1, <2>5 DEF Runners
  <2> QED
    BY <2>3, <2>4, <2>5
<1>14. CASE ReadPong
  <2>1. /\ runner.pc = "pong"
        /\ \/ runner' = [runner EXCEPT !.pc = "send", !.next = "move", !.todo = <<[kind |-> "go"]>>]
           \/ runner' = runner
    BY <1>14 DEF ReadPong
  <2> QED
    BY <1>1, <2>1 DEF Runners
<1>15. CASE ReadMove
  <2>1. /\ runner.pc = "move"
        /\ runner' = runner \/ \E t : runner' = Answered(t)
    BY <1>15 DEF ReadMove
  <2> QED
    BY <1>1, <1>5, <2>1 DEF Runners
<1>16. CASE Timeout
  BY <1>3, <1>16 DEF Timeout
<1> QED
  BY <1>6, <1>7, <1>8, <1>9, <1>10, <1>11, <1>12, <1>13, <1>14, <1>15, <1>16 DEF Playing

LEMMA SideKeeps ==
  ASSUME MatchInv, Next, NEW s \in PlayerSides
  PROVE  SideInv(s)'
<1>1. /\ RunnerInv(runner) /\ PipesInv /\ SideInv(s)
      /\ runner.external \in SUBSET PlayerSides
  BY DEF MatchInv, RunnerInv, Runners
<1>2. CASE /\ Playing /\ ~StartEngine
  <2>1. /\ runner.pc \notin {"finish", "done"} /\ runner'.pc # "done"
        /\ runner'.external = runner.external
    BY <1>1, <1>2, PlayingRunner
  <2>2. client' = client /\ engine' = engine
    BY <1>2 DEF Playing, StartFails, AllStarted, LoopEnds, ForcedPass, InProcessMove,
                AskEngine, SendLine, ReadPong, ReadMove, Timeout
  <2>3. client[s] = "new" => toEngine'[s] = toEngine[s] /\ fromEngine'[s] = fromEngine[s]
    <3> SUFFICES ASSUME client[s] = "new"
                 PROVE  toEngine'[s] = toEngine[s] /\ fromEngine'[s] = fromEngine[s]
      OBVIOUS
    <3>1. CASE SendLine
      <4>1. ~(s = runner.peer /\ Running(runner.peer))
        BY <1>1 DEF SideInv, Running
      <4> QED
        BY <3>1, <4>1, SendKeepsPipes
    <3>2. CASE ReadPong \/ ReadMove
      <4>1. fromEngine[s] = << >>
        BY <1>1 DEF SideInv
      <4> QED
        BY <3>2, <4>1, ReadKeepsPipes
    <3>3. CASE ~SendLine /\ ~ReadPong /\ ~ReadMove
      BY <1>2, <3>3 DEF Playing, StartFails, AllStarted, LoopEnds, ForcedPass, InProcessMove,
                        AskEngine, Timeout
    <3> QED
      BY <3>1, <3>2, <3>3
  <2> QED
    BY <1>1, <2>1, <2>2, <2>3 DEF SideInv
<1>3. CASE StartEngine
  <2> DEFINE t == FirstOf(Unstarted)
  <2>1. t \in Unstarted /\ t \in PlayerSides
    <3>1. Unstarted \in SUBSET PlayerSides /\ Unstarted # {}
      BY <1>1, <1>3 DEF StartEngine, Unstarted
    <3> QED
      BY <3>1, SidesAre
  <2>2. /\ client' = [client EXCEPT ![t] = "running"]
        /\ engine' = [engine EXCEPT ![t].status = "live"]
        /\ UNCHANGED <<toEngine, fromEngine>>
    BY <1>3 DEF StartEngine
  <2>3. /\ runner.pc \notin {"finish", "done"} /\ runner'.pc # "done"
        /\ runner'.external = runner.external
    BY <1>1, <1>3, PlayingRunner DEF Playing
  <2>4. t \in runner.external /\ client[t] = "new"
    BY <2>1 DEF Unstarted
  <2> HIDE DEF t
  <2>5. /\ engine'[t].status = "live"
        /\ \A u \in PlayerSides : u # t => engine'[u] = engine[u]
    BY <1>1, <2>1, <2>2, StatusKeepsPipes DEF Statuses
  <2>6. /\ client'[t] = "running"
        /\ \A u \in PlayerSides : u # t => client'[u] = client[u]
    BY <1>1, <2>1, <2>2 DEF PipesInv
  <2>7. CASE s = t
    BY <2>3, <2>4, <2>5, <2>6, <2>7 DEF SideInv
  <2>8. CASE s # t
    BY <1>1, <2>2, <2>3, <2>5, <2>6, <2>8 DEF SideInv
  <2> QED
    BY <2>7, <2>8
<1>4. CASE Close
  <2> DEFINE t == LastOf(Unstopped)
  <2>1. t \in Unstopped /\ t \in PlayerSides
    <3>1. Unstopped \in SUBSET PlayerSides /\ Unstopped # {}
      BY <1>1, <1>4 DEF Close, Unstopped
    <3> QED
      BY <3>1, SidesAre
  <2>2. /\ client' = [client EXCEPT ![t] = IF Running(t) THEN "waiting" ELSE "reaped"]
        /\ engine' = IF Running(t) THEN [engine EXCEPT ![t].status = "ending"] ELSE engine
        /\ UNCHANGED <<runner, toEngine, fromEngine>> /\ runner.pc = "finish"
    BY <1>4 DEF Close
  <2>3. SideInv(t) /\ client[t] = "running"
    BY <2>1 DEF MatchInv, Unstopped
  <2> HIDE DEF t
  <2>4. /\ Running(t) => engine'[t].status = "ending"
        /\ ~Running(t) => engine' = engine
        /\ \A u \in PlayerSides : u # t => engine'[u] = engine[u]
    <3>1. CASE Running(t)
      BY <1>1, <2>1, <2>2, <3>1, StatusKeepsPipes DEF Statuses
    <3>2. CASE ~Running(t)
      BY <2>2, <3>2
    <3> QED
      BY <3>1, <3>2
  <2>5. /\ client'[t] = IF Running(t) THEN "waiting" ELSE "reaped"
        /\ \A u \in PlayerSides : u # t => client'[u] = client[u]
    BY <1>1, <2>1, <2>2 DEF PipesInv
  <2>6. CASE s = t
    <3>1. ~Running(t) => engine[t].status = "dead"
      BY <2>3 DEF SideInv, Running
    <3> QED
      BY <2>2, <2>4, <2>5, <2>6, <3>1 DEF SideInv
  <2>7. CASE s # t
    BY <1>1, <2>2, <2>4, <2>5, <2>7 DEF SideInv
  <2> QED
    BY <2>6, <2>7
<1>5. ASSUME NEW t \in PlayerSides, Reap(t)
      PROVE  SideInv(s)'
  <2>1. /\ client' = [client EXCEPT ![t] = "reaped"] /\ engine[t].status = "dead"
        /\ UNCHANGED <<runner, engine, toEngine, fromEngine>>
    BY <1>5 DEF Reap
  <2>2. /\ client'[t] = "reaped"
        /\ \A u \in PlayerSides : u # t => client'[u] = client[u]
    BY <1>1, <2>1 DEF PipesInv
  <2>3. CASE s = t
    BY <2>1, <2>2, <2>3 DEF SideInv
  <2>4. CASE s # t
    BY <1>1, <2>1, <2>2, <2>4 DEF SideInv
  <2> QED
    BY <2>3, <2>4
<1>6. CASE Return
  <2>1. /\ Unstopped = {} /\ ~Waiting(s) /\ runner' = [runner EXCEPT !.pc = "done"]
        /\ UNCHANGED <<client, engine, toEngine, fromEngine>>
    BY <1>6 DEF Return
  <2>2. runner'.external = runner.external
    BY <1>1, <2>1 DEF RunnerInv, Runners
  <2>3. client[s] # "waiting" /\ client[s] # "running" /\ client[s] \in Clients
    BY <1>1, <2>1 DEF Waiting, Unstopped, SideInv, PipesInv
  <2> QED
    BY <1>1, <2>1, <2>2, <2>3 DEF SideInv, Clients
<1>7. ASSUME NEW t \in PlayerSides, EngineStep(t)
      PROVE  SideInv(s)'
  <2>1. UNCHANGED <<runner, client>> /\ engine[t].status = "live"
    BY <1>7 DEF EngineStep
  <2>2. /\ engine'[s].status = engine[s].status
        /\ s # t => /\ toEngine'[s] = toEngine[s]
                    /\ fromEngine'[s] = fromEngine[s]
    BY <1>7, StepKeepsPipes
  <2> QED
    BY <1>1, <2>1, <2>2 DEF SideInv
<1>8. ASSUME NEW t \in PlayerSides, EngineHangs(t) \/ EngineCrashes(t) \/ EngineExits(t)
      PROVE  SideInv(s)'
  <2>1. PICK status \in {"hung", "dead"} :
             /\ engine' = [engine EXCEPT ![t].status = status]
             /\ status = "hung" => engine[t].status = "live"
             /\ status = "dead" => engine[t].status \in {"live", "hung", "ending"}
    BY <1>8 DEF EngineHangs, EngineCrashes, EngineExits
  <2>2. UNCHANGED <<runner, client, toEngine, fromEngine>>
    BY <1>8 DEF EngineHangs, EngineCrashes, EngineExits
  <2>3. /\ engine'[t].status = status
        /\ \A u \in PlayerSides : u # t => engine'[u] = engine[u]
    BY <1>1, <2>1, StatusKeepsPipes DEF Statuses
  <2>4. CASE s = t
    BY <1>1, <2>1, <2>2, <2>3, <2>4 DEF SideInv
  <2>5. CASE s # t
    BY <1>1, <2>2, <2>3, <2>5 DEF SideInv
  <2> QED
    BY <2>4, <2>5
<1> QED
  BY <1>2, <1>3, <1>4, <1>5, <1>6, <1>7, <1>8 DEF Next, RunnerStep, Playing

LEMMA InitMatch == Init => MatchInv
<1> SUFFICES ASSUME Init
             PROVE  MatchInv
  OBVIOUS
<1>1. PICK o \in Openings : \E p \in OpeningBoard(o) : \E x \in Externals :
       runner = [pc |-> "start", external |-> x, board |-> p, moves |-> o, turn |-> 0,
                 error |-> "none", peer |-> NoSide, todo |-> << >>, next |-> "start"]
  BY DEF Init
<1>2. PICK p \in OpeningBoard(o) : \E x \in Externals :
       runner = [pc |-> "start", external |-> x, board |-> p, moves |-> o, turn |-> 0,
                 error |-> "none", peer |-> NoSide, todo |-> << >>, next |-> "start"]
  BY <1>1
<1>3. PICK x \in Externals :
       runner = [pc |-> "start", external |-> x, board |-> p, moves |-> o, turn |-> 0,
                 error |-> "none", peer |-> NoSide, todo |-> << >>, next |-> "start"]
  BY <1>2
<1>4. o \in Seq(Squares) /\ x \in SUBSET PlayerSides
  BY MatchAssumption
<1>5. p \in Positions
  BY <1>4, OpeningBoardType
<1>6. o \in Seq(Tokens)
  BY <1>4, TokensAre, SeqMonotonic
<1>7. RunnerInv(runner)
  <2>1. << >> \in Seq(Requests)
    OBVIOUS
  <2>2. runner \in Runners
    BY <1>3, <1>4, <1>5, <1>6, <2>1 DEF Runners, GamePcs, NoSide
  <2>3. 0 + 2 * Empties[p] + NoPly(p) <= MaxTurns
    <3>1. Empties[p] \in Nat /\ NoPly(p) \in {0, 1} /\ MaxTurns \in Nat
      BY <1>5, BoardFacts
    <3>2. MaxTurns > 2 * Empties[p]
      BY <1>5, MatchAssumption
    <3> QED
      BY <3>1, <3>2
  <2>4. /\ runner.pc = "start" /\ runner.todo = << >> /\ runner.error = "none"
        /\ runner.board = p /\ runner.turn = 0
    BY <1>3
  <2> QED
    BY <2>2, <2>3, <2>4 DEF RunnerInv, Asks, Goes
<1>8. /\ client = [s \in PlayerSides |-> "new"]
      /\ engine = [s \in PlayerSides |-> NoEngine]
      /\ toEngine = [s \in PlayerSides |-> << >>]
      /\ fromEngine = [s \in PlayerSides |-> << >>]
  BY DEF Init
<1>9. NoEngine \in [status : Statuses, state : Engines] /\ EngineInv(NoEngine.state)
  BY NewEngineInv DEF NoEngine, Statuses, EngineInv
<1>10. PipesInv
  <2>1. << >> \in Seq(Requests) /\ "new" \in Clients
    BY DEF Clients
  <2> QED
    BY <1>8, <1>9, <2>1 DEF PipesInv
<1>11. \A s \in PlayerSides : SideInv(s)
  BY <1>3, <1>8 DEF SideInv, NoEngine
<1> QED
  BY <1>7, <1>10, <1>11 DEF MatchInv

LEMMA MatchKeeps ==
  ASSUME MatchInv, Next
  PROVE  MatchInv'
<1>1. RunnerInv(runner') /\ PipesInv'
  BY RunnerKeeps, PipesKeep DEF MatchInv
<1>2. \A s \in PlayerSides : SideInv(s)'
  BY SideKeeps
<1> QED
  BY <1>1, <1>2 DEF MatchInv

LEMMA MatchStutters ==
  ASSUME MatchInv, UNCHANGED vars
  PROVE  MatchInv'
BY DEF MatchInv, PipesInv, SideInv, vars

\* Every reachable state of a match satisfies MatchInv.
THEOREM MatchInvariant == Spec => []MatchInv
<1>1. Init => MatchInv
  BY InitMatch
<1>2. MatchInv /\ [Next]_vars => MatchInv'
  BY MatchKeeps, MatchStutters
<1> QED
  BY <1>1, <1>2, PTL DEF Spec

\* However a game ends, with engines that hang, crash or never start, no engine
\* process outlives run_game and none is left unwaited for.
THEOREM EnginesAreGone == Spec => []NoEngineLeftBehind
<1>1. MatchInv => NoEngineLeftBehind
  <2> SUFFICES ASSUME MatchInv, runner.pc = "done", NEW s \in PlayerSides
               PROVE  <<client[s], engine[s].status>> \in {<<"new", "none">>, <<"reaped", "dead">>}
    BY DEF NoEngineLeftBehind
  <2>1. SideInv(s)
    BY DEF MatchInv
  <2> QED
    BY <2>1 DEF SideInv
<1> QED
  BY <1>1, MatchInvariant, PTL

(***************************************************************************)
(* The game that is played.                                                *)
(***************************************************************************)

\* No opening ends the game.  parse_opening_line takes one that does, and then
\* an engine that cannot be started breaks off a game that is over.
OpeningsGoOn == \A o \in Openings : \A p \in OpeningBoard(o) : ~Terminal(p)

Starting(r) == r.pc = "start" \/ (r.pc = "send" /\ r.next = "start")
StartInv == Starting(runner) => ~Terminal(runner.board)

LEMMA RefereePlays ==
  ASSUME MatchInv, runner.pc \in {"turn", "move"}, NEW m \in Moves[runner.board],
         runner' = Played(m)
  PROVE  RefereeOfGame!Ply /\ StartInv'
<1> DEFINE p == runner.board
<1>1. runner \in Runners /\ runner.error = "none" /\ p \in Positions
  BY DEF MatchInv, RunnerInv, GamePcs, Runners
<1>2. runner' = [runner EXCEPT !.pc = "turn", !.board = Play[p][m], !.turn = @ + 1,
                               !.moves = Append(@, m)]
  BY DEF Played
<1>3. runner'.pc = "turn" /\ runner'.board = Play[p][m] /\ runner'.error = "none"
  BY <1>1, <1>2 DEF Runners
<1>4. Outcome = "none" /\ Outcome' = "none"
  BY <1>1, <1>3 DEF Outcome
<1>5. Play[p][m] \in RefereeOfGame!PlyOf(p)
  BY DEF RefereeOfGame!PlyOf
<1> QED
  BY <1>3, <1>4, <1>5 DEF RefereeOfGame!Ply, StartInv, Starting

\* A game is broken off only while a move can be played.
LEMMA RefereeBreaks ==
  ASSUME MatchInv, StartInv,
         Starting(runner) \/ Moves[runner.board] # {},
         runner.error = "none", runner.pc \notin {"finish", "done"},
         NEW reason \in Faulty \cup Wrong, runner' = Break(reason)
  PROVE  RefereeOfGame!BreakOff /\ StartInv'
<1>1. runner \in Runners
  BY DEF MatchInv, RunnerInv
<1>2. runner'.pc = "finish" /\ runner'.board = runner.board /\ runner'.error = reason
  BY <1>1 DEF Break, Runners
<1>3. reason # "none"
  BY DEF Faulty, Wrong
<1>4. Outcome = "none" /\ Outcome' = "broken"
  BY <1>2, <1>3 DEF Outcome
<1>5. ~Terminal(runner.board)
  BY DEF StartInv, Terminal
<1>6. ~RefereeOfGame!Terminal(runner.board)
  BY <1>5 DEF RefereeOfGame!Terminal, Terminal
<1> QED
  BY <1>2, <1>4, <1>6 DEF RefereeOfGame!BreakOff, StartInv, Starting

\* A step that is none of the game's.
LEMMA RefereeWaits ==
  ASSUME StartInv, runner'.board = runner.board, runner'.error = runner.error,
         runner'.pc \in {"finish", "done"} <=> runner.pc \in {"finish", "done"},
         Starting(runner') => Starting(runner)
  PROVE  UNCHANGED <<runner.board, Outcome>> /\ StartInv'
BY DEF Outcome, StartInv

LEMMA RefereeStep ==
  ASSUME MatchInv, StartInv, Next
  PROVE  /\ RefereeOfGame!Next \/ UNCHANGED <<runner.board, Outcome>>
         /\ StartInv'
<1>1. RunnerInv(runner) /\ RunnerInv(runner') /\ runner \in Runners /\ runner' \in Runners
  BY RunnerKeeps DEF MatchInv, RunnerInv
<1>2. CASE AllStarted
  <2>1. runner' = [runner EXCEPT !.pc = "turn"] /\ runner.pc = "start"
    BY <1>2 DEF AllStarted
  <2>2. runner'.pc = "turn" /\ runner'.board = runner.board /\ runner'.error = runner.error
    BY <1>1, <2>1 DEF Runners
  <2> QED
    BY <2>1, <2>2, RefereeWaits DEF Starting
<1>3. CASE StartEngine
  <2>1. /\ runner.pc = "start"
        /\ runner' = [runner EXCEPT !.pc = "send", !.peer = FirstOf(Unstarted),
                                    !.next = "start", !.todo = <<[kind |-> "nboard"]>>]
    BY <1>3 DEF StartEngine
  <2>2. runner'.pc = "send" /\ runner'.board = runner.board /\ runner'.error = runner.error
    BY <1>1, <2>1 DEF Runners
  <2>3. Starting(runner)
    BY <2>1 DEF Starting
  <2> QED
    BY <2>1, <2>2, <2>3, RefereeWaits
<1>4. CASE StartFails
  <2>1. runner.pc = "start" /\ runner' = Break("not started")
    BY <1>4 DEF StartFails
  <2>2. runner.error = "none"
    BY <1>1, <2>1 DEF RunnerInv, GamePcs
  <2> QED
    BY <2>1, <2>2, RefereeBreaks DEF Starting, Faulty, RefereeOfGame!Next
<1>5. CASE LoopEnds
  <2>1. runner.pc = "turn" /\ Terminal(runner.board) /\ runner' = [runner EXCEPT !.pc = "finish"]
    <3> SUFFICES ASSUME ~Terminal(runner.board)
                 PROVE  FALSE
      BY <1>5 DEF LoopEnds
    <3>1. runner' = Break("maximum turn count exceeded")
      BY <1>5 DEF LoopEnds
    <3>2. runner'.error = "maximum turn count exceeded"
      BY <1>1, <3>1 DEF Break, Runners
    <3>3. runner'.error \in {"none"} \cup Faulty \cup Wrong
      BY <1>1 DEF Runners
    <3> QED
      BY <3>2, <3>3 DEF Faulty, Wrong
  <2>2. runner'.pc = "finish" /\ runner'.board = runner.board /\ runner'.error = runner.error
    BY <1>1, <2>1 DEF Runners
  <2>3. runner.error = "none"
    BY <1>1, <2>1 DEF RunnerInv, GamePcs
  <2>4. Outcome = "none" /\ Outcome' = "over"
    BY <2>1, <2>2, <2>3 DEF Outcome
  <2>5. RefereeOfGame!Terminal(runner.board)
    BY <2>1 DEF RefereeOfGame!Terminal, Terminal
  <2>6. RefereeOfGame!GameOver
    BY <2>2, <2>4, <2>5 DEF RefereeOfGame!GameOver
  <2>7. StartInv'
    BY <2>2 DEF StartInv, Starting
  <2> QED
    BY <2>6, <2>7 DEF RefereeOfGame!Next
<1>6. CASE ForcedPass
  <2>1. /\ runner.pc = "turn" /\ Moves[runner.board] = {} /\ ~Terminal(runner.board)
        /\ runner' = [runner EXCEPT !.board = Pass[runner.board], !.turn = @ + 1,
                                    !.moves = Append(@, PassToken)]
    BY <1>6 DEF ForcedPass, TurnBegins
  <2>2. /\ runner'.pc = "turn" /\ runner'.board = Pass[runner.board]
        /\ runner'.error = runner.error
    BY <1>1, <2>1 DEF Runners
  <2>3. runner.error = "none"
    BY <1>1, <2>1 DEF RunnerInv, GamePcs
  <2>4. Outcome = "none" /\ Outcome' = "none"
    BY <2>1, <2>2, <2>3 DEF Outcome
  <2>5. Pass[runner.board] \in RefereeOfGame!PlyOf(runner.board)
    BY <2>1 DEF RefereeOfGame!PlyOf, Terminal
  <2>6. RefereeOfGame!Ply
    BY <2>2, <2>4, <2>5 DEF RefereeOfGame!Ply
  <2>7. StartInv'
    BY <2>2 DEF StartInv, Starting
  <2> QED
    BY <2>6, <2>7 DEF RefereeOfGame!Next
<1>7. CASE InProcessMove
  <2>1. runner.pc = "turn" /\ \E m \in Moves[runner.board] : runner' = Played(m)
    BY <1>7 DEF InProcessMove, TurnBegins
  <2> QED
    BY <2>1, RefereePlays DEF RefereeOfGame!Next
<1>8. CASE AskEngine
  <2> DEFINE todo == <<[kind |-> "set game", moves |-> runner.moves],
                       [kind |-> "set depth", depth |-> AskedDepth],
                       [kind |-> "ping", id |-> 1]>>
  <2>1. /\ runner.pc = "turn"
        /\ runner' = [runner EXCEPT !.pc = "send", !.peer = SideToMove(runner.board),
                                    !.next = "pong", !.todo = todo]
    BY <1>8 DEF AskEngine, TurnBegins
  <2> HIDE DEF todo
  <2>2. /\ runner'.pc = "send" /\ runner'.next = "pong"
        /\ runner'.board = runner.board /\ runner'.error = runner.error
    BY <1>1, <2>1 DEF Runners
  <2> QED
    BY <2>1, <2>2, RefereeWaits DEF Starting
<1>9. CASE SendLine
  <2>1. runner.pc = "send" /\ runner.next \in {"start", "pong", "move"}
    BY <1>1, <1>9 DEF SendLine, Runners
  <2> DEFINE pc == IF Len(runner.todo) = 1 THEN runner.next ELSE "send"
  <2>2. pc = runner.next \/ pc = "send"
    OBVIOUS
  <2> HIDE DEF pc
  <2>3. \/ runner' = [runner EXCEPT !.todo = Tail(runner.todo), !.pc = pc]
        \/ runner' = [runner EXCEPT !.pc = "killed"]
    BY <1>9 DEF SendLine, Written, pc
  <2>4. /\ runner'.board = runner.board /\ runner'.error = runner.error
        /\ runner'.next = runner.next /\ runner'.pc \in {pc, "killed"}
    BY <1>1, <2>3 DEF Runners
  <2>5. Starting(runner') => Starting(runner)
    BY <2>1, <2>2, <2>4 DEF Starting
  <2> QED
    BY <2>1, <2>2, <2>4, <2>5, RefereeWaits
<1>10. CASE ReadPong
  <2>1. /\ runner.pc = "pong"
        /\ \/ runner' = [runner EXCEPT !.pc = "send", !.next = "move", !.todo = <<[kind |-> "go"]>>]
           \/ runner' = runner
    BY <1>10 DEF ReadPong
  <2>2. /\ runner'.board = runner.board /\ runner'.error = runner.error
        /\ runner'.pc = "pong" \/ (runner'.pc = "send" /\ runner'.next = "move")
    BY <1>1, <2>1 DEF Runners
  <2> QED
    BY <2>1, <2>2, RefereeWaits DEF Starting
<1>11. CASE ReadMove
  <2>1. /\ runner.pc = "move"
        /\ runner' = runner \/ \E t : runner' = Answered(t)
    BY <1>11 DEF ReadMove
  <2>2. Moves[runner.board] # {} /\ runner.error = "none"
    BY <1>1, <2>1 DEF RunnerInv, Goes, GamePcs
  <2>3. CASE runner' = runner
    BY <2>3, RefereeWaits
  <2>4. ASSUME NEW t, runner' = Answered(t)
        PROVE  /\ RefereeOfGame!Next
               /\ StartInv'
    <3>1. CASE AfterToken(runner.board, t) = {}
      <4>1. runner' = Break("illegal move")
        BY <2>4, <3>1 DEF Answered
      <4> QED
        BY <2>1, <2>2, <4>1, RefereeBreaks DEF Wrong, RefereeOfGame!Next
    <3>2. CASE AfterToken(runner.board, t) # {} /\ t = PassToken
      <4>1. runner' = Break("pass on a legal-move turn")
        BY <2>4, <3>2 DEF Answered
      <4> QED
        BY <2>1, <2>2, <4>1, RefereeBreaks DEF Wrong, RefereeOfGame!Next
    <3>3. CASE AfterToken(runner.board, t) # {} /\ t # PassToken
      <4>1. runner' = Played(t) /\ t \in Moves[runner.board]
        BY <2>4, <3>3 DEF Answered, AfterToken
      <4> QED
        BY <2>1, <4>1, RefereePlays DEF RefereeOfGame!Next
    <3> QED
      BY <3>1, <3>2, <3>3
  <2> QED
    BY <2>1, <2>3, <2>4
<1>12. CASE Timeout
  <2>1. runner.pc \in {"pong", "move"} /\ runner' = Break("timeout")
    BY <1>12 DEF Timeout
  <2>2. Moves[runner.board] # {} /\ runner.error = "none"
    BY <1>1, <2>1 DEF RunnerInv, Asks, Goes, GamePcs
  <2> QED
    BY <2>1, <2>2, RefereeBreaks DEF Faulty, RefereeOfGame!Next
<1>13. CASE Return
  <2>1. runner' = [runner EXCEPT !.pc = "done"] /\ runner.pc = "finish"
    BY <1>13 DEF Return
  <2>2. runner'.pc = "done" /\ runner'.board = runner.board /\ runner'.error = runner.error
    BY <1>1, <2>1 DEF Runners
  <2> QED
    BY <2>1, <2>2, RefereeWaits DEF Starting
<1>14. CASE \/ Close \/ \E s \in PlayerSides : Reap(s)
            \/ \E s \in PlayerSides :
                 EngineStep(s) \/ EngineHangs(s) \/ EngineCrashes(s) \/ EngineExits(s)
  <2>1. runner' = runner
    BY <1>14 DEF Close, Reap, EngineStep, EngineHangs, EngineCrashes, EngineExits
  <2> QED
    BY <2>1, RefereeWaits
<1> QED
  BY <1>2, <1>3, <1>4, <1>5, <1>6, <1>7, <1>8, <1>9, <1>10, <1>11, <1>12, <1>13, <1>14
     DEF Next, RunnerStep

\* A game record is a game played by the rules from its opening: whatever the
\* engines answer and however they fail, the runner makes only legal plies,
\* calls a game over only when neither side can move, and breaks off only a
\* game that can go on; after that it touches the game no more.
THEOREM GamesAreByTheRules ==
  ASSUME OpeningsGoOn
  PROVE  Spec => PlayedByTheRules
<1>1. Init => RefereeOfGame!Init /\ StartInv
  <2> SUFFICES ASSUME Init
               PROVE  RefereeOfGame!Init /\ StartInv
    OBVIOUS
  <2>1. \E o \in Openings : \E p \in OpeningBoard(o) :
          /\ runner.pc = "start" /\ runner.board = p /\ runner.error = "none"
    BY DEF Init
  <2>2. PICK o \in Openings : \E p \in OpeningBoard(o) :
          /\ runner.pc = "start" /\ runner.board = p /\ runner.error = "none"
    BY <2>1
  <2>3. runner.pc = "start" /\ runner.error = "none" /\ runner.board \in OpeningBoard(o)
    BY <2>2
  <2>4. Outcome = "none"
    BY <2>3 DEF Outcome
  <2>5. ~Terminal(runner.board)
    BY <2>3 DEF OpeningsGoOn
  <2> QED
    BY <2>3, <2>4, <2>5 DEF RefereeOfGame!Init, StartInv
<1>2. MatchInv /\ StartInv /\ [Next]_vars =>
        StartInv' /\ [RefereeOfGame!Next]_<<runner.board, Outcome>>
  <2>1. MatchInv /\ StartInv /\ Next =>
          StartInv' /\ [RefereeOfGame!Next]_<<runner.board, Outcome>>
    BY RefereeStep
  <2>2. StartInv /\ UNCHANGED vars => StartInv' /\ UNCHANGED <<runner.board, Outcome>>
    BY DEF StartInv, Starting, Outcome, vars
  <2> QED
    BY <2>1, <2>2
<1>3. Spec => []MatchInv
  BY MatchInvariant
<1> QED
  BY <1>1, <1>2, <1>3, PTL DEF Spec, PlayedByTheRules, RefereeOfGame!Spec

(***************************************************************************)
(* The conversation.                                                       *)
(***************************************************************************)
NboardLine == [kind |-> "nboard"]
GameLine(r) == [kind |-> "set game", moves |-> r.moves]
DepthLine == [kind |-> "set depth", depth |-> AskedDepth]
PingLine == [kind |-> "ping", id |-> 1]
GoLine == [kind |-> "go"]
FeatureLine == [kind |-> "feature"]
PongLine == [kind |-> "pong", id |-> 1]
AnswerLine(t) == [kind |-> "===", token |-> t]

Ready(e, r) == e.board = r.board /\ e.depth = AskedDepth

(***************************************************************************)
(* What may be under way between a runner r and an engine in the state e:  *)
(* p, the lines the engine has yet to read, sent or not, and f, the lines  *)
(* the runner has yet to read.                                             *)
(***************************************************************************)

\* Between two turns, nothing but what the start of the engine left.
Quiet(p, f) ==
  \/ p = << >> /\ f \in {<< >>, <<FeatureLine>>}
  \/ p = <<NboardLine>> /\ f = << >>

\* The position is on its way, or the pong that says it has arrived.
Asked(p, f, e, r) ==
  \/ p = <<NboardLine, GameLine(r), DepthLine, PingLine>> /\ f = << >>
  \/ p = <<GameLine(r), DepthLine, PingLine>> /\ f \in {<< >>, <<FeatureLine>>}
  \/ p = <<DepthLine, PingLine>> /\ f \in {<< >>, <<FeatureLine>>} /\ e.board = r.board
  \/ p = <<PingLine>> /\ f \in {<< >>, <<FeatureLine>>} /\ Ready(e, r)
  \/ p = << >> /\ f \in {<<PongLine>>, <<FeatureLine, PongLine>>} /\ Ready(e, r)

\* The question is on its way, or the one answer.
Going(p, f, e, r) ==
  /\ Ready(e, r)
  /\ \/ p = <<GoLine>> /\ f = << >>
     \/ p = << >> /\ \E t \in Moves[r.board] : f = <<AnswerLine(t)>>

Pending(s) == IF s = runner.peer THEN toEngine[s] \o runner.todo ELSE toEngine[s]

Talk(s) ==
  IF s = runner.peer /\ Asks(runner)
  THEN Asked(Pending(s), fromEngine[s], engine[s].state, runner)
  ELSE IF s = runner.peer /\ Goes(runner)
       THEN Going(Pending(s), fromEngine[s], engine[s].state, runner)
       ELSE Quiet(Pending(s), fromEngine[s])

TalkInv ==
  /\ Replay(runner.moves) = {runner.board}
  /\ runner.error \in {"none"} \cup Faulty
  /\ runner.pc \in GamePcs => \A s \in PlayerSides : Talk(s)

LEMMA LineKinds ==
  /\ NboardLine.kind = "nboard" /\ DepthLine.kind = "set depth" /\ DepthLine.depth = AskedDepth
  /\ PingLine.kind = "ping" /\ PingLine.id = 1 /\ GoLine.kind = "go"
  /\ FeatureLine.kind = "feature" /\ PongLine.kind = "pong" /\ PongLine.id = 1
  /\ \A r : GameLine(r).kind = "set game" /\ GameLine(r).moves = r.moves
  /\ \A t : AnswerLine(t).kind = "===" /\ AnswerLine(t).token = t
BY DEF NboardLine, DepthLine, PingLine, GoLine, FeatureLine, PongLine, GameLine, AnswerLine

LEMMA OneAfterNone ==
  /\ << >> \o << >> = << >>
  /\ \A a : << >> \o <<a>> = <<a>> /\ <<a>> \o << >> = <<a>>
  /\ \A a, b, c : << >> \o <<a, b, c>> = <<a, b, c>>
<1>1. << >> \o << >> = << >>
  <2>1. << >> \in Seq({1})
    OBVIOUS
  <2> QED
    BY <2>1, ConcatEmptySeq
<1>2. \A a : << >> \o <<a>> = <<a>> /\ <<a>> \o << >> = <<a>>
  <2> TAKE a
  <2>1. <<a>> \in Seq({a})
    OBVIOUS
  <2> QED
    BY <2>1, ConcatEmptySeq
<1>3. \A a, b, c : << >> \o <<a, b, c>> = <<a, b, c>>
  <2> TAKE a, b, c
  <2>1. <<a, b, c>> \in Seq({a, b, c})
    OBVIOUS
  <2> QED
    BY <2>1, ConcatEmptySeq
<1> QED
  BY <1>1, <1>2, <1>3

(***************************************************************************)
(* What an engine makes of each line.                                      *)
(***************************************************************************)
LEMMA ReadsNboard ==
  ASSUME NEW e, NEW h \in Handled(e, NboardLine)
  PROVE  h.engine = e /\ h.reply = <<FeatureLine>>
<1>1. Handled(e, NboardLine) = {[engine |-> e, reply |-> <<FeatureLine>>]}
  BY LineKinds DEF Handled, FeatureLine
<1> QED
  BY <1>1

LEMMA ReadsPing ==
  ASSUME NEW e, NEW h \in Handled(e, PingLine)
  PROVE  h.engine = e /\ h.reply = <<PongLine>>
<1>1. Handled(e, PingLine) = {[engine |-> e, reply |-> <<PongLine>>]}
  BY LineKinds DEF Handled, PongLine
<1> QED
  BY <1>1

LEMMA ReadsDepth ==
  ASSUME NEW e, e \in Engines, NEW h \in Handled(e, DepthLine)
  PROVE  h.engine.board = e.board /\ h.engine.depth = AskedDepth /\ h.reply = << >>
<1>1. Handled(e, DepthLine) = SetDepth(e, AskedDepth)
  BY LineKinds DEF Handled
<1>2. AskedDepth > 0
  BY MatchAssumption
<1>3. h = [engine |-> [e EXCEPT !.depth = AskedDepth], reply |-> << >>]
  BY <1>1, <1>2 DEF SetDepth, Silent
<1>4. h.engine = [e EXCEPT !.depth = AskedDepth] /\ h.reply = << >>
  BY <1>3
<1> QED
  BY <1>4 DEF Engines

LEMMA ReadsGame ==
  ASSUME NEW e, e \in Engines, NEW r, Replay(r.moves) = {r.board},
         NEW h \in Handled(e, GameLine(r))
  PROVE  h.engine.board = r.board /\ h.reply = << >>
<1>1. Handled(e, GameLine(r)) = SetGame(e, r.moves)
  BY LineKinds DEF Handled
<1> DEFINE p == CHOOSE q \in Replay(r.moves) : TRUE
           session == IF IsSameGameExtension(e.moves, r.moves) THEN e.session ELSE {}
           g == [e EXCEPT !.board = p, !.moves = r.moves, !.session = session]
<1>2. p = r.board /\ Replay(r.moves) # {}
  BY Zenon
<1>3. SetGame(e, r.moves) = {[engine |-> g, reply |-> << >>]}
  BY <1>2 DEF SetGame, Silent
<1> HIDE DEF p, session
<1>4. h.engine = g /\ h.reply = << >>
  BY <1>1, <1>3
<1>5. g.board = p
  BY DEF Engines
<1> QED
  BY <1>2, <1>4, <1>5

LEMMA ReadsGo ==
  ASSUME NEW e, e \in Engines, Moves[e.board] # {}, NEW h \in Handled(e, GoLine)
  PROVE  /\ h.engine.board = e.board /\ h.engine.depth = e.depth
         /\ \E t \in Moves[e.board] : h.reply = <<AnswerLine(t)>>
<1>1. Handled(e, GoLine) = Go(e)
  BY LineKinds DEF Handled
<1> DEFINE g == [e EXCEPT !.session = @ \cup {e.board}]
<1>2. PICK t \in Moves[e.board] : h = [engine |-> g, reply |-> <<[kind |-> "===", token |-> t]>>]
  BY <1>1 DEF Go
<1>3. g.board = e.board /\ g.depth = e.depth
  BY DEF Engines
<1>4. h.engine = g /\ h.reply = <<AnswerLine(t)>>
  BY <1>2 DEF AnswerLine
<1> QED
  BY <1>3, <1>4

(***************************************************************************)
(* An engine reads the next line.                                          *)
(***************************************************************************)
LEMMA QuietRead ==
  ASSUME NEW p, p # << >>, NEW f, Quiet(p, f), NEW e, NEW h \in Handled(e, Head(p))
  PROVE  Quiet(Tail(p), f \o h.reply)
<1>1. p = <<NboardLine>> /\ f = << >>
  BY DEF Quiet
<1>2. Head(p) = NboardLine /\ Tail(p) = << >>
  BY <1>1, Tuples
<1>3. h.reply = <<FeatureLine>>
  BY <1>2, ReadsNboard
<1>4. f \o h.reply = <<FeatureLine>>
  BY <1>1, <1>3, OneAfterNone
<1> QED
  BY <1>2, <1>4 DEF Quiet

LEMMA AskedRead ==
  ASSUME NEW p, p # << >>, NEW f, NEW e \in Engines,
         NEW r, Replay(r.moves) = {r.board}, Asked(p, f, e, r), NEW h \in Handled(e, Head(p))
  PROVE  Asked(Tail(p), f \o h.reply, h.engine, r)
<1> DEFINE g == f \o h.reply
<1>1. CASE p = <<NboardLine, GameLine(r), DepthLine, PingLine>> /\ f = << >>
  <2>1. Head(p) = NboardLine /\ Tail(p) = <<GameLine(r), DepthLine, PingLine>>
    BY <1>1, Tuples
  <2>2. h.reply = <<FeatureLine>>
    BY <2>1, ReadsNboard
  <2>3. g = <<FeatureLine>>
    BY <1>1, <2>2, OneAfterNone
  <2> QED
    BY <2>1, <2>3 DEF Asked
<1>2. ASSUME f \in {<< >>, <<FeatureLine>>}, h.reply = << >>
      PROVE  g \in {<< >>, <<FeatureLine>>}
  <2>1. f \o << >> = f
    BY <1>2, OneAfterNone
  <2> QED
    BY <1>2, <2>1
<1>3. CASE p = <<GameLine(r), DepthLine, PingLine>> /\ f \in {<< >>, <<FeatureLine>>}
  <2>1. Head(p) = GameLine(r) /\ Tail(p) = <<DepthLine, PingLine>>
    BY <1>3, Tuples
  <2>2. h.engine.board = r.board /\ h.reply = << >>
    BY <2>1, ReadsGame
  <2>3. g \in {<< >>, <<FeatureLine>>}
    BY <1>2, <1>3, <2>2
  <2> HIDE DEF g
  <2>4. Asked(Tail(p), g, h.engine, r)
    BY <2>1, <2>2, <2>3 DEF Asked
  <2> QED
    BY <2>4 DEF g
<1>4. CASE p = <<DepthLine, PingLine>> /\ f \in {<< >>, <<FeatureLine>>} /\ e.board = r.board
  <2>1. Head(p) = DepthLine /\ Tail(p) = <<PingLine>>
    BY <1>4, Tuples
  <2>2. h.engine.board = e.board /\ h.engine.depth = AskedDepth /\ h.reply = << >>
    BY <2>1, ReadsDepth
  <2>3. g \in {<< >>, <<FeatureLine>>} /\ Ready(h.engine, r)
    BY <1>2, <1>4, <2>2 DEF Ready
  <2> HIDE DEF g
  <2>4. Asked(Tail(p), g, h.engine, r)
    BY <2>1, <2>3 DEF Asked
  <2> QED
    BY <2>4 DEF g
<1>5. CASE p = <<PingLine>> /\ f \in {<< >>, <<FeatureLine>>} /\ Ready(e, r)
  <2>1. Head(p) = PingLine /\ Tail(p) = << >>
    BY <1>5, Tuples
  <2>2. h.engine = e /\ h.reply = <<PongLine>>
    BY <2>1, ReadsPing
  <2>3. << >> \o <<PongLine>> = <<PongLine>>
    BY OneAfterNone
  <2>4. <<FeatureLine>> \o <<PongLine>> = <<FeatureLine, PongLine>>
    BY JoinedPair
  <2>5. g \in {<<PongLine>>, <<FeatureLine, PongLine>>}
    BY <1>5, <2>2, <2>3, <2>4
  <2> HIDE DEF g
  <2>6. Asked(Tail(p), g, h.engine, r)
    BY <1>5, <2>1, <2>2, <2>5 DEF Asked
  <2> QED
    BY <2>6 DEF g
<1> QED
  BY <1>1, <1>3, <1>4, <1>5 DEF Asked

LEMMA GoingRead ==
  ASSUME NEW p, p # << >>, NEW f, NEW e \in Engines,
         NEW r, Moves[r.board] # {}, Going(p, f, e, r), NEW h \in Handled(e, Head(p))
  PROVE  Going(Tail(p), f \o h.reply, h.engine, r)
<1>1. p = <<GoLine>> /\ f = << >> /\ Ready(e, r)
  BY DEF Going
<1>2. Head(p) = GoLine /\ Tail(p) = << >>
  BY <1>1, Tuples
<1>3. e.board = r.board /\ e.depth = AskedDepth
  BY <1>1 DEF Ready
<1>4. PICK t \in Moves[r.board] : h.reply = <<AnswerLine(t)>>
  BY <1>2, <1>3, ReadsGo
<1>5. h.engine.board = e.board /\ h.engine.depth = e.depth
  BY <1>2, <1>3, ReadsGo
<1>6. f \o h.reply = <<AnswerLine(t)>>
  BY <1>1, <1>4, OneAfterNone
<1>7. Ready(h.engine, r)
  BY <1>3, <1>5 DEF Ready
<1> QED
  BY <1>2, <1>6, <1>7 DEF Going

LEMMA EngineStepTalks ==
  ASSUME MatchInv, TalkInv, NEW s \in PlayerSides, EngineStep(s)
  PROVE  TalkInv'
<1>1. runner' = runner
  BY DEF EngineStep
<1>2. Replay(runner.moves) = {runner.board} /\ runner.error \in {"none"} \cup Faulty
  BY DEF TalkInv
<1> SUFFICES ASSUME runner.pc \in GamePcs, NEW t \in PlayerSides
             PROVE  Talk(t)'
  BY <1>1, <1>2 DEF TalkInv
<1>3. Talk(t)
  BY DEF TalkInv
<1>4. /\ t # s => /\ engine'[t] = engine[t]
                  /\ toEngine'[t] = toEngine[t]
                  /\ fromEngine'[t] = fromEngine[t]
      /\ toEngine[s] # << >> /\ toEngine'[s] = Tail(toEngine[s])
  BY StepKeepsPipes
<1>5. CASE t # s
  <2>1. Pending(t)' = Pending(t)
    BY <1>1, <1>4, <1>5 DEF Pending
  <2> HIDE DEF Pending
  <2> QED
    BY <1>1, <1>3, <1>4, <1>5, <2>1 DEF Talk
<1>6. CASE t = s
  <2>1. PICK h \in Handled(engine[s].state, Head(toEngine[s])) :
             /\ engine'[s].state = h.engine
             /\ fromEngine'[s] = fromEngine[s] \o h.reply
    BY StepKeepsPipes
  <2>2. toEngine[s] \in Seq(Requests) /\ runner.todo \in Seq(Requests) /\ engine[s].state \in Engines
    BY DEF MatchInv, PipesInv, RunnerInv, Runners, EngineInv
  <2>3. /\ Pending(s)' = Tail(Pending(s)) /\ Pending(s) # << >>
        /\ Head(toEngine[s]) = Head(Pending(s))
    <3>1. CASE s = runner.peer
      <4> DEFINE a == toEngine[s]
                 b == runner.todo
      <4>3. a \in Seq(Requests) /\ b \in Seq(Requests) /\ a # << >>
        BY <1>4, <2>2
      <4> HIDE DEF a, b
      <4>4. Tail(a) \o b = Tail(a \o b) /\ Head(a) = Head(a \o b) /\ a \o b # << >>
        BY <4>3, PendingRead
      <4>1. /\ Tail(toEngine[s]) \o runner.todo = Tail(toEngine[s] \o runner.todo)
            /\ Head(toEngine[s]) = Head(toEngine[s] \o runner.todo)
            /\ toEngine[s] \o runner.todo # << >>
        BY <4>4 DEF a, b
      <4>2. /\ Pending(s) = toEngine[s] \o runner.todo
            /\ Pending(s)' = Tail(toEngine[s]) \o runner.todo
        BY <1>1, <1>4, <3>1 DEF Pending
      <4> QED
        BY <4>1, <4>2
    <3>2. CASE s # runner.peer
      BY <1>1, <1>4, <3>2 DEF Pending
    <3> QED
      BY <3>1, <3>2
  <2> DEFINE p == Pending(s)
             f == fromEngine[s]
             e == engine[s].state
  <2> HIDE DEF Pending
  <2>4. h \in Handled(e, Head(p))
    BY <2>1, <2>3
  <2>5. CASE s = runner.peer /\ Asks(runner)
    <3>1. Asked(p, f, e, runner)
      BY <1>3, <1>6, <2>5 DEF Talk
    <3>2. Asked(Tail(p), f \o h.reply, h.engine, runner)
      <4> HIDE DEF p, f, e
      <4> QED
        BY <1>2, <2>2, <2>3, <2>4, <3>1, AskedRead DEF p, e
    <3> QED
      BY <1>1, <1>6, <2>1, <2>3, <2>5, <3>2 DEF Talk
  <2>6. CASE s = runner.peer /\ ~Asks(runner) /\ Goes(runner)
    <3>1. Going(p, f, e, runner)
      BY <1>3, <1>6, <2>6 DEF Talk
    <3>2. Moves[runner.board] # {}
      BY <2>6 DEF MatchInv, RunnerInv
    <3>3. Going(Tail(p), f \o h.reply, h.engine, runner)
      <4> HIDE DEF p, f, e
      <4> QED
        BY <2>2, <2>3, <2>4, <3>1, <3>2, GoingRead DEF p, e
    <3> QED
      BY <1>1, <1>6, <2>1, <2>3, <2>6, <3>3 DEF Talk
  <2>7. CASE s # runner.peer \/ (~Asks(runner) /\ ~Goes(runner))
    <3>1. Quiet(p, f)
      BY <1>3, <1>6, <2>7 DEF Talk
    <3>2. Quiet(Tail(p), f \o h.reply)
      <4> HIDE DEF p, f, e
      <4> QED
        BY <2>3, <2>4, <3>1, QuietRead DEF p
    <3> QED
      BY <1>1, <1>6, <2>1, <2>3, <2>7, <3>2 DEF Talk
  <2> QED
    BY <2>5, <2>6, <2>7
<1> QED
  BY <1>5, <1>6

(***************************************************************************)
(* The runner talks.                                                       *)
(***************************************************************************)

\* Once the game is over or lost, the conversation matters no more.
LEMMA EndTalks ==
  ASSUME TalkInv, runner'.pc \notin GamePcs,
         runner'.moves = runner.moves, runner'.board = runner.board,
         runner'.error \in {"none"} \cup Faulty
  PROVE  TalkInv'
BY DEF TalkInv

LEMMA StartTalks ==
  ASSUME MatchInv, TalkInv, StartEngine
  PROVE  TalkInv'
<1> DEFINE s == FirstOf(Unstarted)
           todo == <<NboardLine>>
<1>1. s \in Unstarted /\ s \in PlayerSides
  <2>1. Unstarted \in SUBSET PlayerSides /\ Unstarted # {}
    BY DEF MatchInv, RunnerInv, Runners, StartEngine, Unstarted
  <2> QED
    BY <2>1, SidesAre
<1>2. /\ runner.pc = "start" /\ runner \in Runners /\ runner.todo = << >>
      /\ PipesInv /\ SideInv(s)
  BY <1>1 DEF StartEngine, MatchInv, RunnerInv
<1>3. /\ runner' = [runner EXCEPT !.pc = "send", !.peer = s, !.next = "start", !.todo = todo]
      /\ engine' = [engine EXCEPT ![s].status = "live"]
      /\ UNCHANGED <<toEngine, fromEngine>>
  BY DEF StartEngine, NboardLine
<1>4. client[s] = "new"
  BY <1>1 DEF Unstarted
<1>5. toEngine[s] = << >> /\ fromEngine[s] = << >>
  BY <1>2, <1>4 DEF SideInv
<1> HIDE DEF s, todo
<1>6. /\ runner'.pc = "send" /\ runner'.peer = s /\ runner'.next = "start"
      /\ runner'.todo = todo /\ runner'.board = runner.board
      /\ runner'.moves = runner.moves /\ runner'.error = runner.error
  BY <1>2, <1>3 DEF Runners
<1>7. ~Asks(runner) /\ ~Goes(runner) /\ ~Asks(runner)' /\ ~Goes(runner)'
  BY <1>2, <1>6 DEF Asks, Goes
<1>8. ASSUME NEW t \in PlayerSides
      PROVE  Talk(t)'
  <2>1. CASE t = s
    <3>1. Pending(t)' = << >> \o todo
      BY <1>3, <1>5, <1>6, <2>1 DEF Pending
    <3>2. Pending(t)' = <<NboardLine>>
      BY <3>1, OneAfterNone DEF todo
    <3>3. fromEngine'[t] = << >>
      BY <1>3, <1>5, <2>1
    <3> QED
      BY <1>7, <3>2, <3>3 DEF Talk, Quiet
  <2>2. CASE t # s
    <3>1. Quiet(Pending(t), fromEngine[t])
      BY <1>2, <1>7 DEF TalkInv, GamePcs, Talk
    <3>2. toEngine[t] \in Seq(Requests)
      BY <1>2 DEF PipesInv
    <3>3. toEngine[t] \o runner.todo = toEngine[t]
      BY <1>2, <3>2, ConcatEmptySeq
    <3>4. Pending(t) = toEngine[t]
      BY <3>3 DEF Pending
    <3>5. Pending(t)' = toEngine[t]
      BY <1>3, <1>6, <2>2 DEF Pending
    <3> QED
      BY <1>3, <1>7, <3>1, <3>4, <3>5 DEF Talk
  <2> QED
    BY <2>1, <2>2
<1> QED
  BY <1>6, <1>8 DEF TalkInv

\* What the runner does between the turns leaves the conversation alone.
LEMMA TurnTalks ==
  ASSUME MatchInv, TalkInv, runner.pc \in {"start", "turn"}, runner'.pc = "turn",
         runner'.peer = runner.peer, runner'.todo = runner.todo, runner'.error = runner.error,
         Replay(runner'.moves) = {runner'.board},
         UNCHANGED <<engine, toEngine, fromEngine>>
  PROVE  TalkInv'
<1>1. ~Asks(runner) /\ ~Goes(runner) /\ ~Asks(runner)' /\ ~Goes(runner)'
  BY DEF Asks, Goes
<1>2. \A t \in PlayerSides : Talk(t)'
  <2> TAKE t \in PlayerSides
  <2>1. Quiet(Pending(t), fromEngine[t])
    BY <1>1 DEF TalkInv, GamePcs, Talk
  <2>2. Pending(t)' = Pending(t)
    BY DEF Pending
  <2> HIDE DEF Pending
  <2> QED
    BY <1>1, <2>1, <2>2 DEF Talk
<1> QED
  BY <1>2 DEF TalkInv

\* A ply is made, and written down.
LEMMA PlyLeads ==
  ASSUME MatchInv, TalkInv, NEW t \in Tokens, NEW p, AfterToken(runner.board, t) = {p}
  PROVE  Replay(Append(runner.moves, t)) = {p}
<1>1. runner.moves \in Seq(Tokens) /\ Replay(runner.moves) = {runner.board}
  BY DEF MatchInv, RunnerInv, Runners, TalkInv
<1>2. Replay(Append(runner.moves, t)) = UNION { AfterToken(q, t) : q \in {runner.board} }
  BY <1>1, ReplayAppend
<1> QED
  BY <1>2

LEMMA AskTalks ==
  ASSUME MatchInv, TalkInv, AskEngine
  PROVE  TalkInv'
<1> DEFINE s == SideToMove(runner.board)
           todo == <<GameLine(runner), DepthLine, PingLine>>
<1>1. /\ runner.pc = "turn" /\ runner \in Runners /\ runner.todo = << >> /\ PipesInv
  BY DEF MatchInv, RunnerInv, AskEngine, TurnBegins
<1>2. /\ runner' = [runner EXCEPT !.pc = "send", !.peer = s, !.next = "pong", !.todo = todo]
      /\ UNCHANGED <<engine, toEngine, fromEngine>>
  BY DEF AskEngine, GameLine, DepthLine, PingLine
<1>3. s \in PlayerSides
  BY SidesAre
<1> HIDE DEF s, todo
<1>4. /\ runner'.pc = "send" /\ runner'.peer = s /\ runner'.next = "pong"
      /\ runner'.todo = todo /\ runner'.board = runner.board
      /\ runner'.moves = runner.moves /\ runner'.error = runner.error
  BY <1>1, <1>2 DEF Runners
<1>5. ~Asks(runner) /\ ~Goes(runner) /\ Asks(runner)' /\ ~Goes(runner)'
  BY <1>1, <1>4 DEF Asks, Goes
<1>6. GameLine(runner)' = GameLine(runner)
  BY <1>4 DEF GameLine
<1>7. ASSUME NEW t \in PlayerSides
      PROVE  Talk(t)'
  <2>1. Quiet(Pending(t), fromEngine[t])
    BY <1>1, <1>5 DEF TalkInv, GamePcs, Talk
  <2>2. toEngine[t] \in Seq(Requests)
    BY <1>1 DEF PipesInv
  <2>3. toEngine[t] \o runner.todo = toEngine[t]
    BY <1>1, <2>2, ConcatEmptySeq
  <2>4. Quiet(toEngine[t], fromEngine[t])
    BY <2>1, <2>3 DEF Pending
  <2>5. CASE t = s
    <3>1. Pending(t)' = toEngine[t] \o todo
      BY <1>2, <1>4, <2>5 DEF Pending
    <3>2. CASE toEngine[t] = << >> /\ fromEngine[t] \in {<< >>, <<FeatureLine>>}
      <4>1. Pending(t)' = <<GameLine(runner), DepthLine, PingLine>>
        BY <3>1, <3>2, OneAfterNone DEF todo
      <4>2. Asked(Pending(t)', fromEngine'[t], engine'[t].state, runner')
        BY <1>2, <1>6, <3>2, <4>1 DEF Asked
      <4> QED
        BY <1>4, <1>5, <2>5, <4>2 DEF Talk
    <3>3. CASE toEngine[t] = <<NboardLine>> /\ fromEngine[t] = << >>
      <4>1. Pending(t)' = <<NboardLine, GameLine(runner), DepthLine, PingLine>>
        BY <3>1, <3>3, JoinedFour DEF todo
      <4>2. Asked(Pending(t)', fromEngine'[t], engine'[t].state, runner')
        BY <1>2, <1>6, <3>3, <4>1 DEF Asked
      <4> QED
        BY <1>4, <1>5, <2>5, <4>2 DEF Talk
    <3> QED
      BY <2>4, <3>2, <3>3 DEF Quiet
  <2>6. CASE t # s
    <3>1. Pending(t)' = toEngine[t]
      BY <1>2, <1>4, <2>6 DEF Pending
    <3> QED
      BY <1>2, <1>4, <2>4, <2>6, <3>1 DEF Talk
  <2> QED
    BY <2>5, <2>6
<1> QED
  BY <1>4, <1>7 DEF TalkInv

\* Sending a line moves it, in order, from what is to be sent to the pipe.
LEMMA SendTalks ==
  ASSUME MatchInv, TalkInv, SendLine
  PROVE  TalkInv'
<1> DEFINE s == runner.peer
<1>1. /\ runner.pc = "send" /\ runner \in Runners /\ PipesInv
      /\ runner.next \in {"start", "pong", "move"}
  BY DEF MatchInv, RunnerInv, Runners, SendLine
<1>2. /\ UNCHANGED <<client, engine, fromEngine>>
      /\ s \in PlayerSides /\ runner.todo \in Seq(Requests) /\ runner.todo # << >>
      /\ \A t \in PlayerSides : t # s => toEngine'[t] = toEngine[t]
      /\ Running(s) => toEngine'[s] = Append(toEngine[s], Head(runner.todo))
  BY SendKeepsPipes
<1>3. CASE ~Running(s)
  <2>1. runner' = [runner EXCEPT !.pc = "killed"]
    BY <1>3 DEF SendLine, Written
  <2>2. /\ runner'.pc = "killed" /\ runner'.moves = runner.moves
        /\ runner'.board = runner.board /\ runner'.error = runner.error
    BY <1>1, <2>1 DEF Runners
  <2> QED
    BY <2>2, EndTalks DEF TalkInv, GamePcs
<1>4. CASE Running(s)
  <2> DEFINE pc == IF Len(runner.todo) = 1 THEN runner.next ELSE "send"
             rest == Tail(runner.todo)
  <2>1. runner' = [runner EXCEPT !.todo = rest, !.pc = pc]
    BY <1>4 DEF SendLine, Written
  <2>2. pc \in {runner.next, "send"}
    OBVIOUS
  <2> HIDE DEF pc
  <2>3. /\ runner'.pc = pc /\ runner'.todo = rest /\ runner'.peer = s
        /\ runner'.next = runner.next /\ runner'.board = runner.board
        /\ runner'.moves = runner.moves /\ runner'.error = runner.error
    BY <1>1, <2>1 DEF Runners
  <2>4. (Asks(runner)' <=> Asks(runner)) /\ (Goes(runner)' <=> Goes(runner))
    BY <1>1, <2>2, <2>3 DEF Asks, Goes
  <2>5. ASSUME NEW t \in PlayerSides
        PROVE  Pending(t)' = Pending(t)
    <3>1. CASE t = s
      <4> DEFINE a == toEngine[s]
                 b == runner.todo
      <4>1. a \in Seq(Requests) /\ b \in Seq(Requests) /\ b # << >>
        BY <1>1, <1>2 DEF PipesInv
      <4> HIDE DEF a, b
      <4>2. Append(a, Head(b)) \o Tail(b) = a \o b
        BY <4>1, PendingSent
      <4>3. Append(toEngine[s], Head(runner.todo)) \o Tail(runner.todo) = toEngine[s] \o runner.todo
        BY <4>2 DEF a, b
      <4>4. toEngine'[s] = Append(toEngine[s], Head(runner.todo))
        BY <1>2, <1>4
      <4>5. Pending(t)' = Append(toEngine[s], Head(runner.todo)) \o Tail(runner.todo)
        BY <2>3, <3>1, <4>4 DEF Pending
      <4>6. Pending(t) = toEngine[s] \o runner.todo
        BY <3>1 DEF Pending
      <4> QED
        BY <3>1, <4>3, <4>5, <4>6
    <3>2. CASE t # s
      BY <1>2, <2>3, <3>2 DEF Pending
    <3> QED
      BY <3>1, <3>2
  <2>6. GameLine(runner)' = GameLine(runner)
    BY <2>3 DEF GameLine
  <2>7. ASSUME NEW t \in PlayerSides
        PROVE  Talk(t)'
    <3>1. Talk(t)
      BY <1>1 DEF TalkInv, GamePcs
    <3>2. Pending(t)' = Pending(t)
      BY <2>5
    <3> DEFINE p == Pending(t)
               f == fromEngine[t]
               e == engine[t].state
    <3> HIDE DEF Pending
    <3>3. Asked(p, f, e, runner') <=> Asked(p, f, e, runner)
      BY <2>3, <2>6 DEF Asked, Ready
    <3>4. Going(p, f, e, runner') <=> Going(p, f, e, runner)
      BY <2>3 DEF Going, Ready
    <3> QED
      BY <1>2, <2>3, <2>4, <3>1, <3>2, <3>3, <3>4 DEF Talk
  <2> QED
    BY <2>3, <2>7 DEF TalkInv
<1> QED
  BY <1>3, <1>4

\* What is read is read of the engine asked, and the others are quiet.
LEMMA PeerReads ==
  ASSUME MatchInv, TalkInv, ReadPong \/ ReadMove, NEW t \in PlayerSides, t # runner.peer,
         runner'.peer = runner.peer
  PROVE  Talk(t)'
<1>1. /\ UNCHANGED <<client, engine, toEngine>> /\ fromEngine'[t] = fromEngine[t]
      /\ runner.pc \in GamePcs
  BY ReadKeepsPipes DEF ReadPong, ReadMove, GamePcs
<1>2. Quiet(toEngine[t], fromEngine[t])
  BY <1>1 DEF TalkInv, Talk, Pending
<1> QED
  BY <1>1, <1>2 DEF Talk, Pending

LEMMA PongTalks ==
  ASSUME MatchInv, TalkInv, ReadPong
  PROVE  TalkInv'
<1> DEFINE s == runner.peer
           p == toEngine[s]
           f == fromEngine[s]
           e == engine[s].state
           todo == <<GoLine>>
<1>1. /\ runner.pc = "pong" /\ runner \in Runners /\ runner.todo = << >> /\ PipesInv
      /\ s \in PlayerSides
  BY DEF MatchInv, RunnerInv, ReadPong
<1>2. /\ UNCHANGED <<client, engine, toEngine>> /\ f # << >>
      /\ fromEngine'[s] = Tail(f)
  BY ReadKeepsPipes
<1>3. runner' = IF IsPong(Head(f))
                THEN [runner EXCEPT !.pc = "send", !.next = "move", !.todo = todo]
                ELSE runner
  BY DEF ReadPong, GoLine
<1>4. p \o runner.todo = p
  <2>1. p \in Seq(Requests)
    BY <1>1 DEF PipesInv
  <2> QED
    BY <1>1, <2>1, ConcatEmptySeq
<1>5. Pending(s) = p
  BY <1>4 DEF Pending
<1>6. Asks(runner) /\ ~Goes(runner)
  BY <1>1 DEF Asks, Goes
<1>7. Asked(p, f, e, runner)
  BY <1>1, <1>5, <1>6 DEF TalkInv, Talk, GamePcs
<1> HIDE DEF todo
<1>8. CASE ~IsPong(Head(f))
  <2>1. runner' = runner
    BY <1>3, <1>8
  <2>2. f = <<FeatureLine>> \/ f = <<FeatureLine, PongLine>>
    <3>1. f = <<PongLine>> => IsPong(Head(f))
      BY Tuples, LineKinds DEF IsPong
    <3> QED
      BY <1>2, <1>7, <1>8, <3>1 DEF Asked
  <2>3. Asked(p, Tail(f), e, runner)
    <3>1. CASE f = <<FeatureLine>>
      <4>1. Tail(f) = << >> /\ f # << >> /\ f # <<PongLine>> /\ f # <<FeatureLine, PongLine>>
        <5>1. Tail(<<FeatureLine, PongLine>>) = <<PongLine>> /\ <<PongLine>> # << >>
          BY Tuples
        <5>2. Tail(f) = << >>
          BY <3>1, Tuples
        <5>3. Head(f) = FeatureLine /\ Head(<<PongLine>>) = PongLine /\ FeatureLine # PongLine
          BY <3>1, Tuples, LineKinds
        <5> QED
          BY <1>2, <5>1, <5>2, <5>3
      <4> QED
        BY <1>7, <4>1 DEF Asked
    <3>2. CASE f = <<FeatureLine, PongLine>>
      <4>1. Tail(f) = <<PongLine>> /\ f # << >> /\ f # <<FeatureLine>>
        <5>1. Tail(<<FeatureLine>>) = << >> /\ <<PongLine>> # << >>
          BY Tuples
        <5>2. Tail(f) = <<PongLine>>
          BY <3>2, Tuples
        <5> QED
          BY <1>2, <5>1, <5>2
      <4> QED
        BY <1>7, <4>1 DEF Asked
    <3> QED
      BY <2>2, <3>1, <3>2
  <2>4. Pending(s)' = p
    BY <1>2, <1>5, <2>1 DEF Pending
  <2>5. Talk(s)'
    BY <1>2, <1>6, <2>1, <2>3, <2>4 DEF Talk
  <2>6. \A t \in PlayerSides : t # s => Talk(t)'
    BY <2>1, PeerReads
  <2> QED
    BY <2>1, <2>5, <2>6 DEF TalkInv
<1>9. CASE IsPong(Head(f))
  <2>1. /\ runner'.pc = "send" /\ runner'.next = "move" /\ runner'.todo = todo
        /\ runner'.peer = s /\ runner'.board = runner.board
        /\ runner'.moves = runner.moves /\ runner'.error = runner.error
    BY <1>1, <1>3, <1>9 DEF Runners
  <2>2. f \notin {<<FeatureLine>>, <<FeatureLine, PongLine>>}
    <3>1. ~IsPong(FeatureLine)
      BY LineKinds DEF IsPong
    <3>2. Head(<<FeatureLine>>) = FeatureLine /\ Head(<<FeatureLine, PongLine>>) = FeatureLine
      BY Tuples
    <3> QED
      BY <1>9, <3>1, <3>2
  <2>3. p = << >> /\ f = <<PongLine>> /\ Ready(e, runner)
    BY <1>2, <1>7, <2>2 DEF Asked
  <2>4. Tail(f) = << >>
    BY <2>3, Tuples
  <2>5. Pending(s)' = <<GoLine>>
    <3>1. Pending(s)' = << >> \o todo
      BY <1>2, <2>1, <2>3 DEF Pending
    <3> QED
      BY <3>1, OneAfterNone DEF todo
  <2>6. ~Asks(runner)' /\ Goes(runner)'
    BY <2>1 DEF Asks, Goes
  <2>7. Ready(e, runner')
    BY <2>1, <2>3 DEF Ready
  <2>8. Going(Pending(s)', fromEngine'[s], e, runner')
    BY <1>2, <2>4, <2>5, <2>7 DEF Going
  <2>9. Talk(s)'
    BY <1>2, <2>1, <2>6, <2>8 DEF Talk
  <2>10. \A t \in PlayerSides : t # s => Talk(t)'
    BY <2>1, PeerReads
  <2> QED
    BY <2>1, <2>9, <2>10 DEF TalkInv
<1> QED
  BY <1>8, <1>9

LEMMA AnswerTalks ==
  ASSUME MatchInv, TalkInv, ReadMove
  PROVE  TalkInv'
<1> DEFINE s == runner.peer
           f == fromEngine[s]
           b == runner.board
<1>1. /\ runner.pc = "move" /\ runner \in Runners /\ runner.todo = << >> /\ PipesInv
      /\ s \in PlayerSides /\ b \in Positions
  BY DEF MatchInv, RunnerInv, Runners, ReadMove
<1>2. /\ UNCHANGED <<client, engine, toEngine>> /\ f # << >>
      /\ fromEngine'[s] = Tail(f)
  BY ReadKeepsPipes
<1>3. toEngine[s] \o runner.todo = toEngine[s]
  <2>1. toEngine[s] \in Seq(Requests)
    BY <1>1 DEF PipesInv
  <2> QED
    BY <1>1, <2>1, ConcatEmptySeq
<1>4. Going(toEngine[s], f, engine[s].state, runner)
  <2>1. ~Asks(runner) /\ Goes(runner)
    BY <1>1 DEF Asks, Goes
  <2>2. Pending(s) = toEngine[s]
    BY <1>3 DEF Pending
  <2> QED
    BY <1>1, <2>1, <2>2 DEF TalkInv, Talk, GamePcs
<1>5. PICK m \in Moves[b] : toEngine[s] = << >> /\ f = <<AnswerLine(m)>>
  BY <1>2, <1>4 DEF Going
<1>6. Head(f).kind = "===" /\ Head(f).token = m /\ Tail(f) = << >>
  <2>1. Head(f) = AnswerLine(m) /\ Tail(f) = << >>
    BY <1>5, Tuples
  <2> QED
    BY <2>1, LineKinds
<1>7. m \in Tokens /\ m # PassToken
  BY <1>1, BoardFacts, TokensAre
<1>8. AfterToken(b, m) = {Play[b][m]}
  BY <1>7 DEF AfterToken
<1>9. runner' = Played(m)
  BY <1>6, <1>7, <1>8 DEF ReadMove, Answered
<1>10. runner' = [runner EXCEPT !.pc = "turn", !.board = Play[b][m], !.turn = @ + 1,
                                !.moves = Append(@, m)]
  BY <1>9 DEF Played
<1>11. /\ runner'.pc = "turn" /\ runner'.peer = s /\ runner'.todo = << >>
       /\ runner'.board = Play[b][m] /\ runner'.moves = Append(runner.moves, m)
       /\ runner'.error = runner.error
  BY <1>1, <1>10 DEF Runners
<1>12. Replay(runner'.moves) = {runner'.board}
  BY <1>7, <1>8, <1>11, PlyLeads
<1>13. ~Asks(runner)' /\ ~Goes(runner)'
  BY <1>11 DEF Asks, Goes
<1>14. ASSUME NEW t \in PlayerSides, t = s
       PROVE  Talk(t)'
  <2>1. Pending(t)' = << >>
    <3>1. Pending(t)' = toEngine[s] \o << >>
      BY <1>2, <1>11, <1>14 DEF Pending
    <3> QED
      BY <1>1, <1>3, <1>5, <3>1
  <2>2. fromEngine'[t] = << >>
    BY <1>2, <1>6, <1>14
  <2> HIDE DEF Pending
  <2> QED
    BY <1>13, <2>1, <2>2 DEF Talk, Quiet
<1>15. \A t \in PlayerSides : t # s => Talk(t)'
  BY <1>11, PeerReads
<1> QED
  BY <1>11, <1>12, <1>14, <1>15 DEF TalkInv

LEMMA TalkKeeps ==
  ASSUME MatchInv, TalkInv, Next
  PROVE  TalkInv'
<1>1. /\ RunnerInv(runner) /\ runner \in Runners /\ runner.board \in Positions
      /\ Replay(runner.moves) = {runner.board}
      /\ runner.error \in {"none"} \cup Faulty
  BY DEF MatchInv, RunnerInv, Runners, TalkInv
<1>2. ASSUME NEW reason \in Faulty, runner' = Break(reason)
      PROVE  TalkInv'
  <2>1. /\ runner'.pc = "finish" /\ runner'.error = reason
        /\ runner'.board = runner.board /\ runner'.moves = runner.moves
    BY <1>1, <1>2 DEF Break, Runners
  <2> QED
    BY <2>1, EndTalks DEF GamePcs
<1>3. CASE StartFails \/ Timeout
  BY <1>2, <1>3 DEF StartFails, Timeout, Faulty
<1>4. CASE AllStarted
  <2>1. runner' = [runner EXCEPT !.pc = "turn"] /\ runner.pc = "start"
    BY <1>4 DEF AllStarted
  <2>2. /\ runner'.pc = "turn" /\ runner'.peer = runner.peer /\ runner'.todo = runner.todo
        /\ runner'.error = runner.error /\ runner'.board = runner.board
        /\ runner'.moves = runner.moves
    BY <1>1, <2>1 DEF Runners
  <2>3. UNCHANGED <<engine, toEngine, fromEngine>>
    BY <1>4 DEF AllStarted
  <2> QED
    BY <1>1, <2>1, <2>2, <2>3, TurnTalks
<1>5. CASE LoopEnds
  <2>1. runner'.error \in {"none"} \cup Faulty \cup Wrong
    BY RunnerKeeps DEF MatchInv, RunnerInv, Runners
  <2>2. runner' = [runner EXCEPT !.pc = "finish"]
    <3> SUFFICES ASSUME ~Terminal(runner.board)
                 PROVE  FALSE
      BY <1>5 DEF LoopEnds
    <3>1. runner' = Break("maximum turn count exceeded")
      BY <1>5 DEF LoopEnds
    <3>2. runner'.error = "maximum turn count exceeded"
      BY <1>1, <3>1 DEF Break, Runners
    <3> QED
      BY <2>1, <3>2 DEF Faulty, Wrong
  <2>3. /\ runner'.pc = "finish" /\ runner'.error = runner.error
        /\ runner'.board = runner.board /\ runner'.moves = runner.moves
    BY <1>1, <2>2 DEF Runners
  <2> QED
    BY <1>1, <2>3, EndTalks DEF GamePcs
<1>6. CASE ForcedPass
  <2>1. /\ runner.pc = "turn" /\ Moves[runner.board] = {} /\ ~Terminal(runner.board)
        /\ runner' = [runner EXCEPT !.board = Pass[runner.board], !.turn = @ + 1,
                                    !.moves = Append(@, PassToken)]
        /\ UNCHANGED <<engine, toEngine, fromEngine>>
    BY <1>6 DEF ForcedPass, TurnBegins
  <2>2. /\ runner'.pc = "turn" /\ runner'.peer = runner.peer /\ runner'.todo = runner.todo
        /\ runner'.error = runner.error /\ runner'.board = Pass[runner.board]
        /\ runner'.moves = Append(runner.moves, PassToken)
    BY <1>1, <2>1 DEF Runners
  <2>3. AfterToken(runner.board, PassToken) = {Pass[runner.board]} /\ PassToken \in Tokens
    BY <2>1, TokensAre DEF AfterToken, Terminal
  <2>4. Replay(runner'.moves) = {runner'.board}
    BY <2>2, <2>3, PlyLeads
  <2> QED
    BY <2>1, <2>2, <2>4, TurnTalks
<1>7. CASE InProcessMove
  <2>1. runner.pc = "turn" /\ UNCHANGED <<engine, toEngine, fromEngine>>
    BY <1>7 DEF InProcessMove, TurnBegins
  <2>2. PICK m \in Moves[runner.board] : runner' = Played(m)
    BY <1>7 DEF InProcessMove
  <2>3. runner' = [runner EXCEPT !.pc = "turn", !.board = Play[runner.board][m], !.turn = @ + 1,
                                 !.moves = Append(@, m)]
    BY <2>2 DEF Played
  <2>4. /\ runner'.pc = "turn" /\ runner'.peer = runner.peer /\ runner'.todo = runner.todo
        /\ runner'.error = runner.error /\ runner'.board = Play[runner.board][m]
        /\ runner'.moves = Append(runner.moves, m)
    BY <1>1, <2>3 DEF Runners
  <2>5. m \in Tokens /\ m # PassToken
    BY <1>1, BoardFacts, TokensAre
  <2>6. AfterToken(runner.board, m) = {Play[runner.board][m]}
    BY <2>5 DEF AfterToken
  <2>7. Replay(runner'.moves) = {runner'.board}
    BY <2>4, <2>5, <2>6, PlyLeads
  <2> QED
    BY <2>1, <2>4, <2>7, TurnTalks
<1>8. CASE Return
  <2>1. runner' = [runner EXCEPT !.pc = "done"]
    BY <1>8 DEF Return
  <2>2. /\ runner'.pc = "done" /\ runner'.error = runner.error
        /\ runner'.board = runner.board /\ runner'.moves = runner.moves
    BY <1>1, <2>1 DEF Runners
  <2> QED
    BY <1>1, <2>2, EndTalks DEF GamePcs
<1>9. CASE Close \/ \E s \in PlayerSides : Reap(s)
  <2>1. runner' = runner
    BY <1>9 DEF Close, Reap
  <2>2. runner.pc \notin GamePcs
    <3>1. CASE Close
      BY <3>1 DEF Close, GamePcs
    <3>2. ASSUME NEW s \in PlayerSides, Reap(s)
          PROVE  runner.pc \notin GamePcs
      BY <3>2 DEF Reap, Waiting, MatchInv, SideInv, GamePcs
    <3> QED
      BY <1>9, <3>1, <3>2
  <2> QED
    BY <1>1, <2>1, <2>2, EndTalks
<1>10. ASSUME NEW s \in PlayerSides, EngineHangs(s) \/ EngineCrashes(s) \/ EngineExits(s)
       PROVE  TalkInv'
  <2>1. PICK status \in Statuses : engine' = [engine EXCEPT ![s].status = status]
    BY <1>10 DEF EngineHangs, EngineCrashes, EngineExits, Statuses
  <2>2. UNCHANGED <<runner, client, toEngine, fromEngine>> /\ PipesInv
    BY <1>10 DEF EngineHangs, EngineCrashes, EngineExits, MatchInv
  <2>3. \A t \in PlayerSides : engine'[t].state = engine[t].state
    BY <2>1, <2>2, StatusKeepsPipes
  <2>4. \A t \in PlayerSides : Pending(t)' = Pending(t)
    BY <2>2 DEF Pending
  <2> HIDE DEF Pending
  <2>5. \A t \in PlayerSides : Talk(t) => Talk(t)'
    BY <2>2, <2>3, <2>4 DEF Talk
  <2> QED
    BY <2>2, <2>5 DEF TalkInv
<1> QED
  BY <1>3, <1>4, <1>5, <1>6, <1>7, <1>8, <1>9, <1>10, StartTalks, AskTalks, SendTalks, PongTalks,
     AnswerTalks, EngineStepTalks DEF Next, RunnerStep

LEMMA TalkStutters ==
  ASSUME TalkInv, UNCHANGED vars
  PROVE  TalkInv'
<1>1. \A t \in PlayerSides : Talk(t) => Talk(t)'
  BY DEF vars, Talk, Pending
<1> QED
  BY <1>1 DEF TalkInv, vars

\* No opening leaves out a pass it makes.  parse_opening_line takes one that
\* does, and the engines are then sent a game they cannot follow.
OpeningsShowPasses == \A o \in Openings : OpeningBoard(o) \subseteq Replay(o)

LEMMA InitTalk ==
  ASSUME OpeningsShowPasses, Init
  PROVE  TalkInv
<1>1. \E o \in Openings : \E p \in OpeningBoard(o) :
        /\ runner.pc = "start" /\ runner.error = "none" /\ runner.todo = << >>
        /\ runner.board = p /\ runner.moves = o
  BY DEF Init
<1>2. PICK o \in Openings : \E p \in OpeningBoard(o) :
        /\ runner.pc = "start" /\ runner.error = "none" /\ runner.todo = << >>
        /\ runner.board = p /\ runner.moves = o
  BY <1>1
<1>3. /\ runner.pc = "start" /\ runner.error = "none" /\ runner.todo = << >>
      /\ runner.board \in OpeningBoard(o) /\ runner.moves = o
  BY <1>2
<1>4. o \in Seq(Squares)
  BY MatchAssumption
<1>5. o \in Seq(Tokens)
  BY <1>4, TokensAre, SeqMonotonic
<1>6. runner.board \in Replay(o)
  BY <1>3 DEF OpeningsShowPasses
<1>7. PICK q \in Positions : Replay(o) = {q}
  BY <1>5, <1>6, ReplayType
<1>8. Replay(runner.moves) = {runner.board}
  BY <1>3, <1>6, <1>7
<1>9. ASSUME NEW s \in PlayerSides
      PROVE  Talk(s)
  <2>1. toEngine[s] = << >> /\ fromEngine[s] = << >>
    BY DEF Init
  <2>2. Pending(s) = << >>
    BY <1>3, <2>1, OneAfterNone DEF Pending
  <2>3. ~Asks(runner) /\ ~Goes(runner)
    BY <1>3 DEF Asks, Goes
  <2> HIDE DEF Pending
  <2> QED
    BY <2>1, <2>2, <2>3 DEF Talk, Quiet
<1> QED
  BY <1>3, <1>8, <1>9 DEF TalkInv

\* Runner and engines agree, at every moment of a game, on what is under way.
THEOREM TalkInvariant ==
  ASSUME OpeningsShowPasses
  PROVE  Spec => []TalkInv
<1>1. Init => TalkInv
  BY InitTalk
<1>2. MatchInv /\ TalkInv /\ [Next]_vars => TalkInv'
  BY TalkKeeps, TalkStutters
<1> QED
  BY <1>1, <1>2, MatchInvariant, PTL DEF Spec

\* The answer that ExternalNBoardPlayer takes for a move is the engine's answer
\* to this turn's question, for the runner's own board and depth, although the
\* ping of every turn carries the same id and lines of the start may be unread.
THEOREM AnswersAreOfTheTurn ==
  ASSUME OpeningsShowPasses
  PROVE  Spec => []AnswerIsForBoard
<1>1. MatchInv /\ TalkInv => AnswerIsForBoard
  <2> SUFFICES ASSUME MatchInv, TalkInv, runner.pc = "move",
                      fromEngine[runner.peer] # << >>
               PROVE  /\ Ready(engine[runner.peer].state, runner)
                      /\ Len(fromEngine[runner.peer]) = 1 /\ toEngine[runner.peer] = << >>
    BY DEF AnswerIsForBoard, TalkInv, Ready
  <2> DEFINE s == runner.peer
  <2>1. s \in PlayerSides /\ runner.todo = << >> /\ ~Asks(runner) /\ Goes(runner)
    BY DEF MatchInv, RunnerInv, Asks, Goes
  <2>2. toEngine[s] \o runner.todo = toEngine[s]
    <3>1. toEngine[s] \in Seq(Requests)
      BY <2>1 DEF MatchInv, PipesInv
    <3> QED
      BY <2>1, <3>1, ConcatEmptySeq
  <2>3. Pending(s) = toEngine[s]
    BY <2>2 DEF Pending
  <2>4. Going(toEngine[s], fromEngine[s], engine[s].state, runner)
    BY <2>1, <2>3 DEF TalkInv, Talk, GamePcs
  <2>5. PICK m \in Moves[runner.board] : toEngine[s] = << >> /\ fromEngine[s] = <<AnswerLine(m)>>
    BY <2>4 DEF Going
  <2>6. \A a : Len(<<a>>) = 1
    OBVIOUS
  <2>7. Len(fromEngine[s]) = 1
    BY <2>5, <2>6
  <2> QED
    BY <2>4, <2>5, <2>7 DEF Going
<1> QED
  BY <1>1, MatchInvariant, TalkInvariant, PTL

\* Between a runner and engines of this repository no game is lost to an illegal
\* move, to a pass where there is a move, or to the limit of turns.
THEOREM GamesAreSpoiltByFaults ==
  ASSUME OpeningsShowPasses
  PROVE  Spec => []OnlyFaultsSpoilAGame
<1>1. TalkInv => OnlyFaultsSpoilAGame
  BY DEF TalkInv, Faulty, OnlyFaultsSpoilAGame
<1> QED
  BY <1>1, TalkInvariant, PTL
=============================================================================
