---------------------------- MODULE NBoardEngine ----------------------------
(***************************************************************************)
(* The NBoard engine (engine_main.cpp, parser.cpp, game_codec.cpp): what a *)
(* command line does to its state, and what it prints.  Move texts are     *)
(* squares, or PassToken for "pass" and "PA"; the colour letters of a GGF  *)
(* game are not read by the code and are left out.                         *)
(***************************************************************************)
EXTENDS GameTree

CONSTANTS
  Initial,        \* Board::initial
  DefaultDepth    \* Options::depth

ASSUME EngineAssumption ==
  /\ Initial \in Positions
  /\ DefaultDepth \in Nat \ {0}

PassToken == 64
Tokens == Squares \cup {PassToken}

(***************************************************************************)
(* Histories.                                                              *)
(***************************************************************************)

\* apply_move and pass_turn: the next position, if the ply is legal.
AfterToken(p, t) ==
  IF t = PassToken
  THEN IF Moves[p] = {} /\ Moves[Pass[p]] # {} THEN {Pass[p]} ELSE {}
  ELSE IF t \in Moves[p] THEN {Play[p][t]} ELSE {}

\* parse_move_list: the position a history leads to, if every ply is legal.
Replay(history) ==
  LET at[i \in 0 .. Len(history)] ==
        IF i = 0 THEN {Initial} ELSE UNION { AfterToken(p, history[i]) : p \in at[i - 1] }
  IN  at[Len(history)]

\* Mutation: only the common part is compared.
IsSameGameExtensionEitherWay(previous, next) ==
  \A i \in 1 .. (IF Len(previous) <= Len(next) THEN Len(previous) ELSE Len(next)) :
    previous[i] = next[i]
IsSameGameExtension(previous, next) ==
  /\ Len(next) >= Len(previous)
  /\ \A i \in 1 .. Len(previous) : previous[i] = next[i]

(***************************************************************************)
(* The engine's state.  The session is kept as the positions searched in   *)
(* it since it was last reset: what may be left in its table.              *)
(***************************************************************************)
Engines ==
  [board : Positions, moves : Seq(Tokens), depth : Nat \ {0}, session : SUBSET Positions]
NewEngine == [board |-> Initial, moves |-> << >>, depth |-> DefaultDepth, session |-> {}]

Silent(e) == {[engine |-> e, reply |-> << >>]}

\* Mutation: the moves read so far are kept although the game is refused.
SetGameKeepsPart(e, history) ==
  Silent(IF Replay(history) = {} THEN [e EXCEPT !.moves = history]
         ELSE [e EXCEPT !.board = CHOOSE p \in Replay(history) : TRUE,
                        !.moves = history,
                        !.session = IF IsSameGameExtension(e.moves, history) THEN @ ELSE {}])

\* A game that is not legal is ignored.  Another game resets the session.
SetGame(e, history) ==
  Silent(IF Replay(history) = {} THEN e
         ELSE [e EXCEPT !.board = CHOOSE p \in Replay(history) : TRUE,
                        !.moves = history,
                        !.session = IF IsSameGameExtension(e.moves, history) THEN @ ELSE {}])

SetDepth(e, depth) == Silent(IF depth > 0 THEN [e EXCEPT !.depth = depth] ELSE e)

Move(e, token) ==
  Silent(IF AfterToken(e.board, token) = {} THEN e
         ELSE [e EXCEPT !.board = CHOOSE p \in AfterToken(e.board, token) : TRUE,
                        !.moves = Append(@, token)])

\* Mutation: a side without a move is taken for a finished game.
GoSilentWithoutMove(e) ==
  LET searched == [e EXCEPT !.session = @ \cup {e.board}] IN
  IF Moves[e.board] = {}
  THEN Silent(searched)
  ELSE { [engine |-> searched, reply |-> <<[kind |-> "===", token |-> m]>>] : m \in Moves[e.board] }

\* choose_move: a legal move if there is one (SearchService), otherwise a pass,
\* over or not.
Go(e) ==
  LET searched == [e EXCEPT !.session = @ \cup {e.board}]
      answers == IF Moves[e.board] = {} THEN {PassToken} ELSE Moves[e.board]
  IN  { [engine |-> searched, reply |-> <<[kind |-> "===", token |-> t]>>] : t \in answers }

\* run_engine's loop, without quit: the states a line may leave, with the
\* lines printed.  A line it does not know is ignored.
Handled(e, line) ==
  CASE line.kind = "nboard"    -> {[engine |-> e, reply |-> <<[kind |-> "feature"]>>]}
    [] line.kind = "ping"      -> {[engine |-> e, reply |-> <<[kind |-> "pong", id |-> line.id]>>]}
    [] line.kind = "set depth" -> SetDepth(e, line.depth)
    [] line.kind = "set game"  -> SetGame(e, line.moves)
    [] line.kind = "move"      -> Move(e, line.token)
    [] line.kind = "go"        -> Go(e)
    [] OTHER                   -> Silent(e)

\* The engine's board is the one its history leads to, and its session knows
\* only positions of the game being played.
BoardIsHistory(e) == Replay(e.moves) = {e.board}
SessionOfGame(e) ==
  e.session \subseteq UNION { Replay(SubSeq(e.moves, 1, n)) : n \in 0 .. Len(e.moves) }
=============================================================================
