------------------------------ MODULE GameTree ------------------------------
(***************************************************************************)
(* The game as the search components see it: positions from the view of    *)
(* the side to move (SearchPosition, search_common.hpp:16), the moves of   *)
(* a position, the position each move leads to, the position after a pass. *)
(* The searches read no more of a board than this and a score of it, so    *)
(* the board itself stays abstract here.                                   *)
(***************************************************************************)
EXTENDS Integers, Sequences

CONSTANTS
  Positions,    \* the positions of one or more games
  Moves,        \* Moves[p]: the legal squares of the side to move in p
  Play,         \* Play[p][m]: the position after the side to move plays m
  Pass,         \* Pass[p]: the position after a pass, where p has no move
  Side,         \* Side[p]: the side to move (nothing but the hash reads it)
  Empties       \* Empties[p]: the empty squares of p

Squares == 0 .. 63
NoMove  == -1

ASSUME GameTypes ==
  /\ Moves \in [Positions -> SUBSET Squares]
  /\ Empties \in [Positions -> 0 .. 60]
  /\ \A p \in Positions : \A m \in Moves[p] : Play[p][m] \in Positions
  /\ \A p \in Positions : Moves[p] = {} => Pass[p] \in Positions

\* A move fills exactly one square, a pass none; a full board has no move.
ASSUME GameProgress ==
  \A p \in Positions :
    /\ \A m \in Moves[p] : Empties[Play[p][m]] = Empties[p] - 1
    /\ Moves[p] = {} => Empties[Pass[p]] = Empties[p]
    /\ Empties[p] = 0 => Moves[p] = {}

\* A ply changes the side to move, so a position is never reached by lines
\* whose plies, moves and passes together, differ by an odd number.
ASSUME SidesAlternate ==
  \A p \in Positions :
    /\ \A m \in Moves[p] : Side[Play[p][m]] # Side[p]
    /\ Moves[p] = {} /\ Moves[Pass[p]] # {} => Side[Pass[p]] # Side[p]

\* Neither side can move (is_game_over, rules.cpp:65).
Terminal(p) == Moves[p] = {} /\ Moves[Pass[p]] = {}

(***************************************************************************)
(* What the two searches share (search_common.hpp).                        *)
(***************************************************************************)

NoCandidate == [score |-> 0, best_move |-> NoMove, pv |-> << >>]

\* is_better_best_move: a higher score, or an equal one at a lower index.
IsBetterBestMove(score, move, best) ==
  \/ best.best_move = NoMove
  \/ score > best.score
  \/ score = best.score /\ move < best.best_move

MaxOf(a, b) == IF a >= b THEN a ELSE b

NodeResults == [score : Int, best_move : Squares \cup {NoMove}, pv : Seq(Squares)]

\* Where a line of moves leads, the forced passes it does not show included: a
\* set of one position, or of none if the line is not legal.
Follow(p, m) ==
  IF m \in Moves[p] THEN {Play[p][m]}
  ELSE IF Moves[p] = {} /\ m \in Moves[Pass[p]] THEN {Play[Pass[p]][m]} ELSE {}
LineEnd(p, line) ==
  LET at[i \in 0 .. Len(line)] ==
        IF i = 0 THEN {p} ELSE UNION { Follow(q, line[i]) : q \in at[i - 1] }
  IN  at[Len(line)]
=============================================================================
