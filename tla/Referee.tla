------------------------------ MODULE Referee -------------------------------
(***************************************************************************)
(* What a game record stands for: a game played by the rules from a legal  *)
(* start until it is over or broken off, after which nothing changes.      *)
(***************************************************************************)
EXTENDS GameTree

CONSTANT Starts     \* the positions a game may start from

VARIABLES
  board,
  outcome     \* "none" while the game goes on, then "over" or "broken"

Init == board \in Starts /\ outcome = "none"

PlyOf(p) ==
  IF Moves[p] # {} THEN { Play[p][m] : m \in Moves[p] }
  ELSE IF Moves[Pass[p]] # {} THEN {Pass[p]} ELSE {}

Ply ==
  /\ outcome = "none"
  /\ board' \in PlyOf(board)
  /\ UNCHANGED outcome

GameOver ==
  /\ outcome = "none" /\ Terminal(board)
  /\ outcome' = "over"
  /\ UNCHANGED board

BreakOff ==
  /\ outcome = "none" /\ ~Terminal(board)
  /\ outcome' = "broken"
  /\ UNCHANGED board

Next == Ply \/ GameOver \/ BreakOff

Spec == Init /\ [][Next]_<<board, outcome>>
=============================================================================
