---------------------------- MODULE MCMatchReplay ----------------------------
(***************************************************************************)
(* Matches in a small game with a transposition, a forced pass that is     *)
(* followed by a choice, a drawn end and an early one.                     *)
(*                                                                         *)
(*   empties 4   R   9 -> A  18 -> B                                       *)
(*   empties 3   A  18 -> E      B   9 -> E   1 -> P                       *)
(*   empties 2   E  19 -> y      P   passes to P1   P1  2 -> v   3 -> u    *)
(*   empties 1   y  (game over)  v   3 -> w         u   2 -> x             *)
(*   empties 0   w, x  (game over)                                         *)
(***************************************************************************)
EXTENDS MatchReplay

GameEdges ==
  [R |-> (9 :> "A" @@ 18 :> "B"), A |-> (18 :> "E"), B |-> (9 :> "E" @@ 1 :> "P"),
   E |-> (19 :> "y"), P |-> << >>, P1 |-> (2 :> "v" @@ 3 :> "u"), v |-> (3 :> "w"),
   u |-> (2 :> "x"), y |-> << >>, w |-> << >>, x |-> << >>]
MCPositions == DOMAIN GameEdges
MCMoves == [p \in MCPositions |-> DOMAIN GameEdges[p]]
MCPass == [p \in MCPositions |-> IF p = "P" THEN "P1" ELSE p]
MCSide == [p \in MCPositions |-> p \in {"R", "E", "P", "v", "u"}]
MCEmpties ==
  [p \in MCPositions |->
    CASE p = "R" -> 4 [] p \in {"A", "B"} -> 3 [] p \in {"E", "P", "P1"} -> 2
      [] p \in {"y", "v", "u"} -> 1 [] OTHER -> 0]
\* y: White is ahead and takes the empty square; w: a draw; x: Black wins.
MCBlackDiscs == [p \in MCPositions |-> CASE p = "w" -> 32 [] p = "x" -> 40 [] OTHER -> 30]
MCWhiteDiscs == [p \in MCPositions |-> 64 - MCEmpties[p] - MCBlackDiscs[p]]

Opening(name, moves, start) == [name |-> name, moves |-> moves, start_board |-> start]
Match(games, swap_sides, openings) ==
  [games |-> games, swap_sides |-> swap_sides, openings |-> openings]

\* Pairs from the start; pairs whose first turn is a pass, with a second opening;
\* a match of an odd number of games; sides not swapped, an opening for each game.
MCMatches ==
  {Match(2, TRUE, <<Opening("initial", << >>, "R")>>),
   Match(4, TRUE, <<Opening("corner", <<18, 1>>, "P"), Opening("edge", <<9>>, "A")>>),
   Match(3, TRUE, <<Opening("edge", <<9>>, "A")>>),
   Match(2, FALSE, <<Opening("corner", <<18, 1>>, "P"), Opening("edge", <<9>>, "A")>>),
   Match(2, FALSE, <<Opening("edge", <<9>>, "A")>>)}
MCExternal == {"B"}
=============================================================================
