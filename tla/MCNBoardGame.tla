---------------------------- MODULE MCNBoardGame ----------------------------
(***************************************************************************)
(* A small game for the NBoard modules, with a transposition, a forced     *)
(* pass, and a game that ends before the board is full.                    *)
(*                                                                         *)
(*   empties 4   R   9 -> A  18 -> B                                       *)
(*   empties 3   A  18 -> E      B   9 -> E   1 -> P                       *)
(*   empties 2   E  19 -> y      P   passes to P1      P1  2 -> v          *)
(*   empties 1   y  (game over)  v   3 -> w                                *)
(*   empties 0   w  (game over)                                            *)
(***************************************************************************)
EXTENDS Integers, TLC

GameEdges ==
  [R |-> (9 :> "A" @@ 18 :> "B"), A |-> (18 :> "E"), B |-> (9 :> "E" @@ 1 :> "P"),
   E |-> (19 :> "y"), P |-> << >>, P1 |-> (2 :> "v"), v |-> (3 :> "w"),
   y |-> << >>, w |-> << >>]
MCPositions == DOMAIN GameEdges
MCMoves == [p \in MCPositions |-> DOMAIN GameEdges[p]]
MCPass == [p \in MCPositions |-> IF p = "P" THEN "P1" ELSE p]
MCSide == [p \in MCPositions |-> p \in {"R", "E", "P", "v"}]
MCEmpties ==
  [p \in MCPositions |->
    CASE p = "R" -> 4 [] p \in {"A", "B"} -> 3 [] p \in {"E", "P", "P1"} -> 2
      [] p \in {"y", "v"} -> 1 [] OTHER -> 0]
=============================================================================
