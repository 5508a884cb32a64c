----------------------------- MODULE ExactGame ------------------------------
(***************************************************************************)
(* A game tree with the final disc margins, and the value they give to     *)
(* every position: what an exact solver is asked for.                      *)
(***************************************************************************)
EXTENDS GameTree

CONSTANTS
  Margin,       \* Margin[p]: discs of the side to move minus the others
  Value         \* Value[p]: the game-theoretic margin (NOT known to the code)

FinalDiscMarginMax == 64

ASSUME MarginTypes ==
  Margin \in [Positions -> -FinalDiscMarginMax .. FinalDiscMarginMax]

\* The negamax equation that defines the value of a position.
ASSUME ValueEquation ==
  /\ Value \in [Positions -> -FinalDiscMarginMax .. FinalDiscMarginMax]
  /\ \A p \in Positions :
       /\ Terminal(p) => Value[p] = Margin[p]
       /\ Moves[p] = {} /\ ~Terminal(p) => Value[p] = -Value[Pass[p]]
       /\ \A m \in Moves[p] : Value[p] >= -Value[Play[p][m]]
       /\ Moves[p] # {} => \E m \in Moves[p] : Value[p] = -Value[Play[p][m]]

\* The moves that keep the value of a position.
Optimal(p) == { m \in Moves[p] : -Value[Play[p][m]] = Value[p] }
=============================================================================
