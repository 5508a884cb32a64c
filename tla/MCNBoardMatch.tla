--------------------------- MODULE MCNBoardMatch ----------------------------
(***************************************************************************)
(* A match between two engines, or between a player of the runner's own    *)
(* and an engine, in the small game of MCNBoardGame.                       *)
(***************************************************************************)
EXTENDS NBoardMatch, MCNBoardGame

\* The second one leaves Black without a move at once.
MCOpenings == {<< >>, <<18, 1>>, <<9>>}

\* White's 2 follows a pass of Black's that the line does not show.
OpeningWithPass == {<<18, 1, 2>>}
=============================================================================
