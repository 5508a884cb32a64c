-------------------------- MODULE MCNBoardConsole ---------------------------
(***************************************************************************)
(* A console for the small game of MCNBoardGame.                           *)
(***************************************************************************)
EXTENDS NBoardConsole, MCNBoardGame

\* Whole games, games taken back, transpositions, a game without the pass it
\* needs, an illegal and an unknown move.
MCAskedGames ==
  {<< >>, <<9>>, <<18>>, <<9, 18>>, <<18, 9>>, <<9, 18, 19>>, <<18, 1>>,
   <<18, 1, PassToken>>, <<18, 1, PassToken, 2>>, <<18, 1, 2>>, <<9, 18, 18>>, <<PassToken>>}
MCAskedTokens == {1, 2, 3, 9, 18, 19, PassToken}
=============================================================================
