--------------------------- MODULE MCOthelloRules ---------------------------
(***************************************************************************)
(* Boards for OthelloRules: rows as long as a row can be, in every         *)
(* direction and along both edges, and three games six squares from        *)
(* their end, with passes and ends before the board is full.  Tools play   *)
(* them with the built-in evaluator and those of three config files; those *)
(* of MCEvaluatorConfig have a board on which the game is over.            *)
(***************************************************************************)
EXTENDS MCEvaluatorConfig

At(file, rank) == rank * Width + file

\* A disc, a row of the other side's, an empty square: across the board.
LongRow(first, step) ==
  [black |-> {first},
   white |-> { first + k * step : k \in 1 .. Width - 2 },
   side_to_move |-> "Black"]
\* Rows that would be bracketed if the board were a cylinder.
AcrossEdge(rank) ==
  [black |-> {At(Width - 2, rank)},
   white |-> {At(Width - 1, rank), At(0, rank + 1)},
   side_to_move |-> "Black"]

EdgeBoards ==
  UNION { {LongRow(At(0, r), 1), LongRow(At(Width - 1, r), -1),
           LongRow(At(r, 0), Width), LongRow(At(r, Width - 1), -Width)} : r \in 0 .. Width - 1 }
  \cup {LongRow(At(0, 0), Width + 1), LongRow(At(Width - 1, Width - 1), -(Width + 1)),
        LongRow(At(Width - 1, 0), Width - 1), LongRow(At(0, Width - 1), -(Width - 1))}
  \cup { AcrossEdge(r) : r \in 0 .. Width - 2 }

\* Boards late in a game, rank 1 first: 1 is a black disc, 2 a white one.
Picture(side, ranks) ==
  LET discsOf(k) == { s \in Squares : ranks[(s \div Width) + 1][(s % Width) + 1] = k }
  IN  [black |-> discsOf(1), white |-> discsOf(2), side_to_move |-> side]

EndingA == Picture("Black",
  <<<<0, 2, 2, 2, 0, 1, 2, 2>>,
    <<0, 2, 2, 2, 1, 2, 2, 2>>,
    <<2, 2, 2, 1, 2, 1, 2, 2>>,
    <<2, 2, 1, 2, 2, 1, 2, 2>>,
    <<2, 1, 2, 2, 2, 1, 2, 2>>,
    <<2, 2, 1, 2, 2, 2, 2, 2>>,
    <<2, 0, 1, 1, 1, 2, 2, 2>>,
    <<0, 0, 1, 1, 1, 2, 2, 2>>>>)

EndingB == Picture("Black",
  <<<<0, 1, 1, 1, 1, 1, 1, 0>>,
    <<0, 0, 1, 1, 1, 1, 0, 2>>,
    <<1, 1, 1, 1, 1, 1, 2, 2>>,
    <<0, 2, 2, 1, 1, 2, 1, 2>>,
    <<2, 2, 2, 2, 2, 1, 1, 2>>,
    <<2, 2, 2, 1, 2, 2, 1, 2>>,
    <<2, 2, 2, 2, 2, 2, 2, 2>>,
    <<2, 2, 2, 2, 2, 2, 2, 2>>>>)

EndingC == Picture("Black",
  <<<<2, 0, 0, 2, 2, 2, 2, 0>>,
    <<2, 2, 1, 1, 1, 2, 1, 1>>,
    <<2, 2, 1, 1, 2, 2, 1, 1>>,
    <<2, 2, 1, 2, 2, 1, 1, 1>>,
    <<2, 2, 2, 1, 1, 1, 1, 1>>,
    <<2, 2, 1, 1, 1, 1, 1, 1>>,
    <<2, 0, 1, 1, 1, 2, 1, 1>>,
    <<0, 0, 1, 1, 1, 1, 1, 1>>>>)

MCStartBoards == EdgeBoards \cup {EndingA, EndingB, EndingC, OverBoard}

MCRequests ==
  LoadRequests \cup { BuiltIn(start) : start \in EdgeBoards }
  \cup {Tool(<<>>, {"default"}, EndingA), Tool(<<{"mixed"}>>, {"default"}, EndingB),
        Tool(<<{"shared"}>>, {}, EndingC), Tool(<<{"unknown"}>>, {"default"}, EndingC)}
=============================================================================
