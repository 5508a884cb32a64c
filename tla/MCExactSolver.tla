---------------------------- MODULE MCExactSolver ----------------------------
(***************************************************************************)
(* Small games for ExactSolver.  A position is a node of one fixed graph   *)
(* in a world, which fixes the margins of the final positions and the      *)
(* heuristic order of the moves.                                           *)
(*                                                                         *)
(*   empties 5   R                  0 -> C   1 -> A   2 -> B               *)
(*   empties 4   A  0 -> D 1 -> E     B  0 -> E 2 -> F     C  (game over)  *)
(*   empties 3   D  0 -> g 1 -> h     E  passes to E1      F 0 -> k 1 -> g *)
(*               E1 1 -> h1 3 -> K                                         *)
(*   empties 2   g  0 -> x 1 -> y     h  passes to h1      k  (game over)  *)
(*               h1 1 -> y1 4 -> z                         K  (game over)  *)
(*   empties 1   x  1 -> x0           y  passes to y1      z  (game over)  *)
(*               y1 5 -> y0                                                *)
(*   empties 0   x0, y0                                                    *)
(*                                                                         *)
(* E, g, h1 and y1 are reached along several lines; E, h and y pass.       *)
(***************************************************************************)
EXTENDS ExactSolver, TLC

CONSTANTS Spread, Orders, TablelessOrders

Level(n) ==
  CASE n = "R" -> 5
    [] n \in {"A", "B", "C"} -> 4
    [] n \in {"D", "E", "E1", "F"} -> 3
    [] n \in {"g", "h", "h1", "k", "K"} -> 2
    [] n \in {"x", "y", "y1", "z"} -> 1
    [] OTHER -> 0

Edges ==
  [R |-> (0 :> "C" @@ 1 :> "A" @@ 2 :> "B"),
   A |-> (0 :> "D" @@ 1 :> "E"), B |-> (0 :> "E" @@ 2 :> "F"),
   D |-> (0 :> "g" @@ 1 :> "h"), E1 |-> (1 :> "h1" @@ 3 :> "K"),
   F |-> (0 :> "k" @@ 1 :> "g"),
   g |-> (0 :> "x" @@ 1 :> "y"), h1 |-> (1 :> "y1" @@ 4 :> "z"),
   x |-> (1 :> "x0"), y1 |-> (5 :> "y0"),
   C |-> << >>, E |-> << >>, h |-> << >>, k |-> << >>, K |-> << >>, y |-> << >>,
   z |-> << >>, x0 |-> << >>, y0 |-> << >>]
Nodes == DOMAIN Edges
PassTo == [n \in Nodes |-> CASE n = "E" -> "E1" [] n = "h" -> "h1"
                             [] n = "y" -> "y1" [] OTHER -> n]

\* The side to move: a ply from R changes it, played or passed.
BlackToMove == {"R", "D", "E", "F", "h1", "K", "x", "y", "y0"}

\* Two margins next to each other and the greatest loss there is.
Margins == <<0, 1, -FinalDiscMarginMax>>

\* A world is a number: five digits to base Spread, the margins of C, k, z,
\* x0 and y0, above one digit to base Orders, whose bits say where the
\* heuristic prefers the higher squares.
\* K ends with the margin of k.
FinalNodes == <<"C", "k", "z", "x0", "y0">>
Digit(w, i) == (w \div Spread ^ i) % Spread
FinalMargin(w, n) ==
  IF \E i \in 1 .. 5 : FinalNodes[i] = n
  THEN Margins[Digit(w, CHOOSE i \in 0 .. 4 : FinalNodes[i + 1] = n) + 1]
  ELSE IF n = "K" THEN Margins[Digit(w, 1) + 1] ELSE 0
OrderNodes == <<"R", "A", "B", "D", "E1", "F">>
Descending(w, n) ==
  \E i \in 1 .. 6 : /\ OrderNodes[i] = n
                    /\ ((w \div Spread ^ 5) \div 2 ^ (i - 1)) % 2 = 1
\* The worlds with the last orders are solved without a table.
WithoutTable(w) == w \div Spread ^ 5 >= Orders - TablelessOrders
Worlds == 0 .. Spread ^ 5 * Orders - 1

\* Children come before their parents; a position is a number, world by world.
NodeSeq == <<"x0", "y0", "z", "y1", "y", "x", "k", "K", "h1", "h", "g", "F", "E1",
             "E", "D", "C", "B", "A", "R">>
NodeCount == Len(NodeSeq)
Id(w, n) == w * NodeCount + CHOOSE i \in 1 .. NodeCount : NodeSeq[i] = n
World(p) == (p - 1) \div NodeCount
Node(p) == NodeSeq[((p - 1) % NodeCount) + 1]

PositionsTable == 1 .. NodeCount * Spread ^ 5 * Orders

\* Concatenation with << >> makes TLC tabulate a function on 1 .. n.
Table(f) == f \o << >>

MovesTable == Table([p \in PositionsTable |-> DOMAIN Edges[Node(p)]])
PlayTable == Table([p \in PositionsTable |->
  [m \in DOMAIN Edges[Node(p)] |-> Id(World(p), Edges[Node(p)][m])]])
PassTable == Table([p \in PositionsTable |-> Id(World(p), PassTo[Node(p)])])
SideTable == Table([p \in PositionsTable |-> Node(p) \in BlackToMove])
MarginTable == Table([p \in PositionsTable |-> FinalMargin(World(p), Node(p))])
EmptiesTable == Table([p \in PositionsTable |-> Level(Node(p))])
\* Square 1 of R is tried first or last, the others in between by index.
OrderScoreTable == Table([p \in PositionsTable |->
  [m \in DOMAIN Edges[Node(p)] |->
     IF ~Descending(World(p), Node(p)) THEN 0
     ELSE IF Node(p) = "R" THEN m % 2 ELSE m]])
BucketIndexTable == Table([p \in PositionsTable |-> IF BucketCount = 0 THEN 0 ELSE Level(Node(p)) % BucketCount])
TablelessTable == { p \in PositionsTable : WithoutTable(World(p)) }
RootsTable == { Id(w, "R") : w \in Worlds }

\* The values of a world's nodes, children first.
WorldValues(w) ==
  LET upTo[k \in 0 .. NodeCount] ==
        IF k = 0 THEN << >>
        ELSE LET values == upTo[k - 1]
                 edges == Edges[NodeSeq[k]]
                 passed == PassTo[NodeSeq[k]]
                 of(n) == values[CHOOSE i \in 1 .. k : NodeSeq[i] = n]
                 best == { -of(edges[m]) : m \in DOMAIN edges }
             IN  Append(values,
                   IF DOMAIN edges # {} THEN CHOOSE u \in best : \A v \in best : v <= u
                   ELSE IF DOMAIN Edges[passed] # {} THEN -of(passed)
                   ELSE FinalMargin(w, NodeSeq[k]))
  IN  upTo[NodeCount]
ValueTable ==
  LET all == Table([w \in 1 .. Spread ^ 5 * Orders |-> WorldValues(w - 1)])
  IN  Table([p \in PositionsTable |-> all[World(p) + 1][((p - 1) % NodeCount) + 1]])

\* TLC evaluates a definition once, but a definition that stands for a
\* constant each time: these stand for the constants.
MCPositions == PositionsTable
MCMoves == MovesTable
MCPlay == PlayTable
MCPass == PassTable
MCSide == SideTable
MCMargin == MarginTable
MCEmpties == EmptiesTable
MCOrderScore == OrderScoreTable
MCBucketIndex == BucketIndexTable
MCTableless == TablelessTable
MCRoots == RootsTable
MCValue == ValueTable
=============================================================================
