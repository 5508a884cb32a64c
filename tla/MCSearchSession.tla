-------------------------- MODULE MCSearchSession ---------------------------
(***************************************************************************)
(* Small games for SearchSession: one graph, in worlds that differ by what *)
(* the evaluators make of its positions.                                   *)
(*                                                                         *)
(*   ply 0  empties 4   R   9 -> A  18 -> B                                *)
(*   ply 1  empties 3   A   1 -> D  18 -> E      B   9 -> E   1 -> P       *)
(*   ply 2  empties 2   D   0 -> x  19 -> y      E  19 -> y  20 -> z       *)
(*                      P   passes to P1                                   *)
(*   ply 3  empties 2   P1 19 -> w  20 -> v                                *)
(*          empties 1   x   2 -> x0      y   2 -> y0      z  (game over)   *)
(*   ply 4  empties 1   w   passes to x          v   3 -> v0               *)
(*          empties 0   x0, y0          ply 5  empties 0   v0              *)
(*                                                                         *)
(* E and y are reached along two lines; x is reached in ply 3 and, by two  *)
(* passes, in ply 5.  Square 9 is an X-square: it comes last in the static *)
(* order and first by index.  A and D have no pass below them, R, B, P do. *)
(***************************************************************************)
EXTENDS SearchSession, SequencesExt

CONSTANTS
  WorldCount,      \* how many worlds
  RootNodes, AskedDepths, AskedModes, AskedEntries,  \* the requests
  AskAspiration,   \* whether iterative searches narrow their windows
  OtherWorlds,     \* worlds asked with the other options too
  EvaluatorKind    \* "one", "weights" or "rows": what the evaluators differ in

Edges ==
  [R |-> (9 :> "A" @@ 18 :> "B"),
   A |-> (1 :> "D" @@ 18 :> "E"), B |-> (9 :> "E" @@ 1 :> "P"),
   D |-> (0 :> "x" @@ 19 :> "y"), E |-> (19 :> "y" @@ 20 :> "z"),
   P |-> << >>, P1 |-> (19 :> "w" @@ 20 :> "v"),
   x |-> (2 :> "x0"), y |-> (2 :> "y0"), z |-> << >>,
   w |-> << >>, v |-> (3 :> "v0"), x0 |-> << >>, y0 |-> << >>, v0 |-> << >>]
Nodes == DOMAIN Edges
PassTo == [n \in Nodes |-> CASE n = "P" -> "P1" [] n = "w" -> "x" [] OTHER -> n]
Level(n) ==
  CASE n = "R" -> 4
    [] n \in {"A", "B"} -> 3
    [] n \in {"D", "E", "P", "P1"} -> 2
    [] n \in {"x", "y", "z", "w", "v"} -> 1
    [] OTHER -> 0
BlackToMove == {"R", "D", "E", "P", "w", "v", "x0", "y0"}
WithPasses == {"R", "B", "P", "P1", "w"}

\* Children come before their parents.
NodeSeq == <<"x0", "y0", "v0", "x", "y", "z", "v", "w", "P1", "P", "E", "D",
             "B", "A", "R">>
NodeCount == Len(NodeSeq)
Index(n) == CHOOSE i \in 1 .. NodeCount : NodeSeq[i] = n
Id(w, n) == w * NodeCount + Index(n)
World(p) == (p - 1) \div NodeCount
NodeOf(p) == ((p - 1) % NodeCount) + 1
Node(p) == NodeSeq[NodeOf(p)]
PositionsTable == 1 .. NodeCount * WorldCount

\* Concatenation with << >> makes TLC tabulate a function on 1 .. n.
Table(f) == f \o << >>

MovesTable == Table([p \in PositionsTable |-> DOMAIN Edges[Node(p)]])
PlayTable == Table([p \in PositionsTable |->
  [m \in DOMAIN Edges[Node(p)] |-> Id(World(p), Edges[Node(p)][m])]])
PassTable == Table([p \in PositionsTable |-> Id(World(p), PassTo[Node(p)])])
SideTable == Table([p \in PositionsTable |-> Node(p) \in BlackToMove])
EmptiesTable == Table([p \in PositionsTable |-> Level(Node(p))])
HashBitsTable == Table([p \in PositionsTable |-> NodeOf(p)])
PassFreeTable == Table([p \in PositionsTable |-> Node(p) \notin WithPasses])

\* Final margins of a world, and the values and lines they give.
MarginTable == Table([p \in PositionsTable |-> ((World(p) + NodeOf(p)) % 3) - 1])
MaxIn(S) == CHOOSE v \in S : \A u \in S : u <= v
NegatedMaximum(n, of(_)) == MaxIn({ -of(Index(Edges[n][m])) : m \in DOMAIN Edges[n] })
\* Builds a table over the nodes, each from the rows of the nodes before it.
Rows(RowOf(_, _)) == FoldLeft(LAMBDA rows, n : Append(rows, RowOf(n, rows)), << >>, NodeSeq)

WorldValues(w) ==
  Rows(LAMBDA n, values :
         LET of(i) == values[i] IN
         IF DOMAIN Edges[n] # {} THEN NegatedMaximum(n, of)
         ELSE IF DOMAIN Edges[PassTo[n]] # {} THEN -of(Index(PassTo[n]))
         ELSE MarginTable[Id(w, n)])
ValueTable ==
  LET all == Table([w \in 1 .. WorldCount |-> WorldValues(w - 1)])
  IN  Table([p \in PositionsTable |-> all[World(p) + 1][NodeOf(p)]])
LowestBest(p) ==
  LET best == { m \in MovesTable[p] : -ValueTable[PlayTable[p][m]] = ValueTable[p] }
  IN  CHOOSE m \in best : \A n \in best : m <= n
ExactLinesTable == Table([p \in PositionsTable |->
  IF MovesTable[p] = {} THEN {<< >>} ELSE {<<LowestBest(p)>>}])

(***************************************************************************)
(* Evaluators.                                                             *)
(***************************************************************************)
Families ==
  {"corner_2x3", "corner_3x3", "edge_8", "edge_x_10", "row_8", "column_8",
   "diagonal_4", "diagonal_5", "diagonal_6", "diagonal_7", "diagonal_8",
   "inner_row_8", "corner_2x4"}
Blank == [weights |-> 0, tables |-> [f \in Families |-> 0]]
ContentsTable ==
  [plain |-> Blank, weighted |-> [Blank EXCEPT !.weights = 1],
   rows |-> [Blank EXCEPT !.tables["row_8"] = 1]]
EvaluatorsTable ==
  {"plain"} \cup (CASE EvaluatorKind = "weights" -> {"weighted"}
                   [] EvaluatorKind = "rows" -> {"rows"}
                   [] OTHER -> {})

\* evaluation_config_identity, exactly the families it hashes.
HashedFamilies ==
  {"corner_2x3", "corner_3x3", "edge_8", "edge_x_10", "diagonal_8", "inner_row_8"}
IdentityTable ==
  [e \in EvaluatorsTable |->
     <<ContentsTable[e].weights, [f \in HashedFamilies |-> ContentsTable[e].tables[f]]>>]
IdentitiesTable == { IdentityTable[e] : e \in EvaluatorsTable }

\* Scores -5 .. 5, scattered over the nodes and worlds; with a weight or a row
\* table set, others.
EvaluateTable ==
  [e \in EvaluatorsTable |-> Table([p \in PositionsTable |->
     LET k == NodeOf(p)
         w == World(p) + (IF e = "plain" THEN 0 ELSE 7)
     IN  ((k * k * (w + 1) + 3 * k + (w * w) \div 3) % 11) - 5])]

\* One node's values for depths 0 .. MaxDepth, from those of the nodes before.
DepthRow(e, w, n, rows) ==
  LET eval == EvaluateTable[e][Id(w, n)]
  IN  [d \in Depths |->
         LET of(i) == rows[i][d - 1]
         IN  IF d = 0 THEN eval
             ELSE IF DOMAIN Edges[n] # {} THEN NegatedMaximum(n, of)
             ELSE IF DOMAIN Edges[PassTo[n]] # {} THEN -of(Index(PassTo[n]))
             ELSE eval] @@ << >>
DepthValueTable ==
  [e \in EvaluatorsTable |->
     LET all == Table([w \in 1 .. WorldCount |->
                         Rows(LAMBDA n, rows : DepthRow(e, w - 1, n, rows))])
     IN  Table([p \in PositionsTable |-> all[World(p) + 1][NodeOf(p)]])]

\* The same with every choice of a depth at least the one asked for.
MixedValues(n, rows, d) ==
  IF DOMAIN Edges[n] # {}
  THEN { MaxIn({ -c[m] : m \in DOMAIN Edges[n] }) :
           c \in { g \in [DOMAIN Edges[n] -> -5 .. 5] :
                     \A m \in DOMAIN Edges[n] : g[m] \in rows[Index(Edges[n][m])][d - 1] } }
  ELSE { -v : v \in rows[Index(PassTo[n])][d - 1] }
MixedRow(e, w, n, rows) ==
  LET eval == EvaluateTable[e][Id(w, n)]
      over == DOMAIN Edges[n] = {} /\ DOMAIN Edges[PassTo[n]] = {}
      at(d) == IF d = 0 \/ over THEN {eval} ELSE MixedValues(n, rows, d)
  IN  [d \in Depths |-> UNION { at(k) : k \in d .. MaxDepth }] @@ << >>
SearchValuesTable ==
  [e \in EvaluatorsTable |->
     LET all == Table([w \in 1 .. WorldCount |->
                         Rows(LAMBDA n, rows : MixedRow(e, w - 1, n, rows))])
     IN  Table([p \in PositionsTable |-> all[World(p) + 1][NodeOf(p)]])]

(***************************************************************************)
(* The callers: one a world with the usual options, and some with others.  *)
(***************************************************************************)
UsualOptions ==
  [use_pvs |-> TRUE, store_leaf_tt_entries |-> TRUE,
   use_lazy_first_move_ordering |-> FALSE, use_shallow_tt_move_ordering_hint |-> FALSE,
   tt_min_probe_depth |-> 0, tt_min_store_depth |-> 0,
   use_aspiration_window |-> AskAspiration, aspiration_window |-> 1,
   aspiration_max_researches |-> 1, aspiration_profile |-> "ScoreDeltaAware",
   exact_endgame_empty_threshold |-> 0, exact_endgame_root_policy |-> "FixedThreshold"]
OtherOptions ==
  [UsualOptions EXCEPT
     !.store_leaf_tt_entries = FALSE, !.use_lazy_first_move_ordering = TRUE,
     !.use_shallow_tt_move_ordering_hint = TRUE,
     !.tt_min_probe_depth = 1, !.tt_min_store_depth = 1,
     !.aspiration_max_researches = 0, !.aspiration_profile = "Fixed",
     !.exact_endgame_empty_threshold = 1]
\* Adaptive16 solves x, and of the roots with two empty squares D, not E,
\* where the other side has many moves, nor P, which must pass.
AdaptiveOptions ==
  [OtherOptions EXCEPT !.exact_endgame_root_policy = "Adaptive16"]
OpponentMovesTable == Table([p \in PositionsTable |-> IF Node(p) = "E" THEN 3 ELSE 1])

\* In the first world only history and killers tell the moves of a node apart; in
\* the others mobility does, in one way or the other.
DynamicScoreTable == Table([p \in PositionsTable |->
  [m \in MovesTable[p] |-> IF World(p) % 3 = 0 THEN 0 ELSE IF World(p) % 3 = 1 THEN 25 * m ELSE -25 * m]])

CallersTable == 1 .. WorldCount + OtherWorlds + (IF OtherWorlds > 0 THEN 1 ELSE 0)
RequestsAt(w, roots, depths, modes, evaluators, options) ==
  { [root |-> Id(w, n), max_depth |-> d, mode |-> m, evaluator |-> e, entries |-> k,
     options |-> o] :
      n \in roots, d \in depths, m \in modes, e \in evaluators, k \in AskedEntries,
      o \in options }
RequestsOfTable == Table([c \in CallersTable |->
  IF c <= WorldCount
  THEN RequestsAt(c - 1, RootNodes, AskedDepths, AskedModes,
                  IF EvaluatorKind = "rows" THEN EvaluatorsTable ELSE {"plain"},
                  {UsualOptions})
  ELSE LET w == c - WorldCount - 1
       IN  IF w < OtherWorlds
           THEN RequestsAt(w, {"R", "x"}, {4, -1}, {"Iterative"}, EvaluatorsTable, {OtherOptions})
           ELSE RequestsAt(w, {"D", "E", "P", "x"}, {3}, {"FixedDepth"}, EvaluatorsTable,
                           {AdaptiveOptions})])
MaxSearchesTable == Table([c \in CallersTable |-> IF c <= WorldCount THEN 2 ELSE 3])

MCPositions == PositionsTable
MCMoves == MovesTable
MCPlay == PlayTable
MCPass == PassTable
MCSide == SideTable
MCEmpties == EmptiesTable
MCMargin == MarginTable
MCValue == ValueTable
MCHashBits == HashBitsTable
MCEvaluators == EvaluatorsTable
MCIdentities == IdentitiesTable
MCIdentityOf == IdentityTable
MCEvaluate == EvaluateTable
MCSearchValues == SearchValuesTable
MCDepthValue == DepthValueTable
MCPassFree == PassFreeTable
MCOpponentMoves == OpponentMovesTable
MCDynamicScore == DynamicScoreTable
MCMaxSearches == MaxSearchesTable
MCExactLines == ExactLinesTable
MCCallers == CallersTable
MCRequestsOf == RequestsOfTable
=============================================================================
