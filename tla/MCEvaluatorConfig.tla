-------------------------- MODULE MCEvaluatorConfig --------------------------
(***************************************************************************)
(* Config files and table files, good and bad, and the tools that are      *)
(* started with them while a trainer writes the tables: a game that is     *)
(* over when it starts shows only how the evaluator is loaded.             *)
(***************************************************************************)
EXTENDS EvaluatorConfig

OverBoard ==
  [black |-> { s \in Squares : s % Width < 5 }, white |-> { s \in Squares : s % Width >= 5 },
   side_to_move |-> "White"]

Feature(p, f, number) == [key |-> <<p, f>>, text |-> {number}]
Word(name, word) == [key |-> <<"", name>>, text |-> word]
Threshold(name, number) == [key |-> <<"", name>>, text |-> {number}]
TablePath(p, path) ==
  [key |-> IF p = "" THEN <<"", "pattern_table">> ELSE <<"pattern_table", p>>, text |-> path]
OldNames == [corner_2x3_pattern |-> "legacy_corner_2x3_rule", edge_8_pattern |-> "legacy_edge_8_rule"]
Spelled(f, old) == IF old /\ f \in DOMAIN OldNames THEN OldNames[f] ELSE f

PhaseOrder == <<"opening", "midgame", "late">>
FeatureOrder ==
  <<"disc_difference", "mobility", "potential_mobility", "corner_occupancy", "corner_access",
    "x_square_danger", "frontier", "corner_local_2x3", "corner_2x3_pattern",
    "edge_stability_lite", "edge_8_pattern">>
FullFile(old) ==
  <<Word("schema_version", "eval.v1")>>
    \o [i \in 1 .. 33 |->
          LET p == PhaseOrder[((i - 1) \div 11) + 1]
              f == FeatureOrder[((i - 1) % 11) + 1]
          IN  Feature(p, Spelled(f, old), DefaultConfig.weights[p][f])]
    \o <<Threshold("opening_max_occupied", 20), Threshold("midgame_max_occupied", 44),
         Word("mode", "full")>>

\* The opening by its table, the midgame by the table of all phases and a
\* weight of its own, the late game without a table of its own.
MixedFile ==
  <<Feature("opening", "pattern_table", 1), TablePath("opening", <<"g.tsv">>),
    Feature("midgame", "mobility", 2), Word("mode", "pattern_only"),
    TablePath("", <<"w.tsv">>), Feature("late", "pattern_table", -1),
    Feature("midgame", "pattern_table", 3), Feature("midgame", "legacy_edge_8_rule", 5),
    Threshold("midgame_max_occupied", 61), Threshold("opening_max_occupied", 59)>>
\* One file by two spellings of one normal path.
SharedFile ==
  <<Word("name", "shared"), Word("mode", "pattern_only"), Feature("late", "pattern_table", 1),
    TablePath("opening", <<"g.tsv">>), Feature("midgame", "pattern_table", 1),
    TablePath("midgame", <<".", "g.tsv">>), Threshold("midgame_max_occupied", 60)>>
\* Tables a trainer writes while they are read: one by two spellings of one
\* normal path and by the path from the root, which is another; and one of which
\* a version cannot be read, after two others have been.
Spellings ==
  <<TablePath("opening", <<"tables", "t.tsv">>), Word("mode", "pattern_only"),
    TablePath("late", <<"/", "configs", "tables", "t.tsv">>),
    TablePath("midgame", <<".", "..", "configs", "sub", "..", "tables", "t.tsv">>)>>
Trained ==
  <<Word("mode", "pattern_only"), TablePath("late", <<"u.tsv">>), TablePath("midgame", <<"w.tsv">>),
    TablePath("opening", <<"g.tsv">>)>>
With(line) == <<Word("mode", "pattern_only"), Feature("late", "edge_8_pattern", 3), line>>
BadLines ==
  [twice |-> Word("mode", "full"), alias |-> Feature("late", "legacy_edge_8_rule", 3),
   unknown |-> Feature("endgame", "mobility", 1), nokey |-> Word("", "x"),
   number |-> [key |-> <<"late", "mobility">>, text |-> {}],
   limit |-> [key |-> <<"", "opening_max_occupied">>, text |-> {}],
   path |-> TablePath("late", <<>>), missing |-> TablePath("late", <<"gone.tsv">>),
   range |-> TablePath("late", <<"range.tsv">>), repeat |-> TablePath("late", <<"repeat.tsv">>),
   family |-> TablePath("late", <<"family.tsv">>), value |-> TablePath("late", <<"value.tsv">>),
   blank |-> TablePath("late", <<"blank.tsv">>)]
MCConfigFiles ==
  [default |-> FullFile(FALSE), oldnames |-> Reverse(FullFile(TRUE)),
   short |-> Tail(Tail(FullFile(FALSE))),
   nolimits |-> SubSeq(FullFile(FALSE), 1, 35),
   mixed |-> MixedFile, shared |-> SharedFile, spellings |-> Spellings, trained |-> Trained,
   schema |-> <<Word("schema_version", "eval.v2")>>, mode |-> <<Word("mode", "pattern")>>]
  @@ [name \in DOMAIN BadLines |-> With(BadLines[name])]

Entry(family, index, value) == [family |-> family, index |-> index, value |-> value]
MCTableFiles ==
  ("g" :> <<<<Entry("corner_2x3", 0, 5), Entry("edge_8", 6560, -7), Entry("diagonal_8", 3280, 9)>>>>)
  @@ ("w" :> <<<<Entry("edge_x_10", 29524, 4), Entry("corner_2x4", 3280, 1)>>>>)
  @@ ("t" :> <<<<Entry("edge_8", 0, 20), Entry("row_8", 3280, 11)>>,
               <<Entry("edge_8", 0, 30), Entry("row_8", 3280, 12)>>>>)
  @@ ("u" :> <<<<Entry("edge_x_10", 0, 4)>>, <<Entry("edge_x_10", 0, 4), Entry("", 0, 0)>>>>)
  @@ ("range" :> <<<<Entry("diagonal_4", 81, 1)>>>>)
  @@ ("repeat" :> <<<<Entry("edge_8", 1, 1), Entry("edge_8", 1, 1)>>>>)
  @@ ("family" :> <<<<Entry("edge_9", 1, 1)>>>>)
  @@ ("value" :> <<<<Entry("edge_8", 1, 32768)>>>>)
  @@ ("blank" :> <<<<>>>>)
\* A value cut after its first digit, and a line that is not one.
MCTornLines == {Entry("edge_8", 0, 2), Entry("", 0, 0)}

MCConfigFolder == <<"configs">>
MCFileAt ==
  [path \in { <<"configs", name>> : name \in {"g.tsv", "w.tsv", "u.tsv", "range.tsv", "repeat.tsv",
                "family.tsv", "value.tsv", "blank.tsv"} } |->
     CHOOSE file \in DOMAIN MCTableFiles : path[2] = file \o ".tsv"]
  @@ (<<"configs", "tables", "t.tsv">> :> "t") @@ (<<"/", "configs", "tables", "t.tsv">> :> "t")

Tool(args, default, start) ==
  [tool |-> TRUE, args |-> args, strict |-> TRUE, default |-> default, start |-> start]
BuiltIn(start) == [Tool(<<>>, {}, start) EXCEPT !.tool = FALSE]
Analyzer(args) == [Tool(args, {}, OverBoard) EXCEPT !.strict = FALSE]
LoadRequests ==
  { Tool(<<{name}>>, {"default"}, OverBoard) : name \in DOMAIN MCConfigFiles }
  \cup { Tool(args, {"default"}, OverBoard) :
           args \in {<<>>, <<{""}>>, <<{}>>, <<{"mixed"}, {"shared"}>>, <<{"nofile"}>>} }
  \cup {Analyzer(<<{"shared"}, {"mixed"}>>), Analyzer(<<{""}>>), Analyzer(<<{"shared"}, {}>>)}
  \cup {BuiltIn(OverBoard), Tool(<<>>, {}, OverBoard)}
=============================================================================
