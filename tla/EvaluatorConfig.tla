-------------------------- MODULE EvaluatorConfig --------------------------
(***************************************************************************)
(* A tool chooses its evaluator and then plays with it: the --eval-config  *)
(* options of its command line (evaluator_cli.cpp), the file they or the   *)
(* project's default name (evaluator_selection.cpp), the file's lines      *)
(* (eval_config_io.cpp) and the table files it names (pattern_table_io.cpp)*)
(* while a trainer may be writing them.                                    *)
(*                                                                         *)
(* A line of a config file is [key, text] with the key as <<part, name>>,  *)
(* for "opening.mobility" <<"opening", "mobility">> and for "mode"         *)
(* <<"", "mode">>; its text is a set of one integer, or of none if it is   *)
(* not one, for a number, a string for a word, and a path for a path.  A   *)
(* path is the sequence of its names, "/" the first of an absolute one.  A *)
(* line of a table file is [family, index, value], the family "" if it is  *)
(* not that.                                                               *)
(***************************************************************************)
EXTENDS Evaluation, SequencesExt

CONSTANTS
  Requests,      \* who plays: [tool, args, strict, default, start]
  ConfigFiles,   \* the config files there are: name -> lines
  ConfigFolder,  \* the folder they are in, a path
  FileAt,        \* the table file that is opened by a normal path
  TableFiles,    \* the table files: name -> the sequence of their versions
  TornLines      \* what a line may be that is read while its file is written

VARIABLE loader

loader_vars == <<loader, board, position, hash>>

NoName == ""
NoPath == <<>>
SchemaVersion == "eval.v1"
Nothing == [name \in {} |-> 0]
Extended(f, x, y) == [z \in DOMAIN f \cup {x} |-> IF z = x THEN y ELSE f[z]]

NewSelection(request) ==
  [at |-> IF request.tool THEN "args" ELSE "playing", request |-> request, arg |-> 1, chosen |-> {},
   file |-> NoName, next |-> 1, seen_keys |-> {}, seen_features |-> {}, seen_configs |-> {},
   mode |-> "full", paths |-> Nothing, config |-> DefaultConfig, cache |-> Nothing, got |-> <<>>,
   \* Of the files: their versions, those being written, the readings one wrote into.
   written |-> [f \in DOMAIN TableFiles |-> 1], unfinished |-> {}, torn |-> {}]

\* A search that no tool selected an evaluator for has the built-in one.
EvaluatorInit ==
  \E request \in Requests :
    /\ loader = NewSelection(request)
    /\ board = request.start
    /\ position = FromBoard(board)
    /\ hash = ZobristHash(board)

NoPly == UNCHANGED vars
Refuse == loader' = [loader EXCEPT !.at = "refused"]

(***************************************************************************)
(* Choosing the file.                                                      *)
(***************************************************************************)
\* parse_evaluator_cli_option: an option is a set of its file, or of none if the
\* command line ends with it.  The tools refuse an empty and a second path, but
\* for the analyzer, whose parser takes the last one.
ParseOption ==
  /\ loader.at = "args" /\ loader.arg <= Len(loader.request.args)
  /\ LET path == loader.request.args[loader.arg]
     IN  IF path = {} \/ (loader.request.strict /\ (path = {NoName} \/ loader.chosen # {}))
         THEN Refuse
         ELSE loader' = [loader EXCEPT !.chosen = path, !.arg = @ + 1]
  /\ NoPly

\* parse_evaluator_selection, and the opening of the file.
Select ==
  /\ loader.at = "args" /\ loader.arg > Len(loader.request.args)
  /\ LET file == IF loader.chosen # {} THEN loader.chosen ELSE loader.request.default
     IN  IF file \subseteq DOMAIN ConfigFiles /\ file # {}
         THEN loader' = [loader EXCEPT !.at = "lines", !.file = CHOOSE f \in file : TRUE]
         ELSE Refuse
  /\ NoPly

(***************************************************************************)
(* parse_evaluation_config.                                                *)
(***************************************************************************)
FeatureAlias ==
  [legacy_corner_2x3_rule |-> "corner_2x3_pattern", legacy_edge_8_rule |-> "edge_8_pattern"]
FeatureNamed(name) == IF name \in DOMAIN FeatureAlias THEN FeatureAlias[name] ELSE name
\* feature_key_index: the phase and the feature of a key, an alias resolved.
FeatureOf(key) == <<key[1], FeatureNamed(key[2])>>
FeatureKeys == Phases \X Features
Thresholds == {"opening_max_occupied", "midgame_max_occupied"}
Targets == <<NoName, "opening", "midgame", "late">>
TableKeys == {<<NoName, "pattern_table">>, <<"pattern_table", "opening">>,
              <<"pattern_table", "midgame">>, <<"pattern_table", "late">>}
TargetOf(key) == IF key[1] = NoName THEN NoName ELSE key[2]
\* required_in_full_config
RequiredFeatures == Phases \X (Features \ {"pattern_table"})

\* A line of a table file, and those a reading may meet.
TableLines == [family : STRING, index : Int, value : Int]

\* A key is two names; an integer, or none, is said of a feature or a threshold.
\* A table file has a first version, and what is opened is one of them.
ASSUME ConfigAssumption ==
  /\ \A request \in Requests : request.start \in Boards
  /\ \A file \in DOMAIN ConfigFiles :
       LET lines == ConfigFiles[file]
       IN  /\ Len(lines) \in Nat /\ DOMAIN lines = 1 .. Len(lines)
           /\ \A i \in DOMAIN lines :
                /\ lines[i].key \in STRING \X STRING
                /\ FeatureOf(lines[i].key) \in FeatureKeys
                     \/ lines[i].key \in {NoName} \X Thresholds => lines[i].text \in SUBSET Int
  /\ \A file \in DOMAIN TableFiles : TableFiles[file] \in Seq(Seq(TableLines)) \ {<<>>}
  /\ \A path \in DOMAIN FileAt : FileAt[path] \in DOMAIN TableFiles
  /\ TornLines \subseteq TableLines

Lines == ConfigFiles[loader.file]
Accept(read, key) == [read EXCEPT !.next = @ + 1, !.seen_keys = @ \cup {key}]

ZeroFeatures(config, keys) ==
  [config EXCEPT !.weights = [p \in Phases |-> [f \in Features |->
     IF <<p, f>> \in keys THEN 0 ELSE @[p][f]]]]

\* Mutation: the features are set to 0 where the mode stands.
ModeReadAtOnce(read, mode) ==
  [read EXCEPT !.mode = mode,
     !.config = IF mode = "full" THEN @ ELSE ZeroFeatures(@, FeatureKeys)]
ModeRead(read, mode) == [read EXCEPT !.mode = mode]

\* Mutation: only the same spelling of a feature is a second one.
FeatureUnseenAsSpelled(read, key) == key \notin read.seen_keys
\* A feature is set once, by its name or by its alias.
FeatureUnseen(read, key) == FeatureOf(key) \notin read.seen_features

\* What is read after a line: one result, or none if the line is refused.  A
\* line without an equals sign has the empty key, which names nothing.
LineRead(read, key, text) ==
  IF key \in read.seen_keys THEN {}
  ELSE { r \in {read} : key = <<NoName, "name">> }
  \cup { r \in {read} : key = <<NoName, "schema_version">> /\ text = SchemaVersion }
  \cup { ModeRead(read, text) :
           k \in { k \in {key} : k = <<NoName, "mode">> /\ text \in {"full", "pattern_only"} } }
  \cup { [read EXCEPT !.paths = Extended(@, TargetOf(k), text)] :
           k \in { k \in TableKeys \cap {key} : text # NoPath } }
  \cup (UNION { { [read EXCEPT !.seen_features = @ \cup {k},
                               !.config.weights[k[1]][k[2]] = value] : value \in text } :
                k \in { k \in FeatureKeys \cap {FeatureOf(key)} : FeatureUnseen(read, key) } })
  \cup (UNION { { [read EXCEPT !.seen_configs = @ \cup {name},
                               !.config[name] = value] : value \in text } :
                name \in { name \in Thresholds : key = <<NoName, name>> } })

ReadLine ==
  /\ loader.at = "lines" /\ loader.next <= Len(Lines)
  /\ LET line == Lines[loader.next]
         read == LineRead(loader, line.key, line.text)
     IN  IF read = {} THEN Refuse ELSE \E r \in read : loader' = Accept(r, line.key)
  /\ NoPly

\* A file of tables only sets what it leaves out to 0; any other must set all.
EndOfFile ==
  /\ loader.at = "lines" /\ loader.next > Len(Lines)
  /\ IF loader.mode = "pattern_only"
     THEN loader' = [loader EXCEPT !.at = "tables", !.next = 1,
            !.config = ZeroFeatures(@, FeatureKeys \ loader.seen_features)]
     ELSE IF RequiredFeatures \subseteq loader.seen_features /\ Thresholds = loader.seen_configs
     THEN loader' = [loader EXCEPT !.at = "tables", !.next = 1]
     ELSE Refuse
  /\ NoPly

(***************************************************************************)
(* The tables.                                                             *)
(***************************************************************************)
\* load_pattern_table_file of the lines a file has: a bundle, or none.  The
\* values are 16 bits wide.
TableValues == -32768 .. 32767
FamilyEntries(lines, family) ==
  [index \in { lines[i].index : i \in { k \in DOMAIN lines : lines[k].family = family } } |->
     (CHOOSE line \in { lines[k] : k \in DOMAIN lines } :
        line.family = family /\ line.index = index).value]
TableRead(lines) ==
  IF /\ lines # <<>>
     /\ \A i \in DOMAIN lines :
          /\ lines[i].family \in Families /\ lines[i].value \in TableValues
          /\ lines[i].index \in 0 .. TableSize[lines[i].family] - 1
     /\ \A i, j \in DOMAIN lines :
          i # j => lines[i].family # lines[j].family \/ lines[i].index # lines[j].index
  THEN {[family \in Families |-> FamilyEntries(lines, family)]}
  ELSE {}

\* The path of a table is meant from the folder of the config file, and taken
\* in its normal form: without "." and without a name that ".." takes back.
Resolved(path) == IF Head(path) = "/" THEN path ELSE ConfigFolder \o path
Normal(path) ==
  FoldLeft(LAMBDA before, name :
             CASE name = "." -> before
               [] name = ".." /\ before = <<"/">> -> before
               [] name = ".." /\ before # <<>> /\ Last(before) # ".." /\ before # <<"/">> -> Front(before)
               [] OTHER -> Append(before, name),
           <<>>, path)
\* PatternTableCache knows a table by the words of that path, not by its file.
CacheKey(path) == Normal(Resolved(path))

WithTable(config, target, bundle) ==
  IF target = NoName THEN [config EXCEPT !.pattern_tables = {bundle}]
  ELSE [config EXCEPT !.phase_tables[target] = {bundle}]

\* load_optional_pattern_table and PatternTableCache::load, target by target.
AtTarget == loader.at = "tables" /\ loader.next <= Len(Targets)
NextTarget == Targets[loader.next]
NormalPath == CacheKey(loader.paths[NextTarget])
TableFile == FileAt[NormalPath]

SkipTarget ==
  /\ AtTarget /\ NextTarget \notin DOMAIN loader.paths
  /\ loader' = [loader EXCEPT !.next = @ + 1]
  /\ NoPly

TakeKept ==
  /\ AtTarget /\ NextTarget \in DOMAIN loader.paths /\ NormalPath \in DOMAIN loader.cache
  /\ loader' = [loader EXCEPT !.next = @ + 1, !.config = WithTable(@, NextTarget, loader.cache[NormalPath])]
  /\ NoPly

OpenTable ==
  /\ AtTarget /\ NextTarget \in DOMAIN loader.paths /\ NormalPath \notin DOMAIN loader.cache
  /\ IF NormalPath \notin DOMAIN FileAt THEN Refuse
     ELSE loader' = [loader EXCEPT !.at = "table", !.got = <<>>,
                       !.torn = IF TableFile \in loader.unfinished THEN @ \cup {NormalPath} ELSE @]
  /\ NoPly

\* load_pattern_table_file, line by line.  What is read of a file while it is
\* written is a line of one of its versions or a piece of one.
OnDisk == TableFiles[TableFile][loader.written[TableFile]]
LinesToRead ==
  IF NormalPath \in loader.torn
  THEN TornLines \cup UNION { Range(TableFiles[TableFile][n]) : n \in 1 .. loader.written[TableFile] }
  ELSE { OnDisk[i] : i \in {Len(loader.got) + 1} \cap DOMAIN OnDisk }

ReadTableLine ==
  /\ loader.at = "table"
  /\ \E line \in LinesToRead :
       LET got == Append(loader.got, line)
       IN  IF TableRead(got) = {} THEN Refuse ELSE loader' = [loader EXCEPT !.got = got]
  /\ NoPly

\* The end of the file: of the piece of it there was, if it is being written.
KeepTable ==
  /\ loader.at = "table" /\ (NormalPath \in loader.torn \/ loader.got = OnDisk)
  /\ IF TableRead(loader.got) = {} THEN Refuse
     ELSE \E bundle \in TableRead(loader.got) :
            loader' = [loader EXCEPT !.at = "tables", !.next = @ + 1, !.got = <<>>,
                         !.config = WithTable(@, NextTarget, bundle),
                         !.cache = Extended(@, NormalPath, bundle)]
  /\ NoPly

Loaded == loader.at = "tables" /\ loader.next > Len(Targets)
\* apply_evaluator_selection, resolve_evaluator_selection
Selected ==
  /\ Loaded
  /\ loader' = [loader EXCEPT !.at = "playing"]
  /\ NoPly

\* Outside: a trainer writes the next version of a table file the config names
\* where the last one stood, and may never get to its end.
FilesNamed ==
  { FileAt[key] : key \in DOMAIN FileAt
      \cap { CacheKey(Lines[i].text) : i \in { k \in DOMAIN Lines :
               Lines[k].key \in TableKeys /\ Lines[k].text # NoPath } } }
BeginWrite ==
  /\ loader.at \in {"lines", "tables", "table"}
  /\ \E file \in FilesNamed \ loader.unfinished :
       /\ loader.written[file] < Len(TableFiles[file])
       /\ loader' = [loader EXCEPT !.written[file] = @ + 1, !.unfinished = @ \cup {file},
                       !.torn = IF loader.at = "table" /\ file = TableFile THEN @ \cup {NormalPath} ELSE @]
  /\ NoPly

EndWrite ==
  /\ loader.at \in {"lines", "tables", "table"}
  /\ \E file \in loader.unfinished : loader' = [loader EXCEPT !.unfinished = @ \ {file}]
  /\ NoPly

\* The tool plays with its evaluator.
Play == loader.at = "playing" /\ Next /\ UNCHANGED loader

LoadTables == SkipTarget \/ TakeKept \/ OpenTable \/ ReadTableLine \/ KeepTable \/ Selected
Loading == ParseOption \/ Select \/ ReadLine \/ EndOfFile \/ LoadTables
WriteTable == BeginWrite \/ EndWrite

EvaluatorSpec ==
  /\ EvaluatorInit
  /\ [][Loading \/ WriteTable \/ Play]_loader_vars
  /\ WF_loader_vars(Loading \/ Play)

(***************************************************************************)
(* Properties of the loader.                                               *)
(***************************************************************************)
LinesOf(keys) == { i \in DOMAIN Lines : Lines[i].key \in keys }
Said(keys) == { Lines[i].text : i \in LinesOf(keys) }
Says(key) == Said({key})
KeysOfFeature(p, f) == { <<p, name>> : name \in { n \in Features \cup DOMAIN FeatureAlias : FeatureNamed(n) = f } }

TableOf(config, target) ==
  IF target = NoName THEN config.pattern_tables ELSE config.phase_tables[target]
\* A table that something was read into, each entry in its place and range.
IsTable(bundle) ==
  /\ DOMAIN bundle = Families /\ \E family \in Families : DOMAIN bundle[family] # {}
  /\ \A family \in Families : \A index \in DOMAIN bundle[family] :
       index \in 0 .. TableSize[family] - 1 /\ bundle[family][index] \in TableValues
\* The normal form of where a path of the config leads.
Place(path) == Normal(Resolved(path))
\* The readings a trainer wrote into, and the file may hold anything by then.
Disturbed(key) == key \in loader.torn /\ loader.written[FileAt[key]] > 1
\* What a reading of the path may have brought: never nothing, and the table of
\* a version of the file if no trainer wrote into it.
TableAsWritten(target, path) ==
  LET key == Place(path)
  IN  \E bundle \in TableOf(loader.config, target) :
        /\ TableOf(loader.config, target) = {bundle} /\ IsTable(bundle)
        /\ Disturbed(key) \/ \E n \in 1 .. loader.written[FileAt[key]] :
             TableRead(TableFiles[FileAt[key]][n]) = {bundle}

\* The evaluator a tool plays with is the one its file describes, whatever the
\* order of the lines: the weights it states under either name, 0 for those a
\* file of tables only leaves out, its thresholds, and for each target a table,
\* whole and of a version of the file named unless a trainer wrote into the
\* reading of it: load_pattern_table_file takes a torn file that has well-formed
\* lines (parse_evaluation_config, its end, load_evaluation_config_file).
LoadedIsWritten ==
  LET only == Says(<<NoName, "mode">>) = {"pattern_only"}
      unsaid(p, f) == IF only THEN 0 ELSE DefaultConfig.weights[p][f]
  IN  /\ \A p \in Phases, f \in Features :
           LET said == UNION Said(KeysOfFeature(p, f))
           IN  loader.config.weights[p][f] \in (IF said = {} THEN {unsaid(p, f)} ELSE said)
      /\ \A name \in Thresholds :
           LET said == UNION Says(<<NoName, name>>)
           IN  loader.config[name] \in (IF said = {} THEN {DefaultConfig[name]} ELSE said)
      /\ \A key \in TableKeys :
           IF Says(key) = {} THEN TableOf(loader.config, TargetOf(key)) = {}
           ELSE \E path \in Says(key) : TableAsWritten(TargetOf(key), path)

\* Targets whose paths have one normal form share one reading of the file,
\* whatever is written to it meanwhile: the reason for PatternTableCache.  Two
\* paths of one file that differ in their normal form, an absolute one and one
\* from the folder, are read twice and may have two tables.
TargetsShareTables ==
  \A p, q \in DOMAIN loader.paths :
    Place(loader.paths[p]) = Place(loader.paths[q]) =>
      TableOf(loader.config, p) = TableOf(loader.config, q)

\* What a file says is what is loaded (load_evaluation_config_file).
LoadedAsAsked == Loaded => LoadedIsWritten /\ TargetsShareTables

\* The file is one a tool should take: no key or feature stated twice, nothing
\* unknown or malformed, everything stated that must be.
FeatureLines == { i \in DOMAIN Lines : FeatureOf(Lines[i].key) \in FeatureKeys }
WellFormedFile ==
  /\ Cardinality({ Lines[i].key : i \in DOMAIN Lines }) = Len(Lines)
  /\ Cardinality({ FeatureOf(Lines[i].key) : i \in FeatureLines }) = Cardinality(FeatureLines)
  /\ \A i \in DOMAIN Lines :
       LET key == Lines[i].key IN
       \/ i \in FeatureLines /\ Lines[i].text # {}
       \/ key[1] = NoName /\ key[2] \in Thresholds /\ Lines[i].text # {}
       \/ key \in TableKeys /\ Lines[i].text # NoPath
       \/ key = <<NoName, "name">>
       \/ key = <<NoName, "schema_version">> /\ Lines[i].text = SchemaVersion
       \/ key = <<NoName, "mode">> /\ Lines[i].text \in {"full", "pattern_only"}
  /\ Says(<<NoName, "mode">>) # {"pattern_only"} =>
       /\ \A name \in Thresholds : Says(<<NoName, name>>) # {}
       /\ \A p \in Phases, f \in Features \ {"pattern_table"} : LinesOf(KeysOfFeature(p, f)) # {}

\* A tool never plays with a file it should refuse, and never refuses a good
\* file but for a table of its own: one that is missing, has a version that
\* cannot be read, or was written while it was read.
BadConfigsRefused ==
  /\ Loaded => WellFormedFile
  /\ loader.at = "refused" /\ loader.file # NoName /\ WellFormedFile =>
       \E key \in TableKeys : \E path \in Says(key) :
         \/ Place(path) \notin DOMAIN FileAt
         \/ Disturbed(Place(path))
         \/ \E n \in 1 .. loader.written[FileAt[Place(path)]] :
              TableRead(TableFiles[FileAt[Place(path)]][n]) = {}

\* Whoever starts a tool gets a game that ends or an error.
ToolPlaysOrRefuses == <>(loader.at = "refused" \/ (loader.at = "playing" /\ IsGameOver(board)))

(***************************************************************************)
(* Properties of the evaluator the tool plays with.                        *)
(***************************************************************************)
Evaluator == loader.config
TablesUsed(config) == \E p \in Phases : config.weights[p]["pattern_table"] # 0

\* Without learned tables, what a board is worth to one side is what it costs
\* the other: search_node negates values on that ground, and nothing in the rule
\* tables, written for both colours, says so (corner_2x3_rule_value,
\* edge_8_rule_value).
ColoursBalanced == loader.at = "playing" /\ ~TablesUsed(Evaluator) => ZeroSum(board, Evaluator)

\* Without learned tables, a board is worth the same as its mirror images and, in
\* all but the corner pattern, whose two rows of three are mirrored and never
\* transposed, as a transposed one (edge_corner_specs, corner_2x3_pattern_specs).
MirrorsAlike ==
  loader.at = "playing" /\ ~TablesUsed(Evaluator) =>
    /\ Mirrored(board, Evaluator, FlippedFiles) /\ Mirrored(board, Evaluator, FlippedRanks)
    /\ TransposedAlike(board, Evaluator, "midgame")

\* The evaluator prefers neither a colour nor a side of the board.
EvaluatorSymmetric == ColoursBalanced /\ MirrorsAlike

\* The score a search uses, by the fast path or not, is the total the breakdown
\* shows, in every phase and at the end of the game (evaluate_score_only and
\* evaluate_basic_breakdown).
ScoreIsBreakdownTotal ==
  loader.at = "playing" =>
    \A side \in Sides :
      LET player == discs(board, side)
          opp == discs(board, opponent(side))
          total == Breakdown(player, opp, Evaluator).total
      IN  /\ Evaluate(player, opp, Evaluator) = total
          /\ ScoreOnly(player, opp, Evaluator, FastPathPhases(Evaluator)) = total

\* All instances of a family are one pattern seen in different symmetries of
\* the board, cell for cell, so that a table learned from one serves them all;
\* the rows and the columns, shifted copies, are each other's transposes.  The
\* index of each is in its table and tells the state of each of its squares: no
\* two states of the squares share an entry (pattern_index_for_squares).
PatternsAligned ==
  /\ \A family \in Families : IndexReadsBack(board, family)
  /\ \A family \in Families \ {"row_8", "column_8"} :
       \A i \in DOMAIN PatternSquares[family] :
         Aligned(board, PatternSquares[family][1], PatternSquares[family][i])
  /\ \A n \in 1 .. 8 : \A k \in 1 .. 8 :
       PatternSquares["column_8"][n][k] = Transposed(PatternSquares["row_8"][n][k])
=============================================================================
