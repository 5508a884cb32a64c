----------------------- MODULE EvaluatorConfigProofs -----------------------
(***************************************************************************)
(* Proofs about the loading of an evaluator: what the first n lines of a   *)
(* config file have said is what the loader holds (Heard), the tables set  *)
(* so far are those of versions of the files named, or of readings that a  *)
(* trainer wrote into (TablesInv), the reading under way is the beginning  *)
(* of its file (ReadingInv), and a file refused has a line, a gap or a     *)
(* table to be refused for (LoaderInv).                                    *)
(* Then about the scores it gives on the boards of a game: a score is the  *)
(* total of its breakdown, exchanging the colours negates it and a mirror  *)
(* leaves it as it is, and the patterns a learned table is read for are    *)
(* one pattern seen in several symmetries.                                 *)
(***************************************************************************)
EXTENDS EvaluatorConfig, BoardProofs

(***************************************************************************)
(* The lines of a config file.                                             *)
(***************************************************************************)
KeyNames == STRING \X STRING
NameKey == <<NoName, "name">>
SchemaKey == <<NoName, "schema_version">>
ModeKey == <<NoName, "mode">>
Modes == {"full", "pattern_only"}
LimitKeys == {NoName} \X Thresholds
FeatureKey(key) == FeatureOf(key) \in FeatureKeys

WithFeature(read, k, value) ==
  [read EXCEPT !.seen_features = @ \cup {k}, !.config.weights[k[1]][k[2]] = value]
WithLimit(read, name, value) ==
  [read EXCEPT !.seen_configs = @ \cup {name}, !.config[name] = value]
WithPath(read, key, text) == [read EXCEPT !.paths = Extended(@, TargetOf(key), text)]

\* The ways a line is read.
ReadsNothing(read, key, text, r) ==
  r = read /\ (key = NameKey \/ (key = SchemaKey /\ text = SchemaVersion))
ReadsMode(read, key, text, r) == key = ModeKey /\ text \in Modes /\ r = ModeRead(read, text)
ReadsPath(read, key, text, r) ==
  key \in TableKeys /\ text # NoPath /\ r = WithPath(read, key, text)
ReadsFeature(read, key, text, r) ==
  /\ FeatureKey(key) /\ FeatureUnseen(read, key)
  /\ \E value \in text : r = WithFeature(read, FeatureOf(key), value)
ReadsLimit(read, key, text, r) ==
  \E name \in Thresholds : key = <<NoName, name>> /\ \E value \in text : r = WithLimit(read, name, value)

LEMMA WordsDiffer ==
  /\ NoName \notin Phases /\ NoName # "pattern_table" /\ "pattern_table" \notin Phases
  /\ NoName \notin {"opening", "midgame", "late"}
BY Zenon DEF NoName, Phases

LEMMA FirstWords ==
  /\ \A key : FeatureKey(key) => key[1] \in Phases
  /\ \A key \in TableKeys : key[1] \notin Phases
  /\ NameKey[1] \notin Phases /\ SchemaKey[1] \notin Phases /\ ModeKey[1] \notin Phases
  /\ \A name : <<NoName, name>>[1] \notin Phases
<1>1. \A key : FeatureKey(key) => key[1] \in Phases
  BY DEF FeatureKey, FeatureOf, FeatureKeys
<1>2. \A key \in TableKeys : key[1] \notin Phases
  BY WordsDiffer DEF TableKeys, Phases
<1>3. \A name : <<NoName, name>>[1] = NoName
  OBVIOUS
<1> QED
  BY <1>1, <1>2, <1>3, WordsDiffer DEF NameKey, SchemaKey, ModeKey

\* A line is of one kind.
LEMMA KindsDiffer ==
  /\ \A key \in TableKeys : ~FeatureKey(key) /\ key \notin {NameKey, SchemaKey, ModeKey}
                            /\ \A name \in Thresholds : key # <<NoName, name>>
  /\ \A key \in {NameKey, SchemaKey, ModeKey} :
       ~FeatureKey(key) /\ \A name \in Thresholds : key # <<NoName, name>>
  /\ \A name \in Thresholds : ~FeatureKey(<<NoName, name>>)
  /\ ModeKey # NameKey /\ ModeKey # SchemaKey
<1>1. \A key \in TableKeys : ~FeatureKey(key)
  BY FirstWords
<1>2. \A key \in {NameKey, SchemaKey, ModeKey} : ~FeatureKey(key)
  BY FirstWords
<1>3. \A name \in Thresholds : ~FeatureKey(<<NoName, name>>)
  BY FirstWords
<1>4. \A key \in TableKeys : key \notin {NameKey, SchemaKey, ModeKey}
                             /\ \A name \in Thresholds : key # <<NoName, name>>
  BY WordsDiffer DEF TableKeys, NameKey, SchemaKey, ModeKey, Thresholds
<1>5. \A key \in {NameKey, SchemaKey, ModeKey} : \A name \in Thresholds : key # <<NoName, name>>
  BY DEF NameKey, SchemaKey, ModeKey, Thresholds
<1>6. ModeKey # NameKey /\ ModeKey # SchemaKey
  BY DEF NameKey, SchemaKey, ModeKey
<1> QED
  BY <1>1, <1>2, <1>3, <1>4, <1>5, <1>6

LEMMA LineReadIs ==
  ASSUME NEW read, NEW key, NEW text, NEW r
  PROVE  r \in LineRead(read, key, text) <=>
           /\ key \notin read.seen_keys
           /\ \/ ReadsNothing(read, key, text, r) \/ ReadsMode(read, key, text, r)
              \/ ReadsPath(read, key, text, r) \/ ReadsFeature(read, key, text, r)
              \/ ReadsLimit(read, key, text, r)
<1> DEFINE A1 == { q \in {read} : key = NameKey }
           A2 == { q \in {read} : key = SchemaKey /\ text = SchemaVersion }
           A3 == { ModeRead(read, text) : k \in { k \in {key} : k = ModeKey /\ text \in Modes } }
           A4 == { WithPath(read, k, text) : k \in { k \in TableKeys \cap {key} : text # NoPath } }
           A5(k) == { WithFeature(read, k, value) : value \in text }
           K5 == { k \in FeatureKeys \cap {FeatureOf(key)} : FeatureUnseen(read, key) }
           A6(name) == { WithLimit(read, name, value) : value \in text }
           K6 == { name \in Thresholds : key = <<NoName, name>> }
           U5 == UNION { A5(k) : k \in K5 }
           U6 == UNION { A6(name) : name \in K6 }
           All == A1 \cup A2 \cup A3 \cup A4 \cup U5 \cup U6
<1>1. LineRead(read, key, text) = IF key \in read.seen_keys THEN {} ELSE All
  BY Zenon DEF LineRead, NameKey, SchemaKey, ModeKey, Modes, WithPath, WithFeature, WithLimit
<1>2. r \in A1 \/ r \in A2 <=> ReadsNothing(read, key, text, r)
  BY Zenon DEF ReadsNothing
<1>3. r \in A3 <=> ReadsMode(read, key, text, r)
  BY Zenon DEF ReadsMode
<1>4. r \in A4 <=> ReadsPath(read, key, text, r)
  BY Zenon DEF ReadsPath
<1>5. r \in U5 <=> ReadsFeature(read, key, text, r)
  <2>1. r \in U5 <=> \E k \in K5 : r \in A5(k)
    BY Zenon
  <2>2. \A k : r \in A5(k) <=> \E value \in text : r = WithFeature(read, k, value)
    BY Zenon
  <2>3. \A k : k \in K5 <=> FeatureKey(key) /\ k = FeatureOf(key) /\ FeatureUnseen(read, key)
    BY Zenon DEF FeatureKey
  <2> HIDE DEF U5, A5, K5
  <2> QED
    BY <2>1, <2>2, <2>3, Zenon DEF ReadsFeature
<1>6. r \in U6 <=> ReadsLimit(read, key, text, r)
  <2>1. r \in U6 <=> \E k \in K6 : r \in A6(k)
    BY Zenon
  <2>2. \A k : r \in A6(k) <=> \E value \in text : r = WithLimit(read, k, value)
    BY Zenon
  <2>3. \A k : k \in K6 <=> k \in Thresholds /\ key = <<NoName, k>>
    BY Zenon
  <2> HIDE DEF U6, A6, K6
  <2> QED
    BY <2>1, <2>2, <2>3, Zenon DEF ReadsLimit
<1> HIDE DEF A1, A2, A3, A4, U5, U6
<1>7. r \in All <=> \/ r \in A1 \/ r \in A2 \/ r \in A3 \/ r \in A4 \/ r \in U5 \/ r \in U6
  OBVIOUS
<1> HIDE DEF All
<1>8. r \in (IF key \in read.seen_keys THEN {} ELSE All) <=> key \notin read.seen_keys /\ r \in All
  BY Zenon
<1> QED
  BY <1>1, <1>2, <1>3, <1>4, <1>5, <1>6, <1>7, <1>8, Zenon

(***************************************************************************)
(* The loader is a record of its fields, its config one of its own.        *)
(***************************************************************************)
WeightsType == [Phases -> [Features -> Int]]
ConfigShape(c) ==
  /\ c = [weights |-> c.weights, opening_max_occupied |-> c.opening_max_occupied,
          midgame_max_occupied |-> c.midgame_max_occupied,
          pattern_tables |-> c.pattern_tables, phase_tables |-> c.phase_tables]
  /\ c.weights \in WeightsType
  /\ c.phase_tables = [p \in Phases |-> c.phase_tables[p]]
LoaderShape(l) ==
  l = [at |-> l.at, request |-> l.request, arg |-> l.arg, chosen |-> l.chosen, file |-> l.file,
       next |-> l.next, seen_keys |-> l.seen_keys, seen_features |-> l.seen_features,
       seen_configs |-> l.seen_configs, mode |-> l.mode, paths |-> l.paths,
       config |-> l.config, cache |-> l.cache, got |-> l.got, written |-> l.written,
       unfinished |-> l.unfinished, torn |-> l.torn]

\* What the lines read say nothing of.
SameElsewhere(l, m) ==
  /\ m.at = l.at /\ m.file = l.file /\ m.cache = l.cache /\ m.written = l.written
  /\ m.unfinished = l.unfinished /\ m.torn = l.torn
SameTables(c, d) == d.pattern_tables = c.pattern_tables /\ d.phase_tables = c.phase_tables
SameLimits(c, d) ==
  d.opening_max_occupied = c.opening_max_occupied /\ d.midgame_max_occupied = c.midgame_max_occupied
OneWeight(c, d, k, value) ==
  \A j \in FeatureKeys :
    d.weights[j[1]][j[2]] = IF j = k THEN value ELSE c.weights[j[1]][j[2]]

LEMMA AcceptIs ==
  ASSUME NEW l, LoaderShape(l), NEW key
  PROVE  LET m == Accept(l, key)
         IN  /\ LoaderShape(m) /\ SameElsewhere(l, m) /\ m.config = l.config
             /\ m.next = l.next + 1 /\ m.seen_keys = l.seen_keys \cup {key}
             /\ m.seen_features = l.seen_features /\ m.seen_configs = l.seen_configs
             /\ m.mode = l.mode /\ m.paths = l.paths
<1> DEFINE m == Accept(l, key)
<1>1. m.next = l.next + 1 /\ m.seen_keys = l.seen_keys \cup {key}
  BY DEF LoaderShape, Accept
<1>2. /\ m.at = l.at /\ m.request = l.request /\ m.arg = l.arg /\ m.chosen = l.chosen
      /\ m.file = l.file /\ m.cache = l.cache /\ m.written = l.written /\ m.unfinished = l.unfinished /\ m.torn = l.torn /\ m.config = l.config
  BY DEF LoaderShape, Accept
<1>3. /\ m.seen_features = l.seen_features /\ m.seen_configs = l.seen_configs
      /\ m.mode = l.mode /\ m.paths = l.paths
  BY DEF LoaderShape, Accept
<1>4. LoaderShape(m)
  <2> DEFINE n == l.next + 1
             keys == l.seen_keys \cup {key}
  <2>1. m = [l EXCEPT !.next = n, !.seen_keys = keys]
    BY DEF Accept
  <2> HIDE DEF m, n, keys
  <2> QED
    BY <2>1 DEF LoaderShape
<1> QED
  BY <1>1, <1>2, <1>3, <1>4 DEF SameElsewhere

LEMMA ModeReadIs ==
  ASSUME NEW l, LoaderShape(l), NEW text
  PROVE  LET m == ModeRead(l, text)
         IN  /\ LoaderShape(m) /\ SameElsewhere(l, m) /\ m.config = l.config
             /\ m.next = l.next /\ m.seen_keys = l.seen_keys
             /\ m.seen_features = l.seen_features /\ m.seen_configs = l.seen_configs
             /\ m.mode = text /\ m.paths = l.paths
BY DEF LoaderShape, ModeRead, SameElsewhere

LEMMA WithPathIs ==
  ASSUME NEW l, LoaderShape(l), NEW key, NEW text
  PROVE  LET m == WithPath(l, key, text)
         IN  /\ LoaderShape(m) /\ SameElsewhere(l, m) /\ m.config = l.config
             /\ m.next = l.next /\ m.seen_keys = l.seen_keys
             /\ m.seen_features = l.seen_features /\ m.seen_configs = l.seen_configs
             /\ m.mode = l.mode /\ m.paths = Extended(l.paths, TargetOf(key), text)
BY DEF LoaderShape, WithPath, SameElsewhere

LEMMA WithFeatureIs ==
  ASSUME NEW l, LoaderShape(l), ConfigShape(l.config), NEW k \in FeatureKeys, NEW value \in Int
  PROVE  LET m == WithFeature(l, k, value)
         IN  /\ LoaderShape(m) /\ SameElsewhere(l, m)
             /\ m.next = l.next /\ m.seen_keys = l.seen_keys
             /\ m.seen_features = l.seen_features \cup {k} /\ m.seen_configs = l.seen_configs
             /\ m.mode = l.mode /\ m.paths = l.paths
             /\ ConfigShape(m.config) /\ SameTables(l.config, m.config) /\ SameLimits(l.config, m.config)
             /\ OneWeight(l.config, m.config, k, value)
<1> DEFINE m == WithFeature(l, k, value)
           c == l.config
           d == [c EXCEPT !.weights[k[1]][k[2]] = value]
<1>1. m = [l EXCEPT !.seen_features = @ \cup {k}, !.config = d]
  BY DEF WithFeature, LoaderShape
<1>2. /\ LoaderShape(m) /\ SameElsewhere(l, m)
      /\ m.next = l.next /\ m.seen_keys = l.seen_keys
      /\ m.seen_features = l.seen_features \cup {k} /\ m.seen_configs = l.seen_configs
      /\ m.mode = l.mode /\ m.paths = l.paths
      /\ m.config = d
  BY <1>1 DEF LoaderShape, SameElsewhere
<1>3. k[1] \in Phases /\ k[2] \in Features /\ k = <<k[1], k[2]>>
  BY DEF FeatureKeys
<1>4. d.weights = [c.weights EXCEPT ![k[1]][k[2]] = value]
  BY <1>3 DEF ConfigShape
<1>5. /\ d = [weights |-> d.weights, opening_max_occupied |-> c.opening_max_occupied,
          midgame_max_occupied |-> c.midgame_max_occupied,
          pattern_tables |-> c.pattern_tables, phase_tables |-> c.phase_tables]
  BY <1>3 DEF ConfigShape
<1> HIDE DEF m, d
<1>6. d.weights \in WeightsType /\ d.weights[k[1]][k[2]] = value
  BY <1>3, <1>4 DEF ConfigShape, WeightsType
<1>7. \A j \in FeatureKeys : j # k => d.weights[j[1]][j[2]] = c.weights[j[1]][j[2]]
  BY <1>3, <1>4 DEF ConfigShape, WeightsType, FeatureKeys
<1>9. OneWeight(c, d, k, value)
  BY <1>6, <1>7 DEF OneWeight
<1>8. ConfigShape(d) /\ SameTables(c, d) /\ SameLimits(c, d)
  <2>1. /\ d.opening_max_occupied = c.opening_max_occupied
        /\ d.midgame_max_occupied = c.midgame_max_occupied
        /\ d.pattern_tables = c.pattern_tables /\ d.phase_tables = c.phase_tables
    BY <1>5
  <2> QED
    BY <1>5, <1>6, <2>1 DEF ConfigShape, SameTables, SameLimits
<1> QED
  BY <1>2, <1>9, <1>8 DEF m

LEMMA WithLimitIs ==
  ASSUME NEW l, LoaderShape(l), ConfigShape(l.config), NEW name \in Thresholds, NEW value
  PROVE  LET m == WithLimit(l, name, value)
         IN  /\ LoaderShape(m) /\ SameElsewhere(l, m)
             /\ m.next = l.next /\ m.seen_keys = l.seen_keys
             /\ m.seen_features = l.seen_features /\ m.seen_configs = l.seen_configs \cup {name}
             /\ m.mode = l.mode /\ m.paths = l.paths
             /\ ConfigShape(m.config) /\ SameTables(l.config, m.config)
             /\ m.config.weights = l.config.weights
             /\ m.config[name] = value
             /\ \A other \in Thresholds : other # name => m.config[other] = l.config[other]
<1> DEFINE m == WithLimit(l, name, value)
           c == l.config
           d == [c EXCEPT ![name] = value]
<1>1. m = [l EXCEPT !.seen_configs = @ \cup {name}, !.config = d]
  BY DEF WithLimit, LoaderShape
<1>2. /\ LoaderShape(m) /\ SameElsewhere(l, m)
      /\ m.next = l.next /\ m.seen_keys = l.seen_keys
      /\ m.seen_features = l.seen_features /\ m.seen_configs = l.seen_configs \cup {name}
      /\ m.mode = l.mode /\ m.paths = l.paths
      /\ m.config = d
  BY <1>1 DEF LoaderShape, SameElsewhere
<1>3. name = "opening_max_occupied" \/ name = "midgame_max_occupied"
  BY DEF Thresholds
<1>4. /\ d.weights = c.weights /\ d.pattern_tables = c.pattern_tables
      /\ d.phase_tables = c.phase_tables
  BY <1>3 DEF ConfigShape
<1>5. d[name] = value /\ \A other \in Thresholds : other # name => d[other] = c[other]
  BY <1>3 DEF ConfigShape, Thresholds
<1>6. d = [weights |-> d.weights, opening_max_occupied |-> d.opening_max_occupied,
           midgame_max_occupied |-> d.midgame_max_occupied,
           pattern_tables |-> d.pattern_tables, phase_tables |-> d.phase_tables]
  BY <1>3 DEF ConfigShape
<1> HIDE DEF m, d
<1>7. ConfigShape(d) /\ SameTables(c, d)
  BY <1>4, <1>6 DEF ConfigShape, SameTables
<1> QED
  BY <1>2, <1>4, <1>5, <1>7 DEF m

\* A line a file may have (WellFormedFile).
GoodLine(key, text) ==
  \/ FeatureKey(key) /\ text # {}
  \/ key[1] = NoName /\ key[2] \in Thresholds /\ text # {}
  \/ key \in TableKeys /\ text # NoPath
  \/ key = NameKey
  \/ key = SchemaKey /\ text = SchemaVersion
  \/ key = ModeKey /\ text \in Modes

TakesFeature(l, key, m) ==
  m.seen_features = IF FeatureKey(key) THEN l.seen_features \cup {FeatureOf(key)} ELSE l.seen_features
TakesWeight(l, key, text, m) ==
  \A k \in FeatureKeys :
    IF k = FeatureOf(key) THEN m.config.weights[k[1]][k[2]] \in text
    ELSE m.config.weights[k[1]][k[2]] = l.config.weights[k[1]][k[2]]
TakesLimit(l, key, text, m) ==
  \A name \in Thresholds :
    IF key = <<NoName, name>> THEN m.config[name] \in text ELSE m.config[name] = l.config[name]
TakesThreshold(l, key, m) ==
  m.seen_configs = l.seen_configs \cup { name \in Thresholds : key = <<NoName, name>> }
TakesMode(l, key, text, m) == m.mode = IF key = ModeKey THEN text ELSE l.mode
TakesPath(l, key, text, m) ==
  m.paths = IF key \in TableKeys THEN Extended(l.paths, TargetOf(key), text) ELSE l.paths

Takes(l, key, text, m) ==
  /\ LoaderShape(m) /\ SameElsewhere(l, m) /\ m.next = l.next /\ m.seen_keys = l.seen_keys
  /\ ConfigShape(m.config) /\ SameTables(l.config, m.config)
  /\ TakesFeature(l, key, m) /\ TakesWeight(l, key, text, m)
  /\ TakesThreshold(l, key, m) /\ TakesLimit(l, key, text, m)
  /\ TakesMode(l, key, text, m) /\ TakesPath(l, key, text, m)

LEMMA TakesIt ==
  ASSUME NEW l, LoaderShape(l), ConfigShape(l.config),
         NEW key \in KeyNames, NEW text, FeatureKey(key) \/ key \in LimitKeys => text \in SUBSET Int,
         NEW r \in LineRead(l, key, text)
  PROVE  /\ Takes(l, key, text, r)
         /\ key \notin l.seen_keys
         /\ FeatureKey(key) => FeatureOf(key) \notin l.seen_features
         /\ GoodLine(key, text)
<1> DEFINE Effects == /\ Takes(l, key, text, r)
                      /\ FeatureKey(key) => FeatureOf(key) \notin l.seen_features
                      /\ GoodLine(key, text)
<1>1. key \notin l.seen_keys
  BY LineReadIs
<1>2. ~FeatureKey(key) => \A k \in FeatureKeys : k # FeatureOf(key)
  BY DEF FeatureKey
<1>3. CASE ReadsNothing(l, key, text, r)
  <2>1. r = l /\ key \in {NameKey, SchemaKey}
    BY <1>3 DEF ReadsNothing
  <2>2. ~FeatureKey(key) /\ key # ModeKey /\ key \notin TableKeys /\ \A name \in Thresholds : key # <<NoName, name>>
    BY <2>1, KindsDiffer
  <2>3. GoodLine(key, text)
    BY <1>3 DEF ReadsNothing, GoodLine
  <2>4. Takes(l, key, text, r)
    BY <2>1, <2>2, <1>2 DEF Takes, TakesFeature, TakesWeight, TakesThreshold, TakesLimit, TakesMode, TakesPath, SameElsewhere, SameTables
  <2> QED
    BY <1>1, <2>2, <2>3, <2>4
<1>4. CASE ReadsMode(l, key, text, r)
  <2>1. r = ModeRead(l, text) /\ key = ModeKey /\ text \in Modes
    BY <1>4 DEF ReadsMode
  <2>2. ~FeatureKey(key) /\ key \notin TableKeys /\ \A name \in Thresholds : key # <<NoName, name>>
    BY <2>1, KindsDiffer
  <2>3. GoodLine(key, text)
    BY <2>1 DEF GoodLine
  <2>4. /\ LoaderShape(r) /\ SameElsewhere(l, r) /\ r.config = l.config
        /\ r.next = l.next /\ r.seen_keys = l.seen_keys
        /\ r.seen_features = l.seen_features /\ r.seen_configs = l.seen_configs
        /\ r.mode = text /\ r.paths = l.paths
    BY <2>1, ModeReadIs
  <2>5. Takes(l, key, text, r)
    BY <2>1, <2>2, <2>4, <1>2 DEF Takes, TakesFeature, TakesWeight, TakesThreshold, TakesLimit, TakesMode, TakesPath, SameTables
  <2> QED
    BY <1>1, <2>2, <2>3, <2>5
<1>5. CASE ReadsPath(l, key, text, r)
  <2>1. r = WithPath(l, key, text) /\ key \in TableKeys /\ text # NoPath
    BY <1>5 DEF ReadsPath
  <2>2. ~FeatureKey(key) /\ key # ModeKey /\ \A name \in Thresholds : key # <<NoName, name>>
    BY <2>1, KindsDiffer
  <2>3. GoodLine(key, text)
    BY <2>1 DEF GoodLine
  <2>4. /\ LoaderShape(r) /\ SameElsewhere(l, r) /\ r.config = l.config
        /\ r.next = l.next /\ r.seen_keys = l.seen_keys
        /\ r.seen_features = l.seen_features /\ r.seen_configs = l.seen_configs
        /\ r.mode = l.mode /\ r.paths = Extended(l.paths, TargetOf(key), text)
    BY <2>1, WithPathIs
  <2>5. Takes(l, key, text, r)
    BY <2>1, <2>2, <2>4, <1>2 DEF Takes, TakesFeature, TakesWeight, TakesThreshold, TakesLimit, TakesMode, TakesPath, SameTables
  <2> QED
    BY <1>1, <2>2, <2>3, <2>5
<1>6. CASE ReadsFeature(l, key, text, r)
  <2>1. FeatureKey(key) /\ FeatureUnseen(l, key)
    BY <1>6 DEF ReadsFeature
  <2>2. PICK value \in text : r = WithFeature(l, FeatureOf(key), value)
    BY <1>6 DEF ReadsFeature
  <2> DEFINE k == FeatureOf(key)
  <2>3. value \in Int /\ k \in FeatureKeys
    BY <2>1 DEF FeatureKey
  <2>31. r = WithFeature(l, k, value)
    BY <2>2
  <2>4. key # ModeKey /\ key \notin TableKeys /\ \A name \in Thresholds : key # <<NoName, name>>
    BY <2>1, KindsDiffer
  <2>5. GoodLine(key, text)
    BY <2>1, <2>2 DEF GoodLine
  <2> HIDE DEF k
  <2>6. /\ LoaderShape(r) /\ SameElsewhere(l, r)
        /\ r.next = l.next /\ r.seen_keys = l.seen_keys
        /\ r.seen_features = l.seen_features \cup {k} /\ r.seen_configs = l.seen_configs
        /\ r.mode = l.mode /\ r.paths = l.paths
    BY <2>31, <2>3, WithFeatureIs
  <2>61. ConfigShape(r.config) /\ SameTables(l.config, r.config) /\ SameLimits(l.config, r.config)
    BY <2>31, <2>3, WithFeatureIs
  <2>62. OneWeight(l.config, r.config, k, value)
    BY <2>31, <2>3, WithFeatureIs
  <2>7. \A name \in Thresholds : r.config[name] = l.config[name]
    BY <2>61 DEF SameLimits, Thresholds
  <2>8. TakesWeight(l, key, text, r)
    BY <2>2, <2>62 DEF TakesWeight, OneWeight, k
  <2>9. TakesFeature(l, key, r) /\ TakesMode(l, key, text, r) /\ TakesPath(l, key, text, r)
    BY <2>1, <2>4, <2>6 DEF TakesFeature, TakesMode, TakesPath, k
  <2>10. TakesThreshold(l, key, r) /\ TakesLimit(l, key, text, r)
    BY <2>4, <2>6, <2>7 DEF TakesThreshold, TakesLimit
  <2>11. Takes(l, key, text, r)
    BY <2>6, <2>61, <2>8, <2>9, <2>10 DEF Takes
  <2> QED
    BY <1>1, <2>1, <2>5, <2>11 DEF FeatureUnseen
<1>7. CASE ReadsLimit(l, key, text, r)
  <2>1. PICK name \in Thresholds : key = <<NoName, name>> /\ \E value \in text : r = WithLimit(l, name, value)
    BY <1>7 DEF ReadsLimit
  <2>2. PICK value \in text : r = WithLimit(l, name, value)
    BY <2>1
  <2>4. ~FeatureKey(key) /\ key # ModeKey /\ key \notin TableKeys
    BY <2>1, KindsDiffer
  <2>5. GoodLine(key, text)
    BY <2>1, <2>2 DEF GoodLine
  <2>6. /\ LoaderShape(r) /\ SameElsewhere(l, r)
        /\ r.next = l.next /\ r.seen_keys = l.seen_keys
        /\ r.seen_features = l.seen_features /\ r.seen_configs = l.seen_configs \cup {name}
        /\ r.mode = l.mode /\ r.paths = l.paths
        /\ ConfigShape(r.config) /\ SameTables(l.config, r.config)
        /\ r.config.weights = l.config.weights
        /\ r.config[name] = value
        /\ \A other \in Thresholds : other # name => r.config[other] = l.config[other]
    BY <2>2, WithLimitIs
  <2>7. \A other \in Thresholds : key = <<NoName, other>> <=> other = name
    BY <2>1
  <2>8. TakesWeight(l, key, text, r)
    BY <2>4, <2>6, <1>2 DEF TakesWeight
  <2>9. TakesFeature(l, key, r) /\ TakesMode(l, key, text, r) /\ TakesPath(l, key, text, r)
    BY <2>4, <2>6 DEF TakesFeature, TakesMode, TakesPath
  <2>10. TakesThreshold(l, key, r)
    <3>1. { other \in Thresholds : key = <<NoName, other>> } = {name}
      BY <2>7
    <3> QED
      BY <2>6, <3>1 DEF TakesThreshold
  <2>11. TakesLimit(l, key, text, r)
    BY <2>2, <2>6, <2>7 DEF TakesLimit
  <2>12. Takes(l, key, text, r)
    BY <2>6, <2>8, <2>9, <2>10, <2>11 DEF Takes
  <2> QED
    BY <1>1, <2>4, <2>5, <2>12
<1> QED
  BY <1>1, <1>3, <1>4, <1>5, <1>6, <1>7, LineReadIs

\* A line is refused that repeats a key or a feature or is not good.
LEMMA RefusedLine ==
  ASSUME NEW l, NEW key \in KeyNames, NEW text, LineRead(l, key, text) = {}
  PROVE  \/ key \in l.seen_keys
         \/ FeatureKey(key) /\ FeatureOf(key) \in l.seen_features
         \/ ~GoodLine(key, text)
<1> SUFFICES ASSUME key \notin l.seen_keys, GoodLine(key, text),
                    FeatureKey(key) => FeatureOf(key) \notin l.seen_features
             PROVE  \E r : r \in LineRead(l, key, text)
  OBVIOUS
<1>1. CASE FeatureKey(key) /\ text # {}
  <2>1. PICK value : value \in text
    BY <1>1
  <2>2. ReadsFeature(l, key, text, WithFeature(l, FeatureOf(key), value))
    BY <1>1, <2>1 DEF ReadsFeature, FeatureUnseen
  <2> QED
    BY <2>2, LineReadIs
<1>2. CASE key[1] = NoName /\ key[2] \in Thresholds /\ text # {}
  <2>1. PICK value : value \in text
    BY <1>2
  <2>2. key = <<NoName, key[2]>>
    BY <1>2 DEF KeyNames
  <2>3. ReadsLimit(l, key, text, WithLimit(l, key[2], value))
    BY <1>2, <2>1, <2>2 DEF ReadsLimit
  <2> QED
    BY <2>3, LineReadIs
<1>3. CASE key \in TableKeys /\ text # NoPath
  <2>1. ReadsPath(l, key, text, WithPath(l, key, text))
    BY <1>3 DEF ReadsPath
  <2> QED
    BY <2>1, LineReadIs
<1>4. CASE key = NameKey \/ (key = SchemaKey /\ text = SchemaVersion)
  <2>1. ReadsNothing(l, key, text, l)
    BY <1>4 DEF ReadsNothing
  <2> QED
    BY <2>1, LineReadIs
<1>5. CASE key = ModeKey /\ text \in Modes
  <2>1. ReadsMode(l, key, text, ModeRead(l, text))
    BY <1>5 DEF ReadsMode
  <2> QED
    BY <2>1, LineReadIs
<1> QED
  BY <1>1, <1>2, <1>3, <1>4, <1>5 DEF GoodLine

\* What one line read does to the loader.
ReadsLine(l, key, text, m) ==
  /\ LoaderShape(m) /\ ConfigShape(m.config) /\ SameElsewhere(l, m)
  /\ SameTables(l.config, m.config)
  /\ m.next = l.next + 1 /\ m.seen_keys = l.seen_keys \cup {key}
  /\ TakesFeature(l, key, m) /\ TakesWeight(l, key, text, m)
  /\ TakesThreshold(l, key, m) /\ TakesLimit(l, key, text, m)
  /\ TakesMode(l, key, text, m) /\ TakesPath(l, key, text, m)

LEMMA AcceptReads ==
  ASSUME NEW l, NEW key, NEW text, NEW r, Takes(l, key, text, r)
  PROVE  ReadsLine(l, key, text, Accept(r, key))
<1> DEFINE m == Accept(r, key)
<1>1. /\ LoaderShape(m) /\ SameElsewhere(r, m) /\ m.config = r.config
      /\ m.next = r.next + 1 /\ m.seen_keys = r.seen_keys \cup {key}
      /\ m.seen_features = r.seen_features /\ m.seen_configs = r.seen_configs
      /\ m.mode = r.mode /\ m.paths = r.paths
  BY AcceptIs DEF Takes
<1>2. /\ SameElsewhere(l, r) /\ r.next = l.next /\ r.seen_keys = l.seen_keys
      /\ ConfigShape(r.config) /\ SameTables(l.config, r.config)
  BY DEF Takes
<1>3. /\ TakesFeature(l, key, r) /\ TakesWeight(l, key, text, r)
      /\ TakesThreshold(l, key, r) /\ TakesLimit(l, key, text, r)
      /\ TakesMode(l, key, text, r) /\ TakesPath(l, key, text, r)
  BY DEF Takes
<1> HIDE DEF m
<1>4. TakesFeature(l, key, m) /\ TakesWeight(l, key, text, m)
  BY <1>1, <1>3 DEF TakesFeature, TakesWeight
<1>5. TakesThreshold(l, key, m) /\ TakesLimit(l, key, text, m)
  BY <1>1, <1>3 DEF TakesThreshold, TakesLimit
<1>6. TakesMode(l, key, text, m) /\ TakesPath(l, key, text, m)
  BY <1>1, <1>3 DEF TakesMode, TakesPath
<1>7. SameElsewhere(l, m)
  BY <1>1, <1>2 DEF SameElsewhere
<1>8. LoaderShape(m) /\ ConfigShape(m.config) /\ SameTables(l.config, m.config)
  BY <1>1, <1>2
<1>9. m.next = l.next + 1 /\ m.seen_keys = l.seen_keys \cup {key}
  BY <1>1, <1>2
<1> QED
  BY <1>4, <1>5, <1>6, <1>7, <1>8, <1>9 DEF ReadsLine, m

(***************************************************************************)
(* What is known once the first n lines have been read.                    *)
(***************************************************************************)
LinesType(lines) ==
  /\ Len(lines) \in Nat /\ DOMAIN lines = 1 .. Len(lines)
  /\ \A i \in 1 .. Len(lines) :
       /\ lines[i].key \in KeyNames
       /\ FeatureKey(lines[i].key) \/ lines[i].key \in LimitKeys => lines[i].text \in SUBSET Int

NotedKeys(l, lines, n) ==
  /\ l.seen_keys = { lines[i].key : i \in 1 .. n }
  /\ \A i, j \in 1 .. n : i # j => lines[i].key # lines[j].key
NotedFeatures(l, lines, n) ==
  /\ l.seen_features = { FeatureOf(lines[i].key) : i \in { j \in 1 .. n : FeatureKey(lines[j].key) } }
  /\ \A i, j \in 1 .. n :
       FeatureKey(lines[i].key) /\ FeatureKey(lines[j].key) /\ i # j =>
         FeatureOf(lines[i].key) # FeatureOf(lines[j].key)
NotedThresholds(l) ==
  l.seen_configs = { name \in Thresholds : <<NoName, name>> \in l.seen_keys }
HeardWeights(l, lines, n) ==
  \A i \in 1 .. n : FeatureKey(lines[i].key) =>
    l.config.weights[FeatureOf(lines[i].key)[1]][FeatureOf(lines[i].key)[2]] \in lines[i].text
HeardLimits(l, lines, n) ==
  \A i \in 1 .. n : \A name \in Thresholds :
    lines[i].key = <<NoName, name>> => l.config[name] \in lines[i].text
HeardMode(l, lines, n) ==
  /\ \A i \in 1 .. n : lines[i].key = ModeKey => l.mode = lines[i].text
  /\ ModeKey \notin l.seen_keys => l.mode = "full"
HeardPaths(l, lines, n) ==
  /\ DOMAIN l.paths = { TargetOf(lines[i].key) : i \in { j \in 1 .. n : lines[j].key \in TableKeys } }
  /\ \A i \in 1 .. n : lines[i].key \in TableKeys => l.paths[TargetOf(lines[i].key)] = lines[i].text
GoodUntil(lines, n) == \A i \in 1 .. n : GoodLine(lines[i].key, lines[i].text)
UnheardLimits(l) == \A name \in Thresholds \ l.seen_configs : l.config[name] = DefaultConfig[name]
UnheardWeights(l) ==
  \A k \in FeatureKeys \ l.seen_features :
    l.config.weights[k[1]][k[2]] = DefaultConfig.weights[k[1]][k[2]]
\* After the end of a file of tables only.
ClearedWeights(l) ==
  \A k \in FeatureKeys \ l.seen_features :
    l.config.weights[k[1]][k[2]] =
      IF l.mode = "pattern_only" THEN 0 ELSE DefaultConfig.weights[k[1]][k[2]]

Heard(l, lines, n) ==
  /\ NotedKeys(l, lines, n) /\ NotedFeatures(l, lines, n) /\ NotedThresholds(l)
  /\ HeardWeights(l, lines, n) /\ HeardLimits(l, lines, n) /\ HeardMode(l, lines, n)
  /\ HeardPaths(l, lines, n) /\ GoodUntil(lines, n) /\ UnheardLimits(l)

LEMMA TargetsDiffer ==
  \A key, other \in TableKeys : TargetOf(key) = TargetOf(other) => key = other
BY WordsDiffer DEF TableKeys, TargetOf

LEMMA NextLine ==
  ASSUME NEW lines, NEW n \in Nat
  PROVE  /\ \A i \in 1 .. n + 1 : i \in 1 .. n \/ i = n + 1
         /\ \A i \in 1 .. n : i \in 1 .. n + 1 /\ i # n + 1
         /\ n + 1 \in 1 .. n + 1 /\ n + 1 \notin 1 .. n
OBVIOUS

LEMMA ReadKeepsKeys ==
  ASSUME NEW l, NEW m, NEW lines, NEW n \in Nat, NotedKeys(l, lines, n),
         m.seen_keys = l.seen_keys \cup {lines[n + 1].key}, lines[n + 1].key \notin l.seen_keys
  PROVE  NotedKeys(m, lines, n + 1)
<1> DEFINE N == n + 1
           key(i) == lines[i].key
<1>1. /\ \A i \in 1 .. N : i \in 1 .. n \/ i = N
      /\ \A i \in 1 .. n : i \in 1 .. N
      /\ N \in 1 .. N
  BY NextLine
<1>2. /\ l.seen_keys = { key(i) : i \in 1 .. n }
      /\ \A i, j \in 1 .. n : i # j => key(i) # key(j)
      /\ m.seen_keys = l.seen_keys \cup {key(N)} /\ key(N) \notin l.seen_keys
  BY DEF NotedKeys
<1> HIDE DEF N
<1>3. m.seen_keys = { key(i) : i \in 1 .. N }
  BY <1>1, <1>2
<1>4. \A i, j \in 1 .. N : i # j => key(i) # key(j)
  BY <1>1, <1>2
<1> QED
  BY <1>3, <1>4 DEF NotedKeys, N

LEMMA ReadKeepsFeatures ==
  ASSUME NEW l, NEW m, NEW lines, NEW n \in Nat, NotedFeatures(l, lines, n),
         TakesFeature(l, lines[n + 1].key, m),
         FeatureKey(lines[n + 1].key) => FeatureOf(lines[n + 1].key) \notin l.seen_features
  PROVE  NotedFeatures(m, lines, n + 1)
<1> DEFINE N == n + 1
           key(i) == lines[i].key
           F(i) == FeatureKey(key(i))
           of(i) == FeatureOf(key(i))
<1>1. /\ \A i \in 1 .. N : i \in 1 .. n \/ i = N
      /\ \A i \in 1 .. n : i \in 1 .. N
      /\ N \in 1 .. N
  BY NextLine
<1>2. /\ l.seen_features = { of(i) : i \in { j \in 1 .. n : F(j) } }
      /\ \A i, j \in 1 .. n : F(i) /\ F(j) /\ i # j => of(i) # of(j)
  BY DEF NotedFeatures
<1>3. /\ m.seen_features = IF F(N) THEN l.seen_features \cup {of(N)} ELSE l.seen_features
      /\ F(N) => of(N) \notin l.seen_features
  BY DEF TakesFeature
<1> HIDE DEF N, F, of
<1>4. m.seen_features = { of(i) : i \in { j \in 1 .. N : F(j) } }
  <2>1. CASE F(N)
    <3>1. { j \in 1 .. N : F(j) } = { j \in 1 .. n : F(j) } \cup {N}
      BY <1>1, <2>1
    <3> QED
      BY <1>2, <1>3, <2>1, <3>1
  <2>2. CASE ~F(N)
    <3>1. { j \in 1 .. N : F(j) } = { j \in 1 .. n : F(j) }
      BY <1>1, <2>2
    <3> QED
      BY <1>2, <1>3, <2>2, <3>1
  <2> QED
    BY <2>1, <2>2
<1>5. \A i, j \in 1 .. N : F(i) /\ F(j) /\ i # j => of(i) # of(j)
  BY <1>1, <1>2, <1>3
<1> QED
  BY <1>4, <1>5 DEF NotedFeatures, N, F, of

LEMMA ReadKeepsThresholds ==
  ASSUME NEW l, NEW m, NEW key, NotedThresholds(l), m.seen_keys = l.seen_keys \cup {key},
         TakesThreshold(l, key, m)
  PROVE  NotedThresholds(m)
BY DEF NotedThresholds, TakesThreshold

LEMMA ReadKeepsWeights ==
  ASSUME NEW l, NEW m, NEW lines, NEW n \in Nat, HeardWeights(l, lines, n), NotedFeatures(l, lines, n),
         TakesWeight(l, lines[n + 1].key, lines[n + 1].text, m),
         FeatureKey(lines[n + 1].key) => FeatureOf(lines[n + 1].key) \notin l.seen_features
  PROVE  HeardWeights(m, lines, n + 1)
<1> DEFINE N == n + 1
           key(i) == lines[i].key
           F(i) == FeatureKey(key(i))
           of(i) == FeatureOf(key(i))
<1>1. \A i \in 1 .. N : i \in 1 .. n \/ i = N
  BY NextLine
<1>2. \A i \in 1 .. n : F(i) => of(i) \in l.seen_features
  BY DEF NotedFeatures
<1>3. F(N) => of(N) \notin l.seen_features
  OBVIOUS
<1>4. \A i : F(i) => of(i) \in FeatureKeys
  BY DEF FeatureKey
<1>5. \A k \in FeatureKeys :
        IF k = of(N) THEN m.config.weights[k[1]][k[2]] \in lines[N].text
        ELSE m.config.weights[k[1]][k[2]] = l.config.weights[k[1]][k[2]]
  BY DEF TakesWeight
<1>6. \A i \in 1 .. n : F(i) => l.config.weights[of(i)[1]][of(i)[2]] \in lines[i].text
  BY DEF HeardWeights
<1> HIDE DEF N, F, of
<1>7. \A i \in 1 .. N : F(i) => m.config.weights[of(i)[1]][of(i)[2]] \in lines[i].text
  <2> SUFFICES ASSUME NEW i \in 1 .. N, F(i)
               PROVE  m.config.weights[of(i)[1]][of(i)[2]] \in lines[i].text
    OBVIOUS
  <2>1. CASE i = N
    BY <2>1, <1>4, <1>5
  <2>2. CASE i \in 1 .. n /\ i # N
    <3>1. F(N) => of(i) # of(N)
      BY <2>2, <1>2, <1>3
    <3>2. of(i) # of(N)
      <4>1. CASE F(N)
        BY <3>1, <4>1
      <4>2. CASE ~F(N)
        BY <1>4, <4>2 DEF F, of, FeatureKey
      <4> QED
        BY <4>1, <4>2
    <3> QED
      BY <2>2, <3>2, <1>4, <1>5, <1>6
  <2> QED
    BY <1>1, <2>1, <2>2
<1> QED
  BY <1>7 DEF HeardWeights, N, F, of

LEMMA ReadKeepsLimits ==
  ASSUME NEW l, NEW m, NEW lines, NEW n \in Nat, HeardLimits(l, lines, n), NotedKeys(l, lines, n),
         TakesLimit(l, lines[n + 1].key, lines[n + 1].text, m), lines[n + 1].key \notin l.seen_keys
  PROVE  HeardLimits(m, lines, n + 1)
<1> DEFINE N == n + 1
           key(i) == lines[i].key
<1>1. \A i \in 1 .. N : i \in 1 .. n \/ i = N
  BY NextLine
<1>2. \A i \in 1 .. n : key(i) # key(N)
  BY DEF NotedKeys
<1>3. \A name \in Thresholds :
        IF key(N) = <<NoName, name>> THEN m.config[name] \in lines[N].text ELSE m.config[name] = l.config[name]
  BY DEF TakesLimit
<1>4. \A i \in 1 .. n : \A name \in Thresholds : key(i) = <<NoName, name>> => l.config[name] \in lines[i].text
  BY DEF HeardLimits
<1> HIDE DEF N
<1>5. \A i \in 1 .. N : \A name \in Thresholds : key(i) = <<NoName, name>> => m.config[name] \in lines[i].text
  BY <1>1, <1>2, <1>3, <1>4
<1> QED
  BY <1>5 DEF HeardLimits, N

LEMMA ReadKeepsMode ==
  ASSUME NEW l, NEW m, NEW lines, NEW n \in Nat, HeardMode(l, lines, n), NotedKeys(l, lines, n),
         m.seen_keys = l.seen_keys \cup {lines[n + 1].key},
         TakesMode(l, lines[n + 1].key, lines[n + 1].text, m), lines[n + 1].key \notin l.seen_keys
  PROVE  HeardMode(m, lines, n + 1)
<1> DEFINE N == n + 1
           key(i) == lines[i].key
<1>1. \A i \in 1 .. N : i \in 1 .. n \/ i = N
  BY NextLine
<1>2. \A i \in 1 .. n : key(i) # key(N)
  BY DEF NotedKeys
<1>3. m.mode = IF key(N) = ModeKey THEN lines[N].text ELSE l.mode
  BY DEF TakesMode
<1>4. /\ \A i \in 1 .. n : key(i) = ModeKey => l.mode = lines[i].text
      /\ ModeKey \notin l.seen_keys => l.mode = "full"
  BY DEF HeardMode
<1>5. m.seen_keys = l.seen_keys \cup {key(N)}
  OBVIOUS
<1> HIDE DEF N
<1>6. \A i \in 1 .. N : key(i) = ModeKey => m.mode = lines[i].text
  BY <1>1, <1>2, <1>3, <1>4
<1>7. ModeKey \notin m.seen_keys => m.mode = "full"
  BY <1>3, <1>4, <1>5
<1> QED
  BY <1>6, <1>7 DEF HeardMode, N

LEMMA ReadKeepsPaths ==
  ASSUME NEW l, NEW m, NEW lines, NEW n \in Nat, HeardPaths(l, lines, n), NotedKeys(l, lines, n),
         TakesPath(l, lines[n + 1].key, lines[n + 1].text, m), lines[n + 1].key \notin l.seen_keys
  PROVE  HeardPaths(m, lines, n + 1)
<1> DEFINE N == n + 1
           key(i) == lines[i].key
           T(i) == key(i) \in TableKeys
           target(i) == TargetOf(key(i))
<1>1. /\ \A i \in 1 .. N : i \in 1 .. n \/ i = N
      /\ \A i \in 1 .. n : i \in 1 .. N
      /\ N \in 1 .. N
  BY NextLine
<1>2. \A i \in 1 .. n : key(i) # key(N)
  BY DEF NotedKeys
<1>3. m.paths = IF T(N) THEN Extended(l.paths, target(N), lines[N].text) ELSE l.paths
  BY DEF TakesPath
<1>4. /\ DOMAIN l.paths = { target(i) : i \in { j \in 1 .. n : T(j) } }
      /\ \A i \in 1 .. n : T(i) => l.paths[target(i)] = lines[i].text
  BY DEF HeardPaths
<1>5. \A i \in 1 .. n : T(i) /\ T(N) => target(i) # target(N)
  BY <1>2, TargetsDiffer
<1> HIDE DEF N, T, target
<1>31. T(N) => m.paths = Extended(l.paths, target(N), lines[N].text)
  BY <1>3
<1>32. T(N) => /\ DOMAIN m.paths = DOMAIN l.paths \cup {target(N)}
               /\ m.paths[target(N)] = lines[N].text
               /\ \A z \in DOMAIN l.paths : z # target(N) => m.paths[z] = l.paths[z]
  <2> DEFINE p == l.paths
             t == target(N)
             v == lines[N].text
             q == m.paths
  <2>1. T(N) => q = Extended(p, t, v)
    BY <1>31
  <2> HIDE DEF p, t, v, q
  <2>2. T(N) => DOMAIN q = DOMAIN p \cup {t} /\ q[t] = v /\ \A z \in DOMAIN p : z # t => q[z] = p[z]
    BY <2>1 DEF Extended
  <2> QED
    BY <2>2 DEF p, t, v, q
<1>6. DOMAIN m.paths = { target(i) : i \in { j \in 1 .. N : T(j) } }
  <2>1. CASE T(N)
    <3>1. { j \in 1 .. N : T(j) } = { j \in 1 .. n : T(j) } \cup {N}
      BY <1>1, <2>1
    <3>2. DOMAIN m.paths = DOMAIN l.paths \cup {target(N)}
      BY <1>32, <2>1
    <3> QED
      BY <1>4, <3>1, <3>2
  <2>2. CASE ~T(N)
    <3>1. { j \in 1 .. N : T(j) } = { j \in 1 .. n : T(j) }
      BY <1>1, <2>2
    <3> QED
      BY <1>3, <1>4, <2>2, <3>1
  <2> QED
    BY <2>1, <2>2
<1>7. \A i \in 1 .. N : T(i) => m.paths[target(i)] = lines[i].text
  <2> SUFFICES ASSUME NEW i \in 1 .. N, T(i)
               PROVE  m.paths[target(i)] = lines[i].text
    OBVIOUS
  <2>1. CASE i = N
    BY <2>1, <1>32
  <2>2. CASE i \in 1 .. n
    <3>1. target(i) \in DOMAIN l.paths
      BY <2>2, <1>4
    <3>2. CASE T(N)
      <4>1. target(i) # target(N)
        BY <1>5, <2>2, <3>2
      <4>2. m.paths[target(i)] = l.paths[target(i)]
        BY <1>32, <3>1, <3>2, <4>1
      <4> QED
        BY <4>2, <2>2, <1>4
    <3>3. CASE ~T(N)
      BY <1>3, <1>4, <2>2, <3>3
    <3> QED
      BY <3>2, <3>3
  <2> QED
    BY <1>1, <2>1, <2>2
<1> QED
  BY <1>6, <1>7 DEF HeardPaths, N, T, target

LEMMA ReadKeepsUnheard ==
  ASSUME NEW l, NEW m, NEW key, NEW text,
         TakesFeature(l, key, m), TakesWeight(l, key, text, m),
         TakesThreshold(l, key, m), TakesLimit(l, key, text, m)
  PROVE  /\ UnheardLimits(l) => UnheardLimits(m)
         /\ UnheardWeights(l) => UnheardWeights(m)
<1>1. UnheardLimits(l) => UnheardLimits(m)
  BY DEF UnheardLimits, TakesThreshold, TakesLimit
<1>2. UnheardWeights(l) => UnheardWeights(m)
  BY DEF UnheardWeights, TakesFeature, TakesWeight, FeatureKey
<1> QED
  BY <1>1, <1>2

\* One more line read.
LEMMA ReadHears ==
  ASSUME NEW l, NEW m, NEW lines, NEW n \in Nat, Heard(l, lines, n),
         ReadsLine(l, lines[n + 1].key, lines[n + 1].text, m),
         lines[n + 1].key \notin l.seen_keys,
         FeatureKey(lines[n + 1].key) => FeatureOf(lines[n + 1].key) \notin l.seen_features,
         GoodLine(lines[n + 1].key, lines[n + 1].text)
  PROVE  Heard(m, lines, n + 1)
<1>1. NotedKeys(m, lines, n + 1)
  BY ReadKeepsKeys DEF Heard, ReadsLine
<1>2. NotedFeatures(m, lines, n + 1)
  BY ReadKeepsFeatures DEF Heard, ReadsLine
<1>3. NotedThresholds(m)
  BY ReadKeepsThresholds DEF Heard, ReadsLine
<1>4. HeardWeights(m, lines, n + 1)
  BY ReadKeepsWeights DEF Heard, ReadsLine
<1>5. HeardLimits(m, lines, n + 1)
  BY ReadKeepsLimits DEF Heard, ReadsLine
<1>6. HeardMode(m, lines, n + 1)
  BY ReadKeepsMode DEF Heard, ReadsLine
<1>7. HeardPaths(m, lines, n + 1)
  BY ReadKeepsPaths DEF Heard, ReadsLine
<1>8. GoodUntil(lines, n + 1)
  <2>1. \A i \in 1 .. n + 1 : i \in 1 .. n \/ i = n + 1
    BY NextLine
  <2> QED
    BY <2>1 DEF Heard, GoodUntil
<1>9. UnheardLimits(m)
  BY ReadKeepsUnheard DEF Heard, ReadsLine
<1> QED
  BY <1>1, <1>2, <1>3, <1>4, <1>5, <1>6, <1>7, <1>8, <1>9 DEF Heard

(***************************************************************************)
(* A well-formed file, of its lines.                                       *)
(***************************************************************************)
TextsOf(lines, keys) == { lines[i].text : i \in { j \in DOMAIN lines : lines[j].key \in keys } }
LinesWith(lines, keys) == { i \in DOMAIN lines : lines[i].key \in keys }
LinesOfFeatures(lines) == { i \in DOMAIN lines : FeatureOf(lines[i].key) \in FeatureKeys }
KeysOnce(lines) == Cardinality({ lines[i].key : i \in DOMAIN lines }) = Len(lines)
FeaturesOnce(lines) ==
  Cardinality({ FeatureOf(lines[i].key) : i \in LinesOfFeatures(lines) })
    = Cardinality(LinesOfFeatures(lines))
SaysAll(lines) ==
  TextsOf(lines, {ModeKey}) # {"pattern_only"} =>
    /\ \A name \in Thresholds : TextsOf(lines, {<<NoName, name>>}) # {}
    /\ \A p \in Phases, f \in Features \ {"pattern_table"} : LinesWith(lines, KeysOfFeature(p, f)) # {}
WellFormed(lines) ==
  /\ KeysOnce(lines) /\ FeaturesOnce(lines)
  /\ \A i \in DOMAIN lines : GoodLine(lines[i].key, lines[i].text)
  /\ SaysAll(lines)

LEMMA FileIsWellFormed == WellFormedFile <=> WellFormed(Lines)
<1>1. /\ KeysOnce(Lines) <=> Cardinality({ Lines[i].key : i \in DOMAIN Lines }) = Len(Lines)
      /\ FeaturesOnce(Lines) <=>
           Cardinality({ FeatureOf(Lines[i].key) : i \in FeatureLines }) = Cardinality(FeatureLines)
  BY Zenon DEF KeysOnce, FeaturesOnce, FeatureLines, LinesOfFeatures
<1>2. \A name : Says(name) = TextsOf(Lines, {name})
  BY Zenon DEF Says, Said, LinesOf, TextsOf
<1>3. \A keys : LinesOf(keys) = LinesWith(Lines, keys)
  BY Zenon DEF LinesOf, LinesWith
<1>4. \A i \in DOMAIN Lines :
        GoodLine(Lines[i].key, Lines[i].text) <=>
          LET key == Lines[i].key IN
          \/ i \in FeatureLines /\ Lines[i].text # {}
          \/ key[1] = NoName /\ key[2] \in Thresholds /\ Lines[i].text # {}
          \/ key \in TableKeys /\ Lines[i].text # NoPath
          \/ key = <<NoName, "name">>
          \/ key = <<NoName, "schema_version">> /\ Lines[i].text = SchemaVersion
          \/ key = <<NoName, "mode">> /\ Lines[i].text \in {"full", "pattern_only"}
  BY DEF GoodLine, FeatureLines, FeatureKey, NameKey, SchemaKey, ModeKey, Modes
<1> QED
  BY <1>1, <1>2, <1>3, <1>4, Zenon DEF WellFormedFile, WellFormed, SaysAll, ModeKey

\* As many values as arguments: no two arguments have one value.
LEMMA AsManyAsDifferent ==
  ASSUME NEW S, IsFiniteSet(S), NEW f, DOMAIN f = S, f = [x \in S |-> f[x]]
  PROVE  Cardinality({ f[x] : x \in S }) = Cardinality(S) <=>
           \A x, y \in S : f[x] = f[y] => x = y
<1> DEFINE T == { f[x] : x \in S }
<1>1. f \in Surjection(S, T)
  <2>1. f \in [S -> T]
    OBVIOUS
  <2>2. \A t \in T : \E x \in S : f[x] = t
    OBVIOUS
  <2> HIDE DEF T
  <2> QED
    BY <2>1, <2>2 DEF Surjection
<1>2. Cardinality(T) = Cardinality(S) <=> f \in Injection(S, T)
  BY <1>1, FS_Surjection
<1>3. f \in Injection(S, T) <=> \A x, y \in S : f[x] = f[y] => x = y
  <2>1. f \in [S -> T]
    BY <1>1 DEF Surjection
  <2> HIDE DEF T
  <2> QED
    BY <2>1 DEF Injection, IsInjective
<1> HIDE DEF T
<1>4. Cardinality(T) = Cardinality(S) <=> \A x, y \in S : f[x] = f[y] => x = y
  BY <1>2, <1>3
<1> QED
  BY <1>4 DEF T

LEMMA KeysOnceIs ==
  ASSUME NEW lines, LinesType(lines)
  PROVE  KeysOnce(lines) <=> \A i, j \in 1 .. Len(lines) : i # j => lines[i].key # lines[j].key
<1> DEFINE N == Len(lines)
           S == 1 .. N
           f == [i \in S |-> lines[i].key]
<1>1. N \in Nat /\ DOMAIN lines = S
  BY DEF LinesType
<1>2. IsFiniteSet(S) /\ Cardinality(S) = N
  <2> HIDE DEF N
  <2> QED
    BY <1>1, FS_Interval
<1>3. DOMAIN f = S /\ \A i \in S : f[i] = lines[i].key
  OBVIOUS
<1>4. { lines[i].key : i \in DOMAIN lines } = { f[i] : i \in S }
  BY <1>1, <1>3
<1>5. f = [i \in S |-> f[i]]
  OBVIOUS
<1> HIDE DEF f, S
<1>6. Cardinality({ f[i] : i \in S }) = Cardinality(S) <=> \A x, y \in S : f[x] = f[y] => x = y
  BY <1>2, <1>3, <1>5, AsManyAsDifferent
<1>7. KeysOnce(lines) <=> Cardinality({ f[i] : i \in S }) = Cardinality(S)
  BY <1>2, <1>4 DEF KeysOnce
<1>8. KeysOnce(lines) <=> \A i, j \in S : i # j => lines[i].key # lines[j].key
  BY <1>3, <1>6, <1>7
<1> QED
  BY <1>8 DEF S

LEMMA FeaturesOnceIs ==
  ASSUME NEW lines, LinesType(lines)
  PROVE  FeaturesOnce(lines) <=>
           \A i, j \in 1 .. Len(lines) :
             FeatureKey(lines[i].key) /\ FeatureKey(lines[j].key) /\ i # j =>
               FeatureOf(lines[i].key) # FeatureOf(lines[j].key)
<1> DEFINE N == Len(lines)
           S == LinesOfFeatures(lines)
           f == [i \in S |-> FeatureOf(lines[i].key)]
<1>1. N \in Nat /\ DOMAIN lines = 1 .. N
  BY DEF LinesType
<1>2. \A i : i \in S <=> i \in 1 .. N /\ FeatureKey(lines[i].key)
  BY <1>1 DEF LinesOfFeatures, FeatureKey
<1>3. IsFiniteSet(S)
  <2>1. IsFiniteSet(1 .. N)
    <3> HIDE DEF N
    <3> QED
      BY <1>1, FS_Interval
  <2>2. S \in SUBSET (1 .. N)
    BY <1>2
  <2> HIDE DEF S, N
  <2> QED
    BY <2>1, <2>2, FS_Subset
<1>4. DOMAIN f = S /\ \A i \in S : f[i] = FeatureOf(lines[i].key)
  OBVIOUS
<1>5. f = [i \in S |-> f[i]]
  OBVIOUS
<1>6. { FeatureOf(lines[i].key) : i \in S } = { f[i] : i \in S }
  OBVIOUS
<1> HIDE DEF f
<1>7. FeaturesOnce(lines) <=> Cardinality({ f[i] : i \in S }) = Cardinality(S)
  BY <1>6 DEF FeaturesOnce
<1> HIDE DEF S, N
<1>8. Cardinality({ f[i] : i \in S }) = Cardinality(S) <=> \A x, y \in S : f[x] = f[y] => x = y
  BY <1>3, <1>4, <1>5, AsManyAsDifferent
<1>9. FeaturesOnce(lines) <=> \A i, j \in S : i # j => FeatureOf(lines[i].key) # FeatureOf(lines[j].key)
  BY <1>4, <1>7, <1>8
<1>10. FeaturesOnce(lines) <=> \A i, j \in 1 .. N :
             FeatureKey(lines[i].key) /\ FeatureKey(lines[j].key) /\ i # j =>
               FeatureOf(lines[i].key) # FeatureOf(lines[j].key)
  BY <1>2, <1>9
<1> QED
  BY <1>10 DEF N

LEMMA KeysOfFeatureAre ==
  ASSUME NEW key \in KeyNames, NEW p \in Phases, NEW f \in Features
  PROVE  key \in KeysOfFeature(p, f) <=> FeatureOf(key) = <<p, f>>
<1>1. key = <<key[1], key[2]>>
  BY DEF KeyNames
<1>2. key \in KeysOfFeature(p, f) <=>
        key[1] = p /\ key[2] \in Features \cup DOMAIN FeatureAlias /\ FeatureNamed(key[2]) = f
  BY <1>1 DEF KeysOfFeature
<1>3. FeatureNamed(key[2]) = f => key[2] \in Features \cup DOMAIN FeatureAlias
  BY DEF FeatureNamed
<1>4. FeatureOf(key) = <<p, f>> <=> key[1] = p /\ FeatureNamed(key[2]) = f
  BY DEF FeatureOf
<1> QED
  BY <1>2, <1>3, <1>4

LEMMA LinesOfFeatureAre ==
  ASSUME NEW lines, LinesType(lines), NEW p \in Phases, NEW f \in Features
  PROVE  LinesWith(lines, KeysOfFeature(p, f))
           = { i \in 1 .. Len(lines) : FeatureKey(lines[i].key) /\ FeatureOf(lines[i].key) = <<p, f>> }
<1> DEFINE N == Len(lines)
           W == LinesWith(lines, KeysOfFeature(p, f))
<1>1. DOMAIN lines = 1 .. N /\ \A i \in 1 .. N : lines[i].key \in KeyNames
  BY DEF LinesType
<1>2. <<p, f>> \in FeatureKeys
  BY DEF FeatureKeys
<1>3. \A i \in 1 .. N : lines[i].key \in KeysOfFeature(p, f) <=>
                          FeatureKey(lines[i].key) /\ FeatureOf(lines[i].key) = <<p, f>>
  BY <1>1, <1>2, KeysOfFeatureAre DEF FeatureKey
<1>4. W = { i \in 1 .. N : lines[i].key \in KeysOfFeature(p, f) }
  BY <1>1 DEF LinesWith
<1> HIDE DEF W
<1>5. W = { i \in 1 .. N : FeatureKey(lines[i].key) /\ FeatureOf(lines[i].key) = <<p, f>> }
  BY <1>3, <1>4
<1> QED
  BY <1>5 DEF W

LEMMA HeardSaysFeature ==
  ASSUME NEW l, NEW lines, LinesType(lines), NotedFeatures(l, lines, Len(lines)),
         NEW p \in Phases, NEW f \in Features
  PROVE  <<p, f>> \in l.seen_features <=> LinesWith(lines, KeysOfFeature(p, f)) # {}
<1> DEFINE W == LinesWith(lines, KeysOfFeature(p, f))
<1>1. W = { i \in 1 .. Len(lines) : FeatureKey(lines[i].key) /\ FeatureOf(lines[i].key) = <<p, f>> }
  BY LinesOfFeatureAre
<1> HIDE DEF W
<1>2. <<p, f>> \in l.seen_features <=> W # {}
  BY <1>1 DEF NotedFeatures
<1> QED
  BY <1>2 DEF W

LEMMA HeardSaysLimit ==
  ASSUME NEW l, NEW lines, LinesType(lines), NotedKeys(l, lines, Len(lines)), NotedThresholds(l),
         NEW name \in Thresholds
  PROVE  name \in l.seen_configs <=> TextsOf(lines, {<<NoName, name>>}) # {}
<1>1. DOMAIN lines = 1 .. Len(lines)
  BY DEF LinesType
<1>2. name \in l.seen_configs <=> \E i \in 1 .. Len(lines) : lines[i].key = <<NoName, name>>
  BY DEF NotedKeys, NotedThresholds
<1>3. TextsOf(lines, {<<NoName, name>>}) # {} <=> \E i \in 1 .. Len(lines) : lines[i].key = <<NoName, name>>
  BY <1>1 DEF TextsOf
<1> QED
  BY <1>2, <1>3

LEMMA HeardSaysMode ==
  ASSUME NEW l, NEW lines, LinesType(lines), NotedKeys(l, lines, Len(lines)),
         HeardMode(l, lines, Len(lines))
  PROVE  l.mode = "pattern_only" <=> TextsOf(lines, {ModeKey}) = {"pattern_only"}
<1> DEFINE N == Len(lines)
           T == TextsOf(lines, {ModeKey})
<1>1. DOMAIN lines = 1 .. N
  BY DEF LinesType
<1>2. \A t : t \in T <=> \E i \in 1 .. N : lines[i].key = ModeKey /\ t = lines[i].text
  BY <1>1 DEF TextsOf
<1> HIDE DEF T
<1>3. CASE ModeKey \in l.seen_keys
  <2>1. PICK i \in 1 .. N : lines[i].key = ModeKey
    BY <1>3 DEF NotedKeys
  <2>2. \A j \in 1 .. N : lines[j].key = ModeKey => j = i
    BY <2>1 DEF NotedKeys
  <2>3. l.mode = lines[i].text
    BY <2>1 DEF HeardMode
  <2>4. T = {l.mode}
    BY <1>2, <2>1, <2>2, <2>3
  <2> QED
    BY <2>4 DEF T
<1>4. CASE ModeKey \notin l.seen_keys
  <2>1. l.mode = "full"
    BY <1>4 DEF HeardMode
  <2>2. T = {}
    BY <1>2, <1>4 DEF NotedKeys
  <2> QED
    BY <2>1, <2>2 DEF T
<1> QED
  BY <1>3, <1>4

\* What a file that is not one of tables only must have set.
Complete(l) ==
  l.mode # "pattern_only" => RequiredFeatures \subseteq l.seen_features /\ Thresholds = l.seen_configs

LEMMA HeardSaysAll ==
  ASSUME NEW l, NEW lines, LinesType(lines), Heard(l, lines, Len(lines))
  PROVE  SaysAll(lines) <=> Complete(l)
<1>1. l.mode = "pattern_only" <=> TextsOf(lines, {ModeKey}) = {"pattern_only"}
  BY HeardSaysMode DEF Heard
<1>2. \A name \in Thresholds : name \in l.seen_configs <=> TextsOf(lines, {<<NoName, name>>}) # {}
  BY HeardSaysLimit DEF Heard
<1>3. \A p \in Phases, f \in Features :
        <<p, f>> \in l.seen_features <=> LinesWith(lines, KeysOfFeature(p, f)) # {}
  <2> SUFFICES ASSUME NEW p \in Phases, NEW f \in Features
               PROVE  <<p, f>> \in l.seen_features <=> LinesWith(lines, KeysOfFeature(p, f)) # {}
    OBVIOUS
  <2>1. NotedFeatures(l, lines, Len(lines))
    BY DEF Heard
  <2> QED
    BY <2>1, HeardSaysFeature
<1>4. l.seen_configs \subseteq Thresholds
  BY DEF Heard, NotedThresholds
<1>5. RequiredFeatures \subseteq l.seen_features <=>
        \A p \in Phases, f \in Features \ {"pattern_table"} : <<p, f>> \in l.seen_features
  BY DEF RequiredFeatures
<1>6. Thresholds = l.seen_configs <=> \A name \in Thresholds : name \in l.seen_configs
  BY <1>4
<1> QED
  BY <1>1, <1>2, <1>3, <1>5, <1>6 DEF SaysAll, Complete

LEMMA HeardIsWellFormed ==
  ASSUME NEW l, NEW lines, LinesType(lines), Heard(l, lines, Len(lines)), Complete(l)
  PROVE  WellFormed(lines)
<1>1. KeysOnce(lines)
  BY KeysOnceIs DEF Heard, NotedKeys
<1>2. FeaturesOnce(lines)
  BY FeaturesOnceIs DEF Heard, NotedFeatures
<1>3. \A i \in DOMAIN lines : GoodLine(lines[i].key, lines[i].text)
  BY DEF Heard, GoodUntil, LinesType
<1>4. SaysAll(lines)
  BY HeardSaysAll
<1> QED
  BY <1>1, <1>2, <1>3, <1>4 DEF WellFormed

LEMMA RefusedIsMalformed ==
  ASSUME NEW l, NEW lines, LinesType(lines), NEW n \in Nat, n + 1 \in 1 .. Len(lines), Heard(l, lines, n),
         LineRead(l, lines[n + 1].key, lines[n + 1].text) = {}
  PROVE  ~WellFormed(lines)
<1> DEFINE N == n + 1
<1>0. \A i \in 1 .. n : i \in 1 .. Len(lines) /\ i # N
  BY DEF LinesType
<1>1. lines[N].key \in KeyNames /\ DOMAIN lines = 1 .. Len(lines)
  BY DEF LinesType
<1>2. \/ lines[N].key \in l.seen_keys
      \/ FeatureKey(lines[N].key) /\ FeatureOf(lines[N].key) \in l.seen_features
      \/ ~GoodLine(lines[N].key, lines[N].text)
  BY <1>1, RefusedLine
<1> HIDE DEF N
<1>9. N \in 1 .. Len(lines)
  BY DEF N
<1>3. CASE lines[N].key \in l.seen_keys
  <2>1. PICK i \in 1 .. n : lines[i].key = lines[N].key
    BY <1>3 DEF Heard, NotedKeys
  <2>2. ~KeysOnce(lines)
    BY <1>0, <1>9, <2>1, KeysOnceIs
  <2> QED
    BY <2>2 DEF WellFormed
<1>4. CASE FeatureKey(lines[N].key) /\ FeatureOf(lines[N].key) \in l.seen_features
  <2>1. PICK i \in 1 .. n : FeatureKey(lines[i].key) /\ FeatureOf(lines[i].key) = FeatureOf(lines[N].key)
    BY <1>4 DEF Heard, NotedFeatures
  <2>2. ~FeaturesOnce(lines)
    BY <1>0, <1>4, <1>9, <2>1, FeaturesOnceIs
  <2> QED
    BY <2>2 DEF WellFormed
<1>5. CASE ~GoodLine(lines[N].key, lines[N].text)
  BY <1>1, <1>5, <1>9 DEF WellFormed
<1> QED
  BY <1>2, <1>3, <1>4, <1>5

(***************************************************************************)
(* The tables.                                                             *)
(***************************************************************************)
TargetSet == {NoName, "opening", "midgame", "late"}
SameWeights(c, d) == d.weights = c.weights

LEMMA TargetsAre ==
  /\ Len(Targets) = 4
  /\ \A j \in 1 .. 4 : Targets[j] \in TargetSet
  /\ \A i, j \in 1 .. 4 : Targets[i] = Targets[j] => i = j
  /\ \A key \in TableKeys : \E j \in 1 .. 4 : Targets[j] = TargetOf(key)
  /\ \A p \in Phases : \E j \in 1 .. 4 : Targets[j] = p
<1>1. /\ Targets[1] = NoName /\ Targets[2] = "opening" /\ Targets[3] = "midgame"
      /\ Targets[4] = "late" /\ Len(Targets) = 4
  BY DEF Targets
<1>2. \A j \in 1 .. 4 : j = 1 \/ j = 2 \/ j = 3 \/ j = 4
  OBVIOUS
<1>3. \A j \in 1 .. 4 : Targets[j] \in TargetSet
  BY <1>1, <1>2 DEF TargetSet
<1>4. \A i, j \in 1 .. 4 : Targets[i] = Targets[j] => i = j
  BY <1>1, <1>2, WordsDiffer
<1>5. \A key \in TableKeys : \E j \in 1 .. 4 : Targets[j] = TargetOf(key)
  BY <1>1, WordsDiffer DEF TableKeys, TargetOf
<1>6. \A p \in Phases : \E j \in 1 .. 4 : Targets[j] = p
  BY <1>1 DEF Phases
<1> QED
  BY <1>1, <1>3, <1>4, <1>5, <1>6

OneTable(c, d, target, bundle) ==
  \A t \in TargetSet : TableOf(d, t) = IF t = target THEN {bundle} ELSE TableOf(c, t)

LEMMA WithTableIs ==
  ASSUME NEW c, ConfigShape(c), NEW target \in TargetSet, NEW bundle,
         NEW d, d = WithTable(c, target, bundle)
  PROVE  /\ ConfigShape(d) /\ SameWeights(c, d) /\ SameLimits(c, d)
         /\ OneTable(c, d, target, bundle)
<1>1. CASE target = NoName
  <2>1. d = [c EXCEPT !.pattern_tables = {bundle}]
    BY <1>1 DEF WithTable
  <2>2. ConfigShape(d) /\ SameWeights(c, d) /\ SameLimits(c, d)
    BY <2>1 DEF ConfigShape, SameWeights, SameLimits
  <2>3. d.pattern_tables = {bundle} /\ d.phase_tables = c.phase_tables
    BY <2>1 DEF ConfigShape
  <2> QED
    BY <1>1, <2>2, <2>3 DEF TableOf, OneTable
<1>2. CASE target # NoName
  <2>1. d = [c EXCEPT !.phase_tables[target] = {bundle}]
    BY <1>2 DEF WithTable
  <2>2. target \in Phases
    BY <1>2 DEF TargetSet, Phases
  <2>3. /\ d.pattern_tables = c.pattern_tables /\ d.weights = c.weights
        /\ d.opening_max_occupied = c.opening_max_occupied
        /\ d.midgame_max_occupied = c.midgame_max_occupied
        /\ d.phase_tables = [c.phase_tables EXCEPT ![target] = {bundle}]
    BY <2>1 DEF ConfigShape
  <2>4. d = [weights |-> d.weights, opening_max_occupied |-> d.opening_max_occupied,
             midgame_max_occupied |-> d.midgame_max_occupied,
             pattern_tables |-> d.pattern_tables, phase_tables |-> d.phase_tables]
    BY <2>1 DEF ConfigShape
  <2>5. d.phase_tables = [p \in Phases |-> d.phase_tables[p]]
    BY <2>3 DEF ConfigShape
  <2>6. /\ d.phase_tables[target] = {bundle}
        /\ \A p \in Phases : p # target => d.phase_tables[p] = c.phase_tables[p]
    BY <2>2, <2>3 DEF ConfigShape
  <2>7. \A t \in TargetSet : t = NoName \/ t \in Phases
    BY DEF TargetSet, Phases
  <2>8. ConfigShape(d) /\ SameWeights(c, d) /\ SameLimits(c, d)
    BY <2>3, <2>4, <2>5 DEF ConfigShape, SameWeights, SameLimits
  <2>9. /\ TableOf(d, target) = {bundle}
        /\ \A t \in TargetSet : t # target => TableOf(d, t) = TableOf(c, t)
    BY <1>2, <2>3, <2>6, <2>7 DEF TableOf
  <2> QED
    BY <2>8, <2>9 DEF OneTable
<1> QED
  BY <1>1, <1>2

LEMMA ZeroFeaturesIs ==
  ASSUME NEW c, ConfigShape(c), NEW keys
  PROVE  LET d == ZeroFeatures(c, keys)
         IN  /\ ConfigShape(d) /\ SameTables(c, d) /\ SameLimits(c, d)
             /\ \A k \in FeatureKeys :
                  d.weights[k[1]][k[2]] = IF k \in keys THEN 0 ELSE c.weights[k[1]][k[2]]
<1> DEFINE w == [p \in Phases |-> [f \in Features |-> IF <<p, f>> \in keys THEN 0 ELSE c.weights[p][f]]]
           d == ZeroFeatures(c, keys)
<1>1. d = [c EXCEPT !.weights = w]
  BY DEF ZeroFeatures
<1>2. w \in WeightsType
  BY DEF WeightsType, ConfigShape
<1>3. \A k \in FeatureKeys : w[k[1]][k[2]] = IF k \in keys THEN 0 ELSE c.weights[k[1]][k[2]]
  BY DEF FeatureKeys
<1> HIDE DEF w, d
<1>4. /\ d.pattern_tables = c.pattern_tables /\ d.weights = w
      /\ d.opening_max_occupied = c.opening_max_occupied
      /\ d.midgame_max_occupied = c.midgame_max_occupied
      /\ d.phase_tables = c.phase_tables
  BY <1>1 DEF ConfigShape
<1>5. d = [weights |-> d.weights, opening_max_occupied |-> d.opening_max_occupied,
           midgame_max_occupied |-> d.midgame_max_occupied,
           pattern_tables |-> d.pattern_tables, phase_tables |-> d.phase_tables]
  BY <1>1 DEF ConfigShape
<1>6. ConfigShape(d)
  BY <1>2, <1>4, <1>5 DEF ConfigShape
<1>7. SameTables(c, d) /\ SameLimits(c, d)
  BY <1>4 DEF SameTables, SameLimits
<1>8. \A k \in FeatureKeys : d.weights[k[1]][k[2]] = IF k \in keys THEN 0 ELSE c.weights[k[1]][k[2]]
  BY <1>3, <1>4
<1> QED
  BY <1>6, <1>7, <1>8 DEF d

LEMMA WeightsAre ==
  ASSUME NEW named, \A x \in DOMAIN named : named[x] \in Int
  PROVE  Weights(named) \in [Features -> Int]
BY DEF Weights

LEMMA DefaultConfigShape ==
  /\ ConfigShape(DefaultConfig)
  /\ DefaultConfig.pattern_tables = {} /\ \A p \in Phases : DefaultConfig.phase_tables[p] = {}
<1> DEFINE c == DefaultConfig
           w == c.weights
<1>1. w["opening"] \in [Features -> Int]
  BY WeightsAre DEF DefaultConfig
<1>2. w["midgame"] \in [Features -> Int]
  BY WeightsAre DEF DefaultConfig
<1>3. w["late"] \in [Features -> Int]
  BY WeightsAre DEF DefaultConfig
<1>4. w = [opening |-> w["opening"], midgame |-> w["midgame"], late |-> w["late"]]
  BY DEF DefaultConfig
<1>5. /\ c.opening_max_occupied = 20 /\ c.midgame_max_occupied = 44
      /\ c.pattern_tables = {} /\ c.phase_tables = [phase \in Phases |-> {}]
  BY DEF DefaultConfig
<1>6. c = [weights |-> w, opening_max_occupied |-> c.opening_max_occupied,
          midgame_max_occupied |-> c.midgame_max_occupied,
          pattern_tables |-> c.pattern_tables, phase_tables |-> c.phase_tables]
  BY DEF DefaultConfig
<1> HIDE DEF w
<1>7. w \in WeightsType
  <2>1. DOMAIN w = Phases
    BY <1>4 DEF Phases
  <2>2. w = [p \in Phases |-> w[p]]
    BY <1>4, <2>1
  <2>3. \A p \in Phases : w[p] \in [Features -> Int]
    BY <1>1, <1>2, <1>3 DEF Phases
  <2> QED
    BY <2>2, <2>3 DEF WeightsType
<1> HIDE DEF c
<1>8. c.phase_tables = [p \in Phases |-> c.phase_tables[p]] /\ \A p \in Phases : c.phase_tables[p] = {}
  BY <1>5
<1>9. ConfigShape(c)
  BY <1>6, <1>7, <1>8 DEF ConfigShape, w
<1> QED
  BY <1>5, <1>8, <1>9 DEF c

\* The lines of a table file that can be read.
Readable(lines) ==
  /\ lines # <<>>
  /\ \A i \in DOMAIN lines :
       /\ lines[i].family \in Families /\ lines[i].value \in TableValues
       /\ lines[i].index \in 0 .. TableSize[lines[i].family] - 1
  /\ \A i, j \in DOMAIN lines :
       i # j => lines[i].family # lines[j].family \/ lines[i].index # lines[j].index
TableIn(lines) == [family \in Families |-> FamilyEntries(lines, family)]

LEMMA TableReadIs ==
  ASSUME NEW lines
  PROVE  TableRead(lines) = IF Readable(lines) THEN {TableIn(lines)} ELSE {}
BY Zenon DEF TableRead, Readable, TableIn

\* An entry of a table is a line's.
LEMMA EntriesAreLines ==
  ASSUME NEW lines, NEW family, NEW index \in DOMAIN FamilyEntries(lines, family)
  PROVE  \E i \in DOMAIN lines : /\ lines[i].family = family /\ lines[i].index = index
                                 /\ FamilyEntries(lines, family)[index] = lines[i].value
<1> DEFINE Found == { lines[k] : k \in DOMAIN lines }
           Of(line) == line.family = family /\ line.index = index
           Indexes == { lines[i].index : i \in { k \in DOMAIN lines : lines[k].family = family } }
<1>1. FamilyEntries(lines, family) = [x \in Indexes |->
        (CHOOSE line \in Found : line.family = family /\ line.index = x).value]
  BY Zenon DEF FamilyEntries
<1>2. index \in Indexes
  BY <1>1
<1>3. \E line \in Found : Of(line)
  BY <1>2
<1> DEFINE one == CHOOSE line \in Found : Of(line)
<1>4. one \in Found /\ Of(one)
  BY <1>3, Zenon
<1>5. FamilyEntries(lines, family)[index] = one.value
  BY <1>1, <1>2
<1> HIDE DEF one
<1> QED
  BY <1>4, <1>5

LEMMA ReadIsTable ==
  ASSUME NEW lines \in Seq(TableLines), NEW bundle, TableRead(lines) = {bundle}
  PROVE  IsTable(bundle)
<1>1. Readable(lines) /\ bundle = TableIn(lines)
  BY TableReadIs
<1>2. DOMAIN bundle = Families /\ \A family \in Families : bundle[family] = FamilyEntries(lines, family)
  BY <1>1 DEF TableIn
<1>3. ASSUME NEW family \in Families, NEW index \in DOMAIN bundle[family]
      PROVE  index \in 0 .. TableSize[family] - 1 /\ bundle[family][index] \in TableValues
  <2>1. index \in DOMAIN FamilyEntries(lines, family)
    BY <1>2, <1>3
  <2>2. PICK i \in DOMAIN lines : /\ lines[i].family = family /\ lines[i].index = index
                                  /\ FamilyEntries(lines, family)[index] = lines[i].value
    BY <2>1, EntriesAreLines
  <2> QED
    BY <1>1, <1>2, <2>2, Zenon DEF Readable
<1>4. \E family \in Families : DOMAIN bundle[family] # {}
  <2>1. 1 \in DOMAIN lines
    BY <1>1 DEF Readable
  <2> DEFINE family == lines[1].family
             Indexes == { lines[i].index : i \in { k \in DOMAIN lines : lines[k].family = family } }
  <2>2. family \in Families
    BY <1>1, <2>1 DEF Readable
  <2>3. DOMAIN FamilyEntries(lines, family) = Indexes
    BY Zenon DEF FamilyEntries
  <2>4. lines[1].index \in Indexes
    BY <2>1
  <2> HIDE DEF family, Indexes
  <2> QED
    BY <1>2, <2>2, <2>3, <2>4
<1> QED
  BY <1>2, <1>3, <1>4 DEF IsTable

LEMMA TablesAreIntegers == \A bundle : IsTable(bundle) => IntegerTable(bundle)
<1> SUFFICES ASSUME NEW bundle, IsTable(bundle), NEW family \in Families, NEW index \in DOMAIN bundle[family]
             PROVE  bundle[family][index] \in Int
  BY Zenon DEF IntegerTable
<1>1. bundle[family][index] \in TableValues
  BY Zenon DEF IsTable
<1>2. TableValues \subseteq Int
  BY DEF TableValues
<1> QED
  BY <1>1, <1>2, Zenon

\* What begins with lines that cannot be read cannot be read.
LEMMA BadBeginning ==
  ASSUME NEW got \in Seq(TableLines), NEW lines \in Seq(TableLines), got # <<>>,
         \A i \in 1 .. Len(got) : i <= Len(lines) /\ got[i] = lines[i],
         TableRead(got) = {}
  PROVE  TableRead(lines) = {}
<1>1. ~Readable(got)
  BY TableReadIs
<1>2. \A i \in DOMAIN got : i \in DOMAIN lines /\ got[i] = lines[i]
  OBVIOUS
<1>3. ~Readable(lines)
  BY <1>1, <1>2, Zenon DEF Readable
<1> QED
  BY <1>3, TableReadIs

(***************************************************************************)
(* The invariant.                                                          *)
(***************************************************************************)
NoTables(c) == \A t \in TargetSet : TableOf(c, t) = {}
\* Of a file being written, or written while it was read, there is a second version.
WrittenType(l) ==
  /\ l.written = [file \in DOMAIN TableFiles |-> l.written[file]]
  /\ \A file \in DOMAIN TableFiles : l.written[file] \in 1 .. Len(TableFiles[file])
  /\ \A file \in l.unfinished : file \in DOMAIN TableFiles /\ l.written[file] > 1
  /\ \A key \in l.torn : key \in DOMAIN FileAt /\ l.written[FileAt[key]] > 1
VersionRead(l, key, bundle) ==
  \E n \in 1 .. l.written[FileAt[key]] : TableRead(TableFiles[FileAt[key]][n]) = {bundle}
\* A table kept is what a version of its file says, or a trainer wrote into it.
CacheTrue(l) ==
  \A key \in DOMAIN l.cache :
    /\ key \in DOMAIN FileAt /\ IsTable(l.cache[key])
    /\ key \in l.torn \/ VersionRead(l, key, l.cache[key])
\* The targets before the next have their tables, of those kept.
TargetDone(l, target) ==
  /\ CacheKey(l.paths[target]) \in DOMAIN l.cache
  /\ TableOf(l.config, target) = {l.cache[CacheKey(l.paths[target])]}
TablesSet(l) ==
  \A j \in 1 .. 4 :
    IF j < l.next /\ Targets[j] \in DOMAIN l.paths THEN TargetDone(l, Targets[j])
    ELSE TableOf(l.config, Targets[j]) = {}
NextKey(l) == CacheKey(l.paths[Targets[l.next]])
DiskLines(l, key) == TableFiles[FileAt[key]][l.written[FileAt[key]]]
\* A reading that no trainer wrote into has the beginning of its file.
ReadingInv(l) ==
  /\ l.next <= 4 /\ Targets[l.next] \in DOMAIN l.paths
  /\ NextKey(l) \notin DOMAIN l.cache /\ NextKey(l) \in DOMAIN FileAt
  /\ l.got \in Seq(TableLines)
  /\ NextKey(l) \notin l.torn =>
       \A i \in 1 .. Len(l.got) :
         i <= Len(DiskLines(l, NextKey(l))) /\ l.got[i] = DiskLines(l, NextKey(l))[i]

Fresh(l) ==
  /\ l.file = NoName /\ l.next = 1 /\ l.seen_keys = {} /\ l.seen_features = {}
  /\ l.seen_configs = {} /\ l.mode = "full" /\ l.paths = Nothing
  /\ l.config = DefaultConfig /\ l.cache = Nothing
LinesInv(l, lines) ==
  /\ l.next \in 1 .. Len(lines) + 1 /\ Heard(l, lines, l.next - 1) /\ UnheardWeights(l)
  /\ NoTables(l.config) /\ l.cache = Nothing
TablesInv(l, lines) ==
  /\ l.next \in Nat \ {0} /\ Heard(l, lines, Len(lines)) /\ Complete(l) /\ ClearedWeights(l)
  /\ CacheTrue(l) /\ TablesSet(l)
\* Why a path of a table may be refused.
Unread(l, key) ==
  \/ key \notin DOMAIN FileAt
  \/ key \in l.torn /\ l.written[FileAt[key]] > 1
  \/ \E n \in 1 .. l.written[FileAt[key]] : TableRead(TableFiles[FileAt[key]][n]) = {}
Unreadable(l, lines) ==
  \E key \in TableKeys : \E path \in TextsOf(lines, {key}) : Unread(l, CacheKey(path))

LoaderInv(l) ==
  /\ LoaderShape(l) /\ ConfigShape(l.config) /\ WrittenType(l)
  /\ l.at = "args" => Fresh(l)
  /\ l.at \in {"lines", "tables", "table"} => l.file \in DOMAIN ConfigFiles
  /\ l.at = "lines" => LinesInv(l, ConfigFiles[l.file])
  /\ l.at \in {"tables", "table"} => TablesInv(l, ConfigFiles[l.file])
  /\ l.at = "table" => ReadingInv(l)
  /\ l.at = "refused" /\ l.file # NoName =>
       ~WellFormed(ConfigFiles[l.file]) \/ Unreadable(l, ConfigFiles[l.file])
  /\ l.at = "playing" => Weighable(l.config)

\* What the lines of the config have left, and what a trainer has.
SameRead(l, m) ==
  /\ m.seen_keys = l.seen_keys /\ m.seen_features = l.seen_features
  /\ m.seen_configs = l.seen_configs /\ m.mode = l.mode /\ m.paths = l.paths
SameFiles(l, m) == m.written = l.written /\ m.unfinished = l.unfinished /\ m.torn = l.torn

LEMMA TableFilesAre ==
  /\ \A file \in DOMAIN TableFiles : /\ Len(TableFiles[file]) \in Nat \ {0}
                                     /\ \A n \in 1 .. Len(TableFiles[file]) :
                                          TableFiles[file][n] \in Seq(TableLines)
  /\ \A key \in DOMAIN FileAt : FileAt[key] \in DOMAIN TableFiles
  /\ TornLines \subseteq TableLines
<1>1. \A key \in DOMAIN FileAt : FileAt[key] \in DOMAIN TableFiles
  BY Zenon, ConfigAssumption
<1>2. \A file \in DOMAIN TableFiles : TableFiles[file] \in Seq(Seq(TableLines)) \ {<<>>}
  BY Zenon, ConfigAssumption
<1>3. TornLines \subseteq TableLines
  BY Zenon, ConfigAssumption
<1>4. ASSUME NEW versions \in Seq(Seq(TableLines)) \ {<<>>}
      PROVE  /\ Len(versions) \in Nat \ {0}
             /\ \A n \in 1 .. Len(versions) : versions[n] \in Seq(TableLines)
  OBVIOUS
<1> QED
  BY <1>1, <1>2, <1>3, <1>4

\* The version of a file that is on the disk.
LEMMA OnDiskAre ==
  ASSUME NEW l, WrittenType(l), NEW key \in DOMAIN FileAt
  PROVE  /\ l.written[FileAt[key]] \in 1 .. l.written[FileAt[key]]
         /\ DiskLines(l, key) \in Seq(TableLines)
<1> DEFINE file == FileAt[key]
           w == l.written[file]
<1>1. file \in DOMAIN TableFiles
  BY TableFilesAre
<1>2. w \in 1 .. Len(TableFiles[file]) /\ Len(TableFiles[file]) \in Nat
  BY <1>1, TableFilesAre DEF WrittenType
<1>3. TableFiles[file][w] \in Seq(TableLines)
  BY <1>1, <1>2, TableFilesAre
<1> HIDE DEF file
<1>4. w \in 1 .. w
  BY <1>2
<1> QED
  BY <1>3, <1>4 DEF DiskLines, file

LEMMA FilesAreLines == \A file \in DOMAIN ConfigFiles : LinesType(ConfigFiles[file])
<1> SUFFICES ASSUME NEW file \in DOMAIN ConfigFiles
             PROVE  LinesType(ConfigFiles[file])
  OBVIOUS
<1> DEFINE lines == ConfigFiles[file]
<1>1. Len(lines) \in Nat /\ DOMAIN lines = 1 .. Len(lines)
  BY ConfigAssumption
<1>2. \A i \in DOMAIN lines :
        /\ lines[i].key \in STRING \X STRING
        /\ FeatureOf(lines[i].key) \in FeatureKeys
             \/ lines[i].key \in {NoName} \X Thresholds => lines[i].text \in SUBSET Int
  BY ConfigAssumption
<1> HIDE DEF lines
<1> QED
  BY <1>1, <1>2 DEF LinesType, KeyNames, FeatureKey, LimitKeys, lines

LEMMA HeardOnly ==
  ASSUME NEW l, NEW m, NEW lines, NEW n, Heard(l, lines, n),
         m.seen_keys = l.seen_keys, m.seen_features = l.seen_features,
         m.seen_configs = l.seen_configs, m.mode = l.mode, m.paths = l.paths,
         \A k \in l.seen_features : m.config.weights[k[1]][k[2]] = l.config.weights[k[1]][k[2]],
         SameLimits(l.config, m.config)
  PROVE  Heard(m, lines, n)
<1>1. \A name \in Thresholds : m.config[name] = l.config[name]
  BY DEF SameLimits, Thresholds
<1>2. NotedKeys(m, lines, n) /\ NotedFeatures(m, lines, n)
  BY DEF Heard, NotedKeys, NotedFeatures
<1>3. NotedThresholds(m) /\ HeardMode(m, lines, n) /\ GoodUntil(lines, n)
  BY DEF Heard, NotedThresholds, HeardMode
<1>4. HeardWeights(m, lines, n)
  <2>1. \A i \in 1 .. n : FeatureKey(lines[i].key) => FeatureOf(lines[i].key) \in l.seen_features
    BY DEF Heard, NotedFeatures
  <2> QED
    BY <2>1 DEF Heard, HeardWeights
<1>5. HeardLimits(m, lines, n) /\ UnheardLimits(m)
  BY <1>1 DEF Heard, HeardLimits, UnheardLimits
<1>6. HeardPaths(m, lines, n)
  BY DEF Heard, HeardPaths
<1> QED
  BY <1>2, <1>3, <1>4, <1>5, <1>6 DEF Heard

LEMMA FreshHears ==
  ASSUME NEW l, Fresh(l), NEW lines
  PROVE  Heard(l, lines, 0) /\ UnheardWeights(l) /\ NoTables(l.config)
<1>1. 1 .. 0 = {}
  OBVIOUS
<1>2. NotedKeys(l, lines, 0) /\ NotedFeatures(l, lines, 0)
  BY <1>1 DEF Fresh, NotedKeys, NotedFeatures
<1>3. NotedThresholds(l) /\ HeardMode(l, lines, 0) /\ GoodUntil(lines, 0)
  BY <1>1 DEF Fresh, NotedThresholds, HeardMode, GoodUntil
<1>4. HeardWeights(l, lines, 0) /\ HeardLimits(l, lines, 0)
  BY <1>1 DEF HeardWeights, HeardLimits
<1>5. HeardPaths(l, lines, 0)
  BY <1>1 DEF Fresh, HeardPaths, Nothing
<1>6. UnheardLimits(l) /\ UnheardWeights(l)
  BY DEF Fresh, UnheardLimits, UnheardWeights
<1>7. NoTables(l.config)
  BY DefaultConfigShape DEF Fresh, NoTables, TableOf, TargetSet, Phases
<1> QED
  BY <1>2, <1>3, <1>4, <1>5, <1>6, <1>7 DEF Heard

\* What can be loaded can be weighed.
LEMMA BuiltInWeighable == Weighable(DefaultConfig)
<1>1. NoneOrOne({})
  BY DEF NoneOrOne
<1>2. IntegerTables(DefaultConfig)
  BY <1>1, DefaultConfigShape DEF IntegerTables
<1> QED
  BY <1>2, DefaultConfigShape DEF Weighable, ConfigShape, WeightsType

LEMMA TablesWeighable ==
  ASSUME NEW l, NEW lines, ConfigShape(l.config), TablesInv(l, lines)
  PROVE  Weighable(l.config)
<1>1. \A key \in DOMAIN l.cache : IntegerTable(l.cache[key])
  BY TablesAreIntegers DEF TablesInv, CacheTrue
<1>2. ASSUME NEW j \in 1 .. 4
      PROVE  NoneOrOne(TableOf(l.config, Targets[j]))
  BY <1>1 DEF TablesInv, TablesSet, TargetDone, NoneOrOne
<1>3. NoneOrOne(l.config.pattern_tables) /\ \A p \in Phases : NoneOrOne(l.config.phase_tables[p])
  <2>1. Targets[1] = NoName /\ Targets[2] = "opening" /\ Targets[3] = "midgame" /\ Targets[4] = "late"
    BY DEF Targets
  <2>2. /\ NoneOrOne(TableOf(l.config, NoName)) /\ NoneOrOne(TableOf(l.config, "opening"))
        /\ NoneOrOne(TableOf(l.config, "midgame")) /\ NoneOrOne(TableOf(l.config, "late"))
    BY <1>2, <2>1
  <2>3. NoName \notin Phases
    BY WordsDiffer
  <2> QED
    BY <2>2, <2>3 DEF TableOf, Phases
<1> QED
  BY <1>3 DEF Weighable, IntegerTables, ConfigShape, WeightsType

LEMMA InitLoader == \A request : LoaderInv(NewSelection(request))
<1> SUFFICES ASSUME NEW request
             PROVE  LoaderInv(NewSelection(request))
  OBVIOUS
<1> DEFINE l == NewSelection(request)
           at == IF request.tool THEN "args" ELSE "playing"
<1>1. LoaderShape(l) /\ l.config = DefaultConfig /\ l.at = at
  BY DEF NewSelection, LoaderShape
<1>2. WrittenType(l)
  <2>1. l.written = [f \in DOMAIN TableFiles |-> 1] /\ l.unfinished = {} /\ l.torn = {}
    BY Zenon DEF NewSelection
  <2>2. \A f \in DOMAIN TableFiles : 1 \in 1 .. Len(TableFiles[f])
    BY TableFilesAre
  <2> HIDE DEF l
  <2> QED
    BY <2>1, <2>2 DEF WrittenType
<1>3. Fresh(l)
  BY DEF NewSelection, Fresh
<1>4. l.at = "args" \/ l.at = "playing"
  BY <1>1
<1> HIDE DEF l
<1> QED
  BY <1>1, <1>2, <1>3, <1>4, DefaultConfigShape, BuiltInWeighable DEF LoaderInv, l

LEMMA SetAtIs ==
  ASSUME NEW l, LoaderShape(l), NEW at, NEW m, m = [l EXCEPT !.at = at]
  PROVE  /\ LoaderShape(m) /\ m.at = at /\ m.file = l.file /\ m.config = l.config
         /\ m.written = l.written /\ m.unfinished = l.unfinished /\ m.torn = l.torn
BY DEF LoaderShape

LEMMA RefuseKeeps ==
  ASSUME NEW l, LoaderInv(l), NEW m, m = [l EXCEPT !.at = "refused"],
         l.file # NoName => ~WellFormed(ConfigFiles[l.file]) \/ Unreadable(l, ConfigFiles[l.file])
  PROVE  LoaderInv(m)
<1>1. /\ LoaderShape(m) /\ m.at = "refused" /\ m.file = l.file /\ m.config = l.config
      /\ m.written = l.written /\ m.unfinished = l.unfinished /\ m.torn = l.torn
  BY SetAtIs DEF LoaderInv
<1>2. \A lines : Unreadable(m, lines) <=> Unreadable(l, lines)
  BY <1>1 DEF Unreadable, Unread
<1>3. WrittenType(m)
  BY <1>1 DEF LoaderInv, WrittenType
<1> QED
  BY <1>1, <1>2, <1>3 DEF LoaderInv

LEMMA ParseKeeps ==
  ASSUME NEW l, LoaderInv(l), l.at = "args", NEW chosen, NEW arg, NEW m,
         m = [l EXCEPT !.chosen = chosen, !.arg = arg]
  PROVE  LoaderInv(m)
<1>1. LoaderShape(m) /\ m.at = l.at /\ m.file = l.file /\ m.config = l.config /\ m.written = l.written /\ m.unfinished = l.unfinished /\ m.torn = l.torn
  BY DEF LoaderInv, LoaderShape
<1>2. Fresh(m)
  BY DEF LoaderInv, LoaderShape, Fresh
<1>3. WrittenType(m)
  BY <1>1 DEF LoaderInv, WrittenType
<1> QED
  BY <1>1, <1>2, <1>3 DEF LoaderInv

LEMMA SelectKeeps ==
  ASSUME NEW l, LoaderInv(l), l.at = "args", NEW file \in DOMAIN ConfigFiles, NEW m,
         m = [l EXCEPT !.at = "lines", !.file = file]
  PROVE  LoaderInv(m)
<1> DEFINE lines == ConfigFiles[file]
<1>1. LoaderShape(m) /\ m.at = "lines" /\ m.file = file /\ m.config = l.config /\ m.written = l.written /\ m.unfinished = l.unfinished /\ m.torn = l.torn
  BY DEF LoaderInv, LoaderShape
<1>2. /\ m.seen_keys = l.seen_keys /\ m.seen_features = l.seen_features
      /\ m.seen_configs = l.seen_configs /\ m.mode = l.mode /\ m.paths = l.paths
      /\ m.next = l.next /\ m.cache = l.cache
  BY DEF LoaderInv, LoaderShape
<1>3. WrittenType(m)
  BY <1>1 DEF LoaderInv, WrittenType
<1>4. Fresh(l)
  BY DEF LoaderInv
<1>5. Heard(l, lines, 0) /\ UnheardWeights(l) /\ NoTables(l.config)
  BY <1>4, FreshHears
<1>6. Heard(m, lines, 0)
  BY <1>1, <1>2, <1>5, HeardOnly DEF SameLimits
<1>7. UnheardWeights(m) /\ NoTables(m.config)
  BY <1>1, <1>2, <1>5 DEF UnheardWeights
<1>8. Len(lines) \in Nat
  BY FilesAreLines DEF LinesType
<1>9. LinesInv(m, lines)
  <2> DEFINE N == Len(lines)
  <2>1. m.next = 1 /\ m.cache = Nothing
    BY <1>2, <1>4 DEF Fresh
  <2>2. m.next \in 1 .. N + 1 /\ m.next - 1 = 0
    <3> HIDE DEF N
    <3> QED
      BY <2>1, <1>8 DEF N
  <2> QED
    BY <1>6, <1>7, <2>1, <2>2 DEF LinesInv
<1> QED
  BY <1>1, <1>3, <1>9 DEF LoaderInv

LEMMA ReadKeeps ==
  ASSUME NEW l, LoaderInv(l), l.at = "lines", NEW lines, lines = ConfigFiles[l.file],
         l.next <= Len(lines),
         NEW r \in LineRead(l, lines[l.next].key, lines[l.next].text), NEW m,
         m = Accept(r, lines[l.next].key)
  PROVE  LoaderInv(m)
<1> DEFINE N == l.next
           n == N - 1
           key == lines[N].key
           text == lines[N].text
<1>1. LinesType(lines) /\ LinesInv(l, lines) /\ l.file \in DOMAIN ConfigFiles
  BY FilesAreLines DEF LoaderInv
<1>2. Len(lines) \in Nat /\ N \in 1 .. Len(lines)
  BY <1>1 DEF LinesType, LinesInv
<1>3. n \in Nat /\ n + 1 = N
  BY <1>2
<1>4. key \in KeyNames /\ (FeatureKey(key) \/ key \in LimitKeys => text \in SUBSET Int)
  BY <1>1, <1>2 DEF LinesType
<1>5. LoaderShape(l) /\ ConfigShape(l.config)
  BY DEF LoaderInv
<1>6. /\ Takes(l, key, text, r) /\ key \notin l.seen_keys
      /\ FeatureKey(key) => FeatureOf(key) \notin l.seen_features
      /\ GoodLine(key, text)
  BY <1>4, <1>5, TakesIt
<1>7. ReadsLine(l, key, text, m)
  BY <1>6, AcceptReads
<1>8. Heard(l, lines, n)
  BY <1>1 DEF LinesInv
<1>9. Heard(m, lines, n + 1)
  <2> DEFINE K == n + 1
  <2>1. K = N /\ n \in Nat
    BY <1>3
  <2>2. ReadsLine(l, lines[K].key, lines[K].text, m)
    BY <2>1, <1>7
  <2>3. /\ lines[K].key \notin l.seen_keys
        /\ FeatureKey(lines[K].key) => FeatureOf(lines[K].key) \notin l.seen_features
        /\ GoodLine(lines[K].key, lines[K].text)
    BY <2>1, <1>6
  <2> QED
    BY <1>8, <2>1, <2>2, <2>3, ReadHears
<1>10. UnheardWeights(m)
  <2>1. /\ TakesFeature(l, key, m) /\ TakesWeight(l, key, text, m)
        /\ TakesThreshold(l, key, m) /\ TakesLimit(l, key, text, m)
    BY <1>7 DEF ReadsLine
  <2>2. UnheardWeights(l)
    BY <1>1 DEF LinesInv
  <2> HIDE DEF key, text
  <2> QED
    BY <2>1, <2>2, ReadKeepsUnheard
<1>11. /\ LoaderShape(m) /\ ConfigShape(m.config) /\ SameElsewhere(l, m)
       /\ SameTables(l.config, m.config) /\ m.next = N + 1
  BY <1>7 DEF ReadsLine
<1>12. /\ m.at = "lines" /\ m.file = l.file /\ m.cache = Nothing /\ m.written = l.written /\ m.unfinished = l.unfinished /\ m.torn = l.torn
  BY <1>1, <1>11 DEF SameElsewhere, LinesInv
<1>13. NoTables(m.config)
  BY <1>1, <1>11 DEF LinesInv, NoTables, TableOf, SameTables
<1>14. LinesInv(m, lines)
  <2> DEFINE M == m.next
             L == Len(lines)
  <2>1. M \in 1 .. L + 1 /\ M - 1 = n + 1
    <3>1. N \in Nat \ {0} /\ L \in Nat /\ N <= L /\ n = N - 1
      BY <1>2
    <3>2. M = N + 1
      BY <1>11
    <3> HIDE DEF L, M, N, n
    <3> QED
      BY <3>1, <3>2
  <2>2. Heard(m, lines, M - 1)
    BY <2>1, <1>9
  <2> QED
    BY <2>1, <2>2, <1>10, <1>12, <1>13 DEF LinesInv
<1>15. WrittenType(m)
  BY <1>12 DEF LoaderInv, WrittenType
<1> QED
  BY <1>1, <1>11, <1>12, <1>14, <1>15 DEF LoaderInv

LEMMA NothingCached ==
  ASSUME NEW l, l.cache = Nothing
  PROVE  CacheTrue(l)
BY DEF CacheTrue, Nothing

LEMMA NothingSet ==
  ASSUME NEW l, NoTables(l.config), l.next = 1
  PROVE  TablesSet(l)
BY TargetsAre DEF NoTables, TablesSet

LEMMA EndKeeps ==
  ASSUME NEW l, LoaderInv(l), l.at = "lines", NEW lines, lines = ConfigFiles[l.file],
         l.next > Len(lines), NEW m,
         \/ /\ l.mode = "pattern_only"
            /\ m = [l EXCEPT !.at = "tables", !.next = 1,
                      !.config = ZeroFeatures(@, FeatureKeys \ l.seen_features)]
         \/ /\ l.mode # "pattern_only"
            /\ RequiredFeatures \subseteq l.seen_features /\ Thresholds = l.seen_configs
            /\ m = [l EXCEPT !.at = "tables", !.next = 1]
  PROVE  LoaderInv(m)
<1> DEFINE c == l.config
           z == ZeroFeatures(c, FeatureKeys \ l.seen_features)
           only == l.mode = "pattern_only"
           d == IF only THEN z ELSE c
<1>1. m = [l EXCEPT !.at = "tables", !.next = 1, !.config = d]
  <2>1. CASE only
    BY <2>1
  <2>2. CASE ~only
    BY <2>2 DEF LoaderInv, LoaderShape
  <2> QED
    BY <2>1, <2>2
<1>2. LoaderShape(l) /\ ConfigShape(c)
  BY DEF LoaderInv
<1>3. /\ ConfigShape(z) /\ SameTables(c, z) /\ SameLimits(c, z)
      /\ \A k \in FeatureKeys : z.weights[k[1]][k[2]] =
           IF k \in FeatureKeys \ l.seen_features THEN 0 ELSE c.weights[k[1]][k[2]]
  <2> DEFINE keys == FeatureKeys \ l.seen_features
  <2> HIDE DEF keys
  <2>1. LET y == ZeroFeatures(c, keys)
        IN  /\ ConfigShape(y) /\ SameTables(c, y) /\ SameLimits(c, y)
            /\ \A k \in FeatureKeys :
                 y.weights[k[1]][k[2]] = IF k \in keys THEN 0 ELSE c.weights[k[1]][k[2]]
    BY <1>2, ZeroFeaturesIs
  <2> QED
    BY <2>1 DEF keys
<1> HIDE DEF z
<1>4. ConfigShape(d) /\ SameTables(c, d) /\ SameLimits(c, d)
  BY <1>2, <1>3 DEF SameTables, SameLimits
<1>5. \A k \in FeatureKeys : d.weights[k[1]][k[2]] =
        IF only /\ k \notin l.seen_features THEN 0 ELSE c.weights[k[1]][k[2]]
  BY <1>3
<1> HIDE DEF d, only
<1>6. /\ LoaderShape(m) /\ m.at = "tables" /\ m.file = l.file /\ m.config = d
      /\ m.written = l.written /\ m.unfinished = l.unfinished /\ m.torn = l.torn /\ m.next = 1 /\ m.cache = l.cache
  BY <1>1, <1>2 DEF LoaderShape
<1>7. /\ m.seen_keys = l.seen_keys /\ m.seen_features = l.seen_features
      /\ m.seen_configs = l.seen_configs /\ m.mode = l.mode /\ m.paths = l.paths
  BY <1>1, <1>2 DEF LoaderShape
<1>8. LinesType(lines) /\ LinesInv(l, lines) /\ l.file \in DOMAIN ConfigFiles
  BY FilesAreLines DEF LoaderInv
<1>9. Heard(l, lines, Len(lines))
  <2>1. l.next - 1 = Len(lines)
    BY <1>8 DEF LinesInv, LinesType
  <2> QED
    BY <1>8, <2>1 DEF LinesInv
<1>10. l.seen_features \subseteq FeatureKeys
  BY <1>9 DEF Heard, NotedFeatures, FeatureKey
<1>11. Heard(m, lines, Len(lines))
  <2>1. \A k \in l.seen_features : m.config.weights[k[1]][k[2]] = c.weights[k[1]][k[2]]
    BY <1>5, <1>6, <1>10
  <2>2. SameLimits(c, m.config)
    BY <1>4, <1>6
  <2> QED
    BY <1>7, <1>9, <2>1, <2>2, HeardOnly
<1>12. ClearedWeights(m)
  BY <1>5, <1>6, <1>7, <1>8 DEF LinesInv, UnheardWeights, ClearedWeights, only
<1>13. Complete(m)
  BY <1>7 DEF Complete
<1>14. NoTables(m.config) /\ m.cache = Nothing
  BY <1>4, <1>6, <1>8 DEF LinesInv, NoTables, TableOf, SameTables
<1>15. TablesInv(m, lines)
  BY <1>6, <1>11, <1>12, <1>13, <1>14, NothingCached, NothingSet DEF TablesInv
<1>16. WrittenType(m)
  BY <1>6 DEF LoaderInv, WrittenType
<1> QED
  BY <1>4, <1>6, <1>8, <1>15, <1>16 DEF LoaderInv

LEMMA SkipKeeps ==
  ASSUME NEW l, LoaderInv(l), l.at = "tables", l.next <= 4, Targets[l.next] \notin DOMAIN l.paths,
         NEW m, m = [l EXCEPT !.next = @ + 1]
  PROVE  LoaderInv(m)
<1> DEFINE lines == ConfigFiles[l.file]
           N == l.next + 1
<1>1. TablesInv(l, lines) /\ l.file \in DOMAIN ConfigFiles /\ LoaderShape(l)
  BY DEF LoaderInv
<1>2. N \in Nat \ {0} /\ l.next \in Nat \ {0}
  BY <1>1 DEF TablesInv
<1>3. m = [l EXCEPT !.next = N]
  OBVIOUS
<1> HIDE DEF N
<1>4. /\ LoaderShape(m) /\ m.at = "tables" /\ m.file = l.file /\ m.config = l.config
      /\ m.written = l.written /\ m.unfinished = l.unfinished /\ m.torn = l.torn
      /\ m.next = N /\ m.cache = l.cache
  BY <1>1, <1>3 DEF LoaderShape
<1>5. /\ m.seen_keys = l.seen_keys /\ m.seen_features = l.seen_features
      /\ m.seen_configs = l.seen_configs /\ m.mode = l.mode /\ m.paths = l.paths
  BY <1>1, <1>3 DEF LoaderShape
<1>6. Heard(m, lines, Len(lines))
  BY <1>1, <1>4, <1>5, HeardOnly DEF TablesInv, SameLimits
<1>7. Complete(m) /\ ClearedWeights(m) /\ CacheTrue(m)
  BY <1>1, <1>4, <1>5 DEF TablesInv, Complete, ClearedWeights, CacheTrue, VersionRead
<1>8. TablesSet(m)
  <2>1. \A j \in 1 .. 4 : j < N /\ Targets[j] \in DOMAIN l.paths => j < l.next
    BY <1>2 DEF N
  <2>2. \A j \in 1 .. 4 : j < l.next => j < N
    BY <1>2 DEF N
  <2> QED
    BY <1>1, <1>4, <1>5, <2>1, <2>2 DEF TablesInv, TablesSet, TargetDone
<1>9. TablesInv(m, lines)
  BY <1>2, <1>4, <1>6, <1>7, <1>8 DEF TablesInv
<1>10. WrittenType(m)
  BY <1>4 DEF LoaderInv, WrittenType
<1> QED
  BY <1>1, <1>4, <1>9, <1>10 DEF LoaderInv

LEMMA OneOfFour ==
  ASSUME NEW k \in Nat \ {0}, k <= 4
  PROVE  /\ k \in 1 .. 4 /\ k + 1 \in Nat \ {0}
         /\ \A j \in 1 .. 4 : j = k => j < k + 1
         /\ \A j \in 1 .. 4 : j # k => (j < k + 1 <=> j < k)
OBVIOUS

\* The next target takes a table that is kept, or is kept from now on.
LEMMA TableTakes ==
  ASSUME NEW l, LoaderInv(l), l.at \in {"tables", "table"}, l.next <= 4,
         Targets[l.next] \in DOMAIN l.paths, NEW bundle, NEW m,
         LoaderShape(m), m.at = "tables", m.file = l.file, m.next = l.next + 1,
         m.config = WithTable(l.config, Targets[l.next], bundle), SameRead(l, m), SameFiles(l, m),
         NextKey(l) \in DOMAIN m.cache, m.cache[NextKey(l)] = bundle,
         \A key \in DOMAIN l.cache : key \in DOMAIN m.cache /\ m.cache[key] = l.cache[key],
         CacheTrue(m)
  PROVE  LoaderInv(m)
<1> DEFINE lines == ConfigFiles[l.file]
           N == l.next + 1
           c == l.config
           target == Targets[l.next]
           d == WithTable(c, target, bundle)
<1>1. TablesInv(l, lines) /\ l.file \in DOMAIN ConfigFiles /\ ConfigShape(c)
  BY DEF LoaderInv
<1>20. l.next \in Nat \ {0}
  BY <1>1 DEF TablesInv
<1>2. /\ N \in Nat \ {0} /\ l.next \in 1 .. 4
      /\ \A j \in 1 .. 4 : j = l.next => j < N
      /\ \A j \in 1 .. 4 : j # l.next => (j < N <=> j < l.next)
  <2> DEFINE k == l.next
  <2>1. k \in Nat \ {0} /\ k <= 4 /\ N = k + 1
    BY <1>20
  <2> HIDE DEF k, N
  <2> QED
    BY <2>1, OneOfFour DEF k
<1>4. target \in TargetSet
  BY <1>2, TargetsAre
<1>5. m.config = d /\ m.next = N
  OBVIOUS
<1>6. /\ m.seen_keys = l.seen_keys /\ m.seen_features = l.seen_features
      /\ m.seen_configs = l.seen_configs /\ m.mode = l.mode /\ m.paths = l.paths
  BY DEF SameRead
<1>70. ConfigShape(d) /\ SameWeights(c, d) /\ SameLimits(c, d) /\ OneTable(c, d, target, bundle)
  <2>1. d = WithTable(c, target, bundle)
    OBVIOUS
  <2> HIDE DEF c, d, target
  <2> QED
    BY <1>1, <1>4, <2>1, WithTableIs
<1> HIDE DEF N, d, target
<1>7. /\ ConfigShape(d) /\ SameWeights(c, d) /\ SameLimits(c, d)
      /\ TableOf(d, target) = {bundle}
      /\ \A t \in TargetSet : t # target => TableOf(d, t) = TableOf(c, t)
  BY <1>4, <1>70 DEF OneTable
<1>10. Heard(m, lines, Len(lines))
  BY <1>1, <1>5, <1>6, <1>7, HeardOnly DEF TablesInv, SameWeights
<1>11. Complete(m) /\ ClearedWeights(m)
  BY <1>1, <1>5, <1>6, <1>7 DEF TablesInv, Complete, ClearedWeights, SameWeights
<1>13. TablesSet(m)
  <2> SUFFICES ASSUME NEW j \in 1 .. 4
               PROVE  IF j < m.next /\ Targets[j] \in DOMAIN m.paths THEN TargetDone(m, Targets[j])
                      ELSE TableOf(m.config, Targets[j]) = {}
    BY DEF TablesSet
  <2>1. CASE j = l.next
    <3>1. j < N
      BY <2>1, <1>2
    <3>2. Targets[j] = target
      BY <2>1 DEF target
    <3>3. TargetDone(m, target)
      BY <1>5, <1>6, <1>7 DEF TargetDone, target, NextKey
    <3> QED
      BY <3>1, <3>2, <3>3, <1>5, <1>6 DEF target
  <2>2. CASE j # l.next
    <3>1. j < N <=> j < l.next
      BY <2>2, <1>2
    <3>2. Targets[j] # target /\ Targets[j] \in TargetSet
      BY <2>2, <1>2, TargetsAre DEF target
    <3>3. TableOf(d, Targets[j]) = TableOf(c, Targets[j])
      BY <1>7, <3>2
    <3>4. IF j < l.next /\ Targets[j] \in DOMAIN l.paths THEN TargetDone(l, Targets[j])
          ELSE TableOf(c, Targets[j]) = {}
      BY <1>1 DEF TablesInv, TablesSet
    <3>5. TargetDone(l, Targets[j]) => TargetDone(m, Targets[j])
      BY <3>3, <1>5, <1>6 DEF TargetDone
    <3> QED
      BY <3>1, <3>3, <3>4, <3>5, <1>5, <1>6
  <2> QED
    BY <2>1, <2>2
<1>14. TablesInv(m, lines)
  BY <1>2, <1>5, <1>10, <1>11, <1>13 DEF TablesInv
<1>15. WrittenType(m)
  BY DEF LoaderInv, WrittenType, SameFiles
<1> QED
  BY <1>1, <1>5, <1>7, <1>14, <1>15 DEF LoaderInv

LEMMA KeptKeeps ==
  ASSUME NEW l, LoaderInv(l), l.at = "tables", l.next <= 4, Targets[l.next] \in DOMAIN l.paths,
         NextKey(l) \in DOMAIN l.cache, NEW m,
         m = [l EXCEPT !.next = @ + 1, !.config = WithTable(@, Targets[l.next], l.cache[NextKey(l)])]
  PROVE  LoaderInv(m)
<1> DEFINE N == l.next + 1
           d == WithTable(l.config, Targets[l.next], l.cache[NextKey(l)])
<1>1. LoaderShape(l)
  BY DEF LoaderInv
<1>2. m = [l EXCEPT !.next = N, !.config = d]
  OBVIOUS
<1> HIDE DEF N, d
<1>3. /\ LoaderShape(m) /\ m.at = "tables" /\ m.file = l.file /\ m.next = N
      /\ m.config = d /\ m.cache = l.cache
  BY <1>1, <1>2 DEF LoaderShape
<1>4. SameRead(l, m) /\ SameFiles(l, m)
  BY <1>1, <1>2 DEF LoaderShape, SameRead, SameFiles
<1>5. CacheTrue(m)
  BY <1>3, <1>4 DEF LoaderInv, TablesInv, CacheTrue, VersionRead, SameFiles
<1> QED
  BY <1>3, <1>4, <1>5, TableTakes DEF N, d

LEMMA OpenKeeps ==
  ASSUME NEW l, LoaderInv(l), l.at = "tables", l.next <= 4, Targets[l.next] \in DOMAIN l.paths,
         NextKey(l) \notin DOMAIN l.cache, NextKey(l) \in DOMAIN FileAt, NEW m,
         m = [l EXCEPT !.at = "table", !.got = <<>>,
                !.torn = IF FileAt[NextKey(l)] \in l.unfinished THEN @ \cup {NextKey(l)} ELSE @]
  PROVE  LoaderInv(m)
<1> DEFINE lines == ConfigFiles[l.file]
           torn == IF FileAt[NextKey(l)] \in l.unfinished THEN l.torn \cup {NextKey(l)} ELSE l.torn
<1>1. LoaderShape(l) /\ TablesInv(l, lines) /\ l.file \in DOMAIN ConfigFiles
  BY DEF LoaderInv
<1>2. m = [l EXCEPT !.at = "table", !.got = <<>>, !.torn = torn]
  OBVIOUS
<1>3. l.torn \subseteq torn
      /\ \A key \in torn : key \in l.torn \/ (key = NextKey(l) /\ FileAt[key] \in l.unfinished)
  OBVIOUS
<1> HIDE DEF torn
<1>4. /\ LoaderShape(m) /\ m.at = "table" /\ m.file = l.file /\ m.next = l.next
      /\ m.config = l.config /\ m.cache = l.cache /\ m.got = <<>>
  BY <1>1, <1>2 DEF LoaderShape
<1>5. SameRead(l, m) /\ m.written = l.written /\ m.unfinished = l.unfinished /\ m.torn = torn
  BY <1>1, <1>2 DEF LoaderShape, SameRead
<1>6. WrittenType(m)
  BY <1>3, <1>5 DEF LoaderInv, WrittenType
<1>7. Heard(m, lines, Len(lines))
  <2>1. Heard(l, lines, Len(lines))
    BY <1>1 DEF TablesInv
  <2>2. SameRead(l, m) /\ m.config = l.config
    BY <1>4, <1>5
  <2> DEFINE StillHeard(x, y, z, n) == Heard(x, z, n) /\ SameRead(x, y) /\ y.config = x.config
  <2>3. StillHeard(l, m, lines, Len(lines))
    BY <2>1, <2>2
  <2>4. \A x, y, z, n : StillHeard(x, y, z, n) => Heard(y, z, n)
    BY HeardOnly DEF SameRead, SameLimits
  <2> HIDE DEF lines, StillHeard
  <2> QED
    BY <2>3, <2>4, Zenon
<1>8. Complete(m) /\ ClearedWeights(m) /\ TablesSet(m)
  BY <1>1, <1>4, <1>5 DEF TablesInv, Complete, ClearedWeights, TablesSet, TargetDone, SameRead
<1>9. CacheTrue(m)
  BY <1>1, <1>3, <1>4, <1>5 DEF TablesInv, CacheTrue, VersionRead
<1>10. TablesInv(m, lines)
  BY <1>1, <1>4, <1>7, <1>8, <1>9 DEF TablesInv
<1>11. ReadingInv(m)
  <2>1. NextKey(m) = NextKey(l)
    BY <1>4, <1>5 DEF NextKey, SameRead
  <2>2. m.got \in Seq(TableLines) /\ 1 .. Len(m.got) = {}
    BY <1>4
  <2> QED
    BY <1>4, <1>5, <2>1, <2>2 DEF ReadingInv, SameRead
<1> QED
  BY <1>1, <1>4, <1>6, <1>10, <1>11 DEF LoaderInv

LEMMA LineKeeps ==
  ASSUME NEW l, LoaderInv(l), l.at = "table", NEW got, got \in Seq(TableLines),
         NextKey(l) \notin l.torn =>
           \A i \in 1 .. Len(got) :
             i <= Len(DiskLines(l, NextKey(l))) /\ got[i] = DiskLines(l, NextKey(l))[i],
         NEW m, m = [l EXCEPT !.got = got]
  PROVE  LoaderInv(m)
<1> DEFINE lines == ConfigFiles[l.file]
<1>1. LoaderShape(l) /\ TablesInv(l, lines) /\ l.file \in DOMAIN ConfigFiles /\ ReadingInv(l)
  BY DEF LoaderInv
<1>2. /\ LoaderShape(m) /\ m.at = "table" /\ m.file = l.file /\ m.next = l.next
      /\ m.config = l.config /\ m.cache = l.cache /\ m.got = got
  BY <1>1 DEF LoaderShape
<1>3. SameRead(l, m) /\ SameFiles(l, m)
  BY <1>1 DEF LoaderShape, SameRead, SameFiles
<1>4. WrittenType(m)
  BY <1>3 DEF LoaderInv, WrittenType, SameFiles
<1>5. Heard(m, lines, Len(lines))
  BY <1>1, <1>2, <1>3, HeardOnly DEF TablesInv, SameLimits, SameRead
<1>6. Complete(m) /\ ClearedWeights(m) /\ TablesSet(m)
  BY <1>1, <1>2, <1>3 DEF TablesInv, Complete, ClearedWeights, TablesSet, TargetDone, SameRead
<1>7. CacheTrue(m)
  BY <1>1, <1>2, <1>3 DEF TablesInv, CacheTrue, VersionRead, SameFiles
<1>8. TablesInv(m, lines)
  BY <1>1, <1>2, <1>5, <1>6, <1>7 DEF TablesInv
<1>9. NextKey(m) = NextKey(l) /\ \A key : DiskLines(m, key) = DiskLines(l, key)
  BY <1>2, <1>3 DEF NextKey, DiskLines, SameRead, SameFiles
<1>10. ReadingInv(m)
  <2>1. DiskLines(m, NextKey(m)) = DiskLines(l, NextKey(l))
    BY <1>9
  <2>2. m.torn = l.torn /\ m.paths = l.paths
    BY <1>3 DEF SameRead, SameFiles
  <2>3. /\ m.next <= 4 /\ Targets[m.next] \in DOMAIN m.paths
        /\ NextKey(m) \notin DOMAIN m.cache /\ NextKey(m) \in DOMAIN FileAt
    BY <1>1, <1>2, <1>9, <2>2 DEF ReadingInv
  <2> QED
    BY <1>2, <1>9, <2>1, <2>2, <2>3, Zenon DEF ReadingInv
<1> QED
  BY <1>1, <1>2, <1>4, <1>8, <1>10 DEF LoaderInv

\* At the end of the file what was read is kept, and taken.
LEMMA ReadKept ==
  ASSUME NEW l, LoaderInv(l), l.at = "table",
         NextKey(l) \in l.torn \/ l.got = DiskLines(l, NextKey(l)),
         NEW bundle \in TableRead(l.got), NEW m,
         m = [l EXCEPT !.at = "tables", !.next = @ + 1, !.got = <<>>,
                !.config = WithTable(@, Targets[l.next], bundle),
                !.cache = Extended(@, NextKey(l), bundle)]
  PROVE  LoaderInv(m)
<1> DEFINE N == l.next + 1
           key == NextKey(l)
           d == WithTable(l.config, Targets[l.next], bundle)
           cache == Extended(l.cache, key, bundle)
<1>1. LoaderShape(l) /\ ReadingInv(l) /\ TablesInv(l, ConfigFiles[l.file]) /\ WrittenType(l)
  BY DEF LoaderInv
<1>2. m = [l EXCEPT !.at = "tables", !.next = N, !.got = <<>>, !.config = d, !.cache = cache]
  OBVIOUS
<1>3. /\ DOMAIN cache = DOMAIN l.cache \cup {key} /\ cache[key] = bundle
      /\ \A k \in DOMAIN l.cache : k # key => cache[k] = l.cache[k]
  BY DEF Extended
<1>4. key \notin DOMAIN l.cache /\ key \in DOMAIN FileAt
  BY <1>1 DEF ReadingInv
<1> HIDE DEF N, d, cache, key
<1>5. /\ LoaderShape(m) /\ m.at = "tables" /\ m.file = l.file /\ m.next = N
      /\ m.config = d /\ m.cache = cache
  BY <1>1, <1>2 DEF LoaderShape
<1>6. SameRead(l, m) /\ SameFiles(l, m)
  BY <1>1, <1>2 DEF LoaderShape, SameRead, SameFiles
<1>7. TableRead(l.got) = {bundle}
  BY TableReadIs
<1>8. IsTable(bundle)
  BY <1>1, <1>7, ReadIsTable DEF ReadingInv
<1>9. key \in l.torn \/ VersionRead(l, key, bundle)
  <2>1. CASE l.got = DiskLines(l, key)
    BY <1>1, <1>4, <1>7, <2>1, OnDiskAre DEF VersionRead, DiskLines
  <2> QED
    BY <2>1 DEF key
<1>10. CacheTrue(m)
  <2>1. ASSUME NEW k \in DOMAIN cache
        PROVE  /\ k \in DOMAIN FileAt /\ IsTable(cache[k])
               /\ k \in l.torn \/ VersionRead(l, k, cache[k])
    <3>1. CASE k = key
      BY <3>1, <1>3, <1>4, <1>8, <1>9
    <3>2. CASE k # key
      <4>1. k \in DOMAIN l.cache /\ cache[k] = l.cache[k]
        BY <2>1, <3>2, <1>3
      <4> QED
        BY <4>1, <1>1 DEF TablesInv, CacheTrue
    <3> QED
      BY <3>1, <3>2
  <2>2. \A k, x : VersionRead(m, k, x) <=> VersionRead(l, k, x)
    BY <1>6 DEF VersionRead, SameFiles
  <2> QED
    BY <1>5, <1>6, <2>1, <2>2 DEF CacheTrue, SameFiles
<1>11. \A k \in DOMAIN l.cache : k \in DOMAIN m.cache /\ m.cache[k] = l.cache[k]
  BY <1>3, <1>4, <1>5
<1>12. NextKey(l) \in DOMAIN m.cache /\ m.cache[NextKey(l)] = bundle
  BY <1>3, <1>5 DEF key
<1>13. l.next <= 4 /\ Targets[l.next] \in DOMAIN l.paths
  BY <1>1 DEF ReadingInv
<1>14. m.next = l.next + 1 /\ m.config = WithTable(l.config, Targets[l.next], bundle)
  BY <1>5 DEF N, d
<1>15. l.at \in {"tables", "table"}
  OBVIOUS
<1>16. LoaderShape(m) /\ m.at = "tables" /\ m.file = l.file
  BY <1>5
<1> DEFINE SetsTable(x, y, z) ==
         /\ LoaderInv(x) /\ x.at \in {"tables", "table"} /\ x.next <= 4
         /\ Targets[x.next] \in DOMAIN x.paths /\ LoaderShape(z) /\ z.at = "tables"
         /\ z.file = x.file /\ z.next = x.next + 1
         /\ z.config = WithTable(x.config, Targets[x.next], y) /\ SameRead(x, z) /\ SameFiles(x, z)
         /\ NextKey(x) \in DOMAIN z.cache /\ z.cache[NextKey(x)] = y
         /\ \A k \in DOMAIN x.cache : k \in DOMAIN z.cache /\ z.cache[k] = x.cache[k]
         /\ CacheTrue(z)
<1>17. SetsTable(l, bundle, m)
  BY <1>6, <1>10, <1>11, <1>12, <1>13, <1>14, <1>15, <1>16, Zenon
<1>18. \A x, y, z : SetsTable(x, y, z) => LoaderInv(z)
  BY TableTakes
<1> HIDE DEF SetsTable
<1> QED
  BY <1>17, <1>18, Zenon

\* A table refused is of a file the config names.
LEMMA RefusedIsNamed ==
  ASSUME NEW l, LoaderInv(l), l.at \in {"tables", "table"}, Targets[l.next] \in DOMAIN l.paths,
         Unread(l, NextKey(l))
  PROVE  Unreadable(l, ConfigFiles[l.file])
<1> DEFINE lines == ConfigFiles[l.file]
           path == l.paths[Targets[l.next]]
<1>0. l.file \in DOMAIN ConfigFiles /\ TablesInv(l, lines)
  BY DEF LoaderInv
<1>1. HeardPaths(l, lines, Len(lines)) /\ DOMAIN lines = 1 .. Len(lines)
  BY <1>0, FilesAreLines DEF TablesInv, Heard, LinesType
<1>2. PICK i \in 1 .. Len(lines) : lines[i].key \in TableKeys /\ TargetOf(lines[i].key) = Targets[l.next]
  BY <1>1 DEF HeardPaths
<1>3. path = lines[i].text
  BY <1>1, <1>2 DEF HeardPaths
<1>4. path \in TextsOf(lines, {lines[i].key})
  BY <1>1, <1>3 DEF TextsOf
<1>5. Unread(l, CacheKey(path))
  BY DEF NextKey
<1> HIDE DEF path, lines
<1> QED
  BY <1>2, <1>4, <1>5 DEF Unreadable, lines

\* A reading is refused for the version on the disk, or a trainer wrote into it.
LEMMA RefusedIsUnread ==
  ASSUME NEW l, LoaderInv(l), l.at = "table",
         NextKey(l) \in l.torn \/ TableRead(DiskLines(l, NextKey(l))) = {}
  PROVE  Unreadable(l, ConfigFiles[l.file])
<1>1. ReadingInv(l) /\ WrittenType(l)
  BY DEF LoaderInv
<1>2. NextKey(l) \in DOMAIN FileAt /\ Targets[l.next] \in DOMAIN l.paths
  BY <1>1 DEF ReadingInv
<1>3. Unread(l, NextKey(l))
  <2>1. CASE NextKey(l) \in l.torn
    BY <1>1, <2>1 DEF Unread, WrittenType
  <2>2. CASE TableRead(DiskLines(l, NextKey(l))) = {}
    BY <1>1, <1>2, <2>2, OnDiskAre DEF Unread, DiskLines
  <2> QED
    BY <2>1, <2>2
<1> QED
  BY <1>2, <1>3, RefusedIsNamed

LEMMA SelectedKeeps ==
  ASSUME NEW l, LoaderInv(l), l.at = "tables", NEW m, m = [l EXCEPT !.at = "playing"]
  PROVE  LoaderInv(m)
<1>1. /\ LoaderShape(m) /\ m.at = "playing" /\ m.file = l.file /\ m.config = l.config
      /\ m.written = l.written /\ m.unfinished = l.unfinished /\ m.torn = l.torn
  BY SetAtIs DEF LoaderInv
<1>2. WrittenType(m)
  BY <1>1 DEF LoaderInv, WrittenType
<1>3. Weighable(m.config)
  BY <1>1, TablesWeighable DEF LoaderInv
<1> QED
  BY <1>1, <1>2, <1>3 DEF LoaderInv

\* A trainer writes: a reading it does not write into is of the version it was.
LEMMA WriteKeeps ==
  ASSUME NEW l, LoaderInv(l), l.at \in {"lines", "tables", "table"}, NEW m,
         NEW w, NEW open, NEW torn, m = [l EXCEPT !.written = w, !.unfinished = open, !.torn = torn],
         \A file \in DOMAIN TableFiles : l.written[file] \in Nat /\ w[file] \in Nat /\ l.written[file] <= w[file],
         l.torn \subseteq torn, WrittenType(m),
         l.at = "table" /\ NextKey(l) \notin torn => w[FileAt[NextKey(l)]] = l.written[FileAt[NextKey(l)]]
  PROVE  LoaderInv(m)
<1> DEFINE lines == ConfigFiles[l.file]
<1>1. LoaderShape(l) /\ l.file \in DOMAIN ConfigFiles
  BY DEF LoaderInv
<1>2. /\ LoaderShape(m) /\ m.at = l.at /\ m.file = l.file /\ m.config = l.config
      /\ m.written = w /\ m.torn = torn /\ m.next = l.next /\ m.cache = l.cache /\ m.got = l.got
  BY <1>1 DEF LoaderShape
<1>3. SameRead(l, m)
  BY <1>1 DEF LoaderShape, SameRead
<1>4. \A key \in DOMAIN FileAt : 1 .. l.written[FileAt[key]] \subseteq 1 .. w[FileAt[key]]
  <2>1. \A a, b \in Nat : a <= b => 1 .. a \subseteq 1 .. b
    OBVIOUS
  <2> QED
    BY <2>1, TableFilesAre
<1>5. \A n : Heard(l, lines, n) => Heard(m, lines, n)
  BY <1>2, <1>3, HeardOnly DEF SameLimits, SameRead
<1>6. CacheTrue(l) => CacheTrue(m)
  <2>1. \A key \in DOMAIN FileAt : \A x : VersionRead(l, key, x) => VersionRead(m, key, x)
    BY <1>2, <1>4 DEF VersionRead
  <2> QED
    BY <1>2, <2>1 DEF CacheTrue
<1>7. LinesInv(l, lines) => LinesInv(m, lines)
  BY <1>2, <1>3, <1>5 DEF LinesInv, UnheardWeights, SameRead
<1>8. TablesInv(l, lines) => TablesInv(m, lines)
  <2>1. /\ Complete(l) => Complete(m)
        /\ ClearedWeights(l) => ClearedWeights(m)
        /\ TablesSet(l) => TablesSet(m)
    BY <1>2, <1>3 DEF Complete, ClearedWeights, TablesSet, TargetDone, SameRead
  <2> QED
    BY <2>1, <1>2, <1>5, <1>6 DEF TablesInv
<1>9. l.at = "table" => ReadingInv(m)
  <2> SUFFICES ASSUME l.at = "table"
               PROVE  ReadingInv(m)
    OBVIOUS
  <2>1. ReadingInv(l) /\ NextKey(m) = NextKey(l)
    BY <1>2, <1>3 DEF LoaderInv, NextKey, SameRead
  <2>2. NextKey(l) \notin torn => DiskLines(m, NextKey(l)) = DiskLines(l, NextKey(l))
    BY <1>2 DEF DiskLines
  <2> QED
    BY <1>2, <1>3, <2>1, <2>2 DEF ReadingInv, SameRead
<1> QED
  BY <1>1, <1>2, <1>7, <1>8, <1>9 DEF LoaderInv

LEMMA BeginKeeps ==
  ASSUME NEW l, LoaderInv(l), l.at \in {"lines", "tables", "table"}, NEW file \in DOMAIN TableFiles,
         l.written[file] < Len(TableFiles[file]), NEW m,
         m = [l EXCEPT !.written[file] = @ + 1, !.unfinished = @ \cup {file},
                !.torn = IF l.at = "table" /\ file = FileAt[NextKey(l)] THEN @ \cup {NextKey(l)} ELSE @]
  PROVE  LoaderInv(m)
<1> DEFINE v == l.written[file] + 1
           w == [l.written EXCEPT ![file] = v]
           open == l.unfinished \cup {file}
           torn == IF l.at = "table" /\ file = FileAt[NextKey(l)] THEN l.torn \cup {NextKey(l)} ELSE l.torn
<1>1. LoaderShape(l) /\ WrittenType(l)
  BY DEF LoaderInv
<1>2. m = [l EXCEPT !.written = w, !.unfinished = open, !.torn = torn]
  BY <1>1 DEF LoaderShape
<1>3. /\ l.torn \subseteq torn
      /\ \A key \in torn : key \in l.torn \/ (l.at = "table" /\ key = NextKey(l) /\ FileAt[key] = file)
      /\ l.at = "table" /\ NextKey(l) \notin torn => FileAt[NextKey(l)] # file
  OBVIOUS
<1>4. \A f \in DOMAIN TableFiles : l.written[f] \in Nat \ {0}
  BY <1>1, TableFilesAre DEF WrittenType
<1>5. v \in 1 .. Len(TableFiles[file]) /\ v > 1 /\ v >= l.written[file] /\ v \in Nat
  BY <1>4, TableFilesAre
<1> HIDE DEF v
<1>6. /\ w = [f \in DOMAIN TableFiles |-> w[f]]
      /\ w[file] = v /\ \A f \in DOMAIN TableFiles : f # file => w[f] = l.written[f]
  BY <1>1 DEF WrittenType
<1> HIDE DEF w, torn
<1>7. m.written = w /\ m.unfinished = open /\ m.torn = torn
  BY <1>1, <1>2 DEF LoaderShape
<1>8. \A f \in DOMAIN TableFiles : l.written[f] \in Nat /\ w[f] \in Nat /\ l.written[f] <= w[f]
  BY <1>4, <1>5, <1>6
<1>9. WrittenType(m)
  <2>1. \A f \in DOMAIN TableFiles : w[f] \in 1 .. Len(TableFiles[f])
    BY <1>1, <1>5, <1>6 DEF WrittenType
  <2>2. \A f \in open : f \in DOMAIN TableFiles /\ w[f] > 1
    BY <1>1, <1>5, <1>6 DEF WrittenType
  <2>3. \A key \in torn : key \in DOMAIN FileAt /\ w[FileAt[key]] > 1
    <3> SUFFICES ASSUME NEW key \in torn
                 PROVE  key \in DOMAIN FileAt /\ w[FileAt[key]] > 1
      OBVIOUS
    <3>1. CASE key \in l.torn
      <4>1. key \in DOMAIN FileAt /\ l.written[FileAt[key]] > 1 /\ FileAt[key] \in DOMAIN TableFiles
        BY <3>1, <1>1, TableFilesAre DEF WrittenType
      <4> QED
        BY <4>1, <1>5, <1>6
    <3>2. CASE l.at = "table" /\ key = NextKey(l) /\ FileAt[key] = file
      BY <3>2, <1>5, <1>6 DEF LoaderInv, ReadingInv
    <3> QED
      BY <3>1, <3>2, <1>3
  <2>4. m.written = [f \in DOMAIN TableFiles |-> m.written[f]]
    BY <1>6, <1>7
  <2> QED
    BY <1>7, <2>1, <2>2, <2>3, <2>4, Zenon DEF WrittenType
<1>10. l.at = "table" /\ NextKey(l) \notin torn => w[FileAt[NextKey(l)]] = l.written[FileAt[NextKey(l)]]
  BY <1>3, <1>6, TableFilesAre DEF LoaderInv, ReadingInv
<1> HIDE DEF open
<1> QED
  BY <1>2, <1>3, <1>8, <1>9, <1>10, WriteKeeps

LEMMA EndWriteKeeps ==
  ASSUME NEW l, LoaderInv(l), l.at \in {"lines", "tables", "table"}, NEW file, NEW m,
         m = [l EXCEPT !.unfinished = @ \ {file}]
  PROVE  LoaderInv(m)
<1> DEFINE open == l.unfinished \ {file}
<1>1. LoaderShape(l) /\ WrittenType(l)
  BY DEF LoaderInv
<1>2. m = [l EXCEPT !.written = l.written, !.unfinished = open, !.torn = l.torn]
  BY <1>1 DEF LoaderShape
<1>3. m.written = l.written /\ m.unfinished = open /\ m.torn = l.torn
  BY <1>1, <1>2 DEF LoaderShape
<1>4. WrittenType(m)
  BY <1>1, <1>3 DEF WrittenType
<1>5. \A f \in DOMAIN TableFiles : l.written[f] \in Nat /\ l.written[f] <= l.written[f]
  BY <1>1, TableFilesAre DEF WrittenType
<1> HIDE DEF open
<1> QED
  BY <1>2, <1>4, <1>5, WriteKeeps

ConfigInv == LoaderInv(loader)

LEMMA ParseStep == ConfigInv /\ ParseOption => ConfigInv'
<1> SUFFICES ASSUME ConfigInv, ParseOption
             PROVE  ConfigInv'
  OBVIOUS
<1> DEFINE path == loader.request.args[loader.arg]
           bad == path = {} \/ (loader.request.strict /\ (path = {NoName} \/ loader.chosen # {}))
           N == loader.arg + 1
<1>1. loader.at = "args"
  BY DEF ParseOption
<1>2. IF bad THEN Refuse ELSE loader' = [loader EXCEPT !.chosen = path, !.arg = N]
  BY DEF ParseOption
<1> HIDE DEF bad, N, path
<1>3. CASE bad
  <2>1. loader.file = NoName
    BY <1>1 DEF ConfigInv, LoaderInv, Fresh
  <2>2. loader' = [loader EXCEPT !.at = "refused"]
    BY <1>2, <1>3 DEF Refuse
  <2> QED
    BY <2>1, <2>2, RefuseKeeps DEF ConfigInv
<1>4. CASE ~bad
  <2>1. loader' = [loader EXCEPT !.chosen = path, !.arg = N]
    BY <1>2, <1>4
  <2> QED
    BY <1>1, <2>1, ParseKeeps DEF ConfigInv
<1> QED
  BY <1>3, <1>4

LEMMA SelectStep == ConfigInv /\ Select => ConfigInv'
<1> SUFFICES ASSUME ConfigInv, Select
             PROVE  ConfigInv'
  OBVIOUS
<1> DEFINE file == IF loader.chosen # {} THEN loader.chosen ELSE loader.request.default
           good == file \subseteq DOMAIN ConfigFiles /\ file # {}
           one == CHOOSE f \in file : TRUE
<1>1. loader.at = "args"
  BY DEF Select
<1>2. IF good THEN loader' = [loader EXCEPT !.at = "lines", !.file = one] ELSE Refuse
  BY DEF Select
<1>3. good => one \in DOMAIN ConfigFiles
  <2> HIDE DEF file
  <2> QED
    BY Zenon
<1> HIDE DEF good, one
<1>4. CASE good
  <2>1. loader' = [loader EXCEPT !.at = "lines", !.file = one]
    BY <1>2, <1>4
  <2> QED
    BY <1>1, <1>3, <1>4, <2>1, SelectKeeps DEF ConfigInv
<1>5. CASE ~good
  <2>1. loader.file = NoName
    BY <1>1 DEF ConfigInv, LoaderInv, Fresh
  <2>2. loader' = [loader EXCEPT !.at = "refused"]
    BY <1>2, <1>5 DEF Refuse
  <2> QED
    BY <2>1, <2>2, RefuseKeeps DEF ConfigInv
<1> QED
  BY <1>4, <1>5

LEMMA ReadStep == ConfigInv /\ ReadLine => ConfigInv'
<1> SUFFICES ASSUME ConfigInv, ReadLine
             PROVE  ConfigInv'
  OBVIOUS
<1> DEFINE N == loader.next
           key == Lines[N].key
           text == Lines[N].text
           read == LineRead(loader, key, text)
<1>1. loader.at = "lines" /\ N <= Len(Lines)
  BY DEF ReadLine
<1>2. IF read = {} THEN Refuse ELSE \E r \in read : loader' = Accept(r, key)
  BY DEF ReadLine
<1>3. Lines = ConfigFiles[loader.file]
  BY DEF Lines
<1>4. CASE read = {}
  <2>1. loader' = [loader EXCEPT !.at = "refused"]
    BY <1>2, <1>4 DEF Refuse
  <2>2. LinesType(Lines) /\ LinesInv(loader, Lines)
    BY <1>1, <1>3, FilesAreLines DEF ConfigInv, LoaderInv
  <2> DEFINE n == N - 1
             K == n + 1
  <2>3. n \in Nat /\ K = N /\ K \in 1 .. Len(Lines)
    BY <1>1, <2>2 DEF LinesInv, LinesType
  <2>4. Heard(loader, Lines, n)
    BY <2>2 DEF LinesInv
  <2>5. LineRead(loader, Lines[K].key, Lines[K].text) = {}
    BY <1>4, <2>3
  <2> HIDE DEF n, N, read
  <2>6. ~WellFormed(Lines)
    BY <2>2, <2>3, <2>4, <2>5, RefusedIsMalformed DEF K
  <2> QED
    BY <1>3, <2>1, <2>6, RefuseKeeps DEF ConfigInv
<1>5. CASE read # {}
  <2>1. PICK r \in read : loader' = Accept(r, key)
    BY <1>2, <1>5
  <2> QED
    BY <1>1, <1>3, <2>1, ReadKeeps DEF ConfigInv
<1> QED
  BY <1>4, <1>5

LEMMA EndStep == ConfigInv /\ EndOfFile => ConfigInv'
<1> SUFFICES ASSUME ConfigInv, EndOfFile
             PROVE  ConfigInv'
  OBVIOUS
<1> DEFINE only == loader.mode = "pattern_only"
           all == RequiredFeatures \subseteq loader.seen_features /\ Thresholds = loader.seen_configs
<1>1. loader.at = "lines" /\ loader.next > Len(Lines)
  BY DEF EndOfFile
<1>2. \/ /\ only
         /\ loader' = [loader EXCEPT !.at = "tables", !.next = 1,
                         !.config = ZeroFeatures(@, FeatureKeys \ loader.seen_features)]
      \/ ~only /\ all /\ loader' = [loader EXCEPT !.at = "tables", !.next = 1]
      \/ ~only /\ ~all /\ Refuse
  BY DEF EndOfFile
<1>3. Lines = ConfigFiles[loader.file]
  BY DEF Lines
<1>4. CASE ~only /\ ~all /\ Refuse
  <2>1. LinesType(Lines) /\ LinesInv(loader, Lines)
    BY <1>1, <1>3, FilesAreLines DEF ConfigInv, LoaderInv
  <2>2. Heard(loader, Lines, Len(Lines))
    <3>1. loader.next - 1 = Len(Lines)
      BY <1>1, <2>1 DEF LinesInv, LinesType
    <3> QED
      BY <2>1, <3>1 DEF LinesInv
  <2>3. ~Complete(loader)
    BY <1>4 DEF Complete
  <2>4. ~WellFormed(Lines)
    BY <2>1, <2>2, <2>3, HeardSaysAll DEF WellFormed
  <2>5. loader' = [loader EXCEPT !.at = "refused"]
    BY <1>4 DEF Refuse
  <2> QED
    BY <1>3, <2>4, <2>5, RefuseKeeps DEF ConfigInv
<1>5. CASE only /\ loader' = [loader EXCEPT !.at = "tables", !.next = 1,
                                !.config = ZeroFeatures(@, FeatureKeys \ loader.seen_features)]
  BY <1>1, <1>3, <1>5, EndKeeps DEF ConfigInv
<1>6. CASE ~only /\ all /\ loader' = [loader EXCEPT !.at = "tables", !.next = 1]
  BY <1>1, <1>3, <1>6, EndKeeps DEF ConfigInv
<1> QED
  BY <1>2, <1>4, <1>5, <1>6

LEMMA SkipStep == ConfigInv /\ SkipTarget => ConfigInv'
BY SkipKeeps, TargetsAre DEF ConfigInv, SkipTarget, AtTarget, NextTarget

LEMMA KeptStep == ConfigInv /\ TakeKept => ConfigInv'
<1> SUFFICES ASSUME ConfigInv, TakeKept
             PROVE  ConfigInv'
  OBVIOUS
<1>1. /\ loader.at = "tables" /\ loader.next <= 4 /\ Targets[loader.next] \in DOMAIN loader.paths
      /\ NextKey(loader) \in DOMAIN loader.cache
  BY TargetsAre DEF TakeKept, AtTarget, NextTarget, NormalPath, NextKey
<1>2. loader' = [loader EXCEPT !.next = @ + 1,
                   !.config = WithTable(@, Targets[loader.next], loader.cache[NextKey(loader)])]
  BY DEF TakeKept, NextTarget, NormalPath, NextKey
<1> QED
  BY <1>1, <1>2, KeptKeeps DEF ConfigInv

LEMMA OpenStep == ConfigInv /\ OpenTable => ConfigInv'
<1> SUFFICES ASSUME ConfigInv, OpenTable
             PROVE  ConfigInv'
  OBVIOUS
<1> DEFINE key == NextKey(loader)
<1>0. NormalPath = key /\ TableFile = FileAt[key]
  BY DEF NormalPath, NextTarget, NextKey, TableFile
<1>1. /\ loader.at = "tables" /\ loader.next <= 4 /\ Targets[loader.next] \in DOMAIN loader.paths
      /\ key \notin DOMAIN loader.cache
  BY <1>0, TargetsAre DEF OpenTable, AtTarget, NextTarget
<1>2. CASE key \notin DOMAIN FileAt
  <2>1. loader' = [loader EXCEPT !.at = "refused"]
    BY <1>0, <1>2 DEF OpenTable, Refuse
  <2>2. Unreadable(loader, ConfigFiles[loader.file])
    BY <1>1, <1>2, RefusedIsNamed DEF ConfigInv, Unread
  <2> QED
    BY <2>1, <2>2, RefuseKeeps DEF ConfigInv
<1>3. CASE key \in DOMAIN FileAt
  <2>1. loader' = [loader EXCEPT !.at = "table", !.got = <<>>,
                     !.torn = IF FileAt[key] \in loader.unfinished THEN @ \cup {key} ELSE @]
    BY <1>0, <1>3 DEF OpenTable
  <2> QED
    BY <1>1, <1>3, <2>1, OpenKeeps DEF ConfigInv
<1> QED
  BY <1>2, <1>3

LEMMA LineStep == ConfigInv /\ ReadTableLine => ConfigInv'
<1> SUFFICES ASSUME ConfigInv, ReadTableLine
             PROVE  ConfigInv'
  OBVIOUS
<1> DEFINE key == NextKey(loader)
           disk == DiskLines(loader, key)
<1>0. /\ loader.at = "table" /\ NormalPath = key /\ TableFile = FileAt[key] /\ OnDisk = disk
      /\ WrittenType(loader) /\ ReadingInv(loader)
  BY DEF ReadTableLine, NormalPath, NextTarget, NextKey, TableFile, OnDisk, DiskLines, ConfigInv, LoaderInv
<1>1. PICK line \in LinesToRead :
        LET got == Append(loader.got, line)
        IN  IF TableRead(got) = {} THEN Refuse ELSE loader' = [loader EXCEPT !.got = got]
  BY DEF ReadTableLine
<1> DEFINE got == Append(loader.got, line)
<1>2. key \in DOMAIN FileAt /\ loader.got \in Seq(TableLines)
  BY <1>0 DEF ReadingInv
<1>3. disk \in Seq(TableLines)
  BY <1>0, <1>2, OnDiskAre
<1>4. CASE key \in loader.torn
  <2>1. line \in TableLines
    <3>1. CASE line \in TornLines
      BY <3>1, TableFilesAre
    <3>2. CASE \E n \in 1 .. loader.written[FileAt[key]] : line \in Range(TableFiles[FileAt[key]][n])
      <4>1. PICK n \in 1 .. loader.written[FileAt[key]] : line \in Range(TableFiles[FileAt[key]][n])
        BY <3>2
      <4>2. FileAt[key] \in DOMAIN TableFiles
        BY <1>2, TableFilesAre
      <4>3. n \in 1 .. Len(TableFiles[FileAt[key]])
        BY <1>0, <4>2, TableFilesAre DEF WrittenType
      <4>4. TableFiles[FileAt[key]][n] \in Seq(TableLines)
        BY <4>2, <4>3, TableFilesAre
      <4>5. ASSUME NEW version \in Seq(TableLines), line \in Range(version)
            PROVE  line \in TableLines
        BY <4>5 DEF Range
      <4> QED
        BY <4>1, <4>4, <4>5
    <3> QED
      BY <1>0, <1>4, <3>1, <3>2 DEF LinesToRead
  <2>2. got \in Seq(TableLines)
    BY <1>2, <2>1
  <2>3. CASE TableRead(got) = {}
    <3>1. loader' = [loader EXCEPT !.at = "refused"]
      BY <1>1, <2>3 DEF Refuse
    <3>2. Unreadable(loader, ConfigFiles[loader.file])
      BY <1>0, <1>4, RefusedIsUnread DEF ConfigInv
    <3> QED
      BY <3>1, <3>2, RefuseKeeps DEF ConfigInv
  <2>4. CASE TableRead(got) # {}
    <3>1. loader' = [loader EXCEPT !.got = got]
      BY <1>1, <2>4
    <3> HIDE DEF got
    <3> QED
      BY <1>0, <1>4, <2>2, <3>1, LineKeeps DEF ConfigInv
  <2> QED
    BY <2>3, <2>4
<1>5. CASE key \notin loader.torn
  <2> DEFINE n == Len(loader.got)
  <2>1. n + 1 \in DOMAIN disk /\ line = disk[n + 1]
    BY <1>0, <1>5 DEF LinesToRead
  <2>2. n \in Nat /\ n + 1 <= Len(disk) /\ line \in TableLines
    BY <1>2, <1>3, <2>1
  <2>3. /\ got \in Seq(TableLines) /\ got # <<>> /\ Len(got) = n + 1 /\ got[n + 1] = line
        /\ \A i \in 1 .. n : got[i] = loader.got[i]
    BY <1>2, <2>2
  <2>4. \A i \in 1 .. n : i <= Len(disk) /\ loader.got[i] = disk[i]
    BY <1>0, <1>5 DEF ReadingInv
  <2> HIDE DEF got, disk
  <2>5. \A i \in 1 .. Len(got) : i <= Len(disk) /\ got[i] = disk[i]
    <3> SUFFICES ASSUME NEW i \in 1 .. Len(got)
                 PROVE  i <= Len(disk) /\ got[i] = disk[i]
      OBVIOUS
    <3>1. i \in 1 .. n \/ i = n + 1
      BY <2>2, <2>3
    <3> HIDE DEF n
    <3> QED
      BY <3>1, <2>1, <2>2, <2>3, <2>4
  <2>6. CASE TableRead(got) = {}
    <3>1. loader' = [loader EXCEPT !.at = "refused"]
      BY <1>1, <2>6 DEF Refuse, got
    <3>2. TableRead(disk) = {}
      BY <1>3, <2>3, <2>5, <2>6, BadBeginning
    <3>3. Unreadable(loader, ConfigFiles[loader.file])
      BY <1>0, <3>2, RefusedIsUnread DEF ConfigInv, disk
    <3> QED
      BY <3>1, <3>3, RefuseKeeps DEF ConfigInv
  <2>7. CASE TableRead(got) # {}
    <3>1. loader' = [loader EXCEPT !.got = got]
      BY <1>1, <2>7 DEF got
    <3> QED
      BY <1>0, <2>3, <2>5, <3>1, LineKeeps DEF ConfigInv, disk
  <2> QED
    BY <2>6, <2>7
<1> QED
  BY <1>4, <1>5

LEMMA KeepStep == ConfigInv /\ KeepTable => ConfigInv'
<1> SUFFICES ASSUME ConfigInv, KeepTable
             PROVE  ConfigInv'
  OBVIOUS
<1> DEFINE key == NextKey(loader)
<1>0. NormalPath = key /\ OnDisk = DiskLines(loader, key) /\ NextTarget = Targets[loader.next]
  BY DEF NormalPath, NextTarget, NextKey, TableFile, OnDisk, DiskLines
<1>1. loader.at = "table" /\ (key \in loader.torn \/ loader.got = DiskLines(loader, key))
  BY <1>0 DEF KeepTable
<1>2. CASE TableRead(loader.got) = {}
  <2>1. loader' = [loader EXCEPT !.at = "refused"]
    BY <1>2 DEF KeepTable, Refuse
  <2>2. Unreadable(loader, ConfigFiles[loader.file])
    BY <1>1, <1>2, RefusedIsUnread DEF ConfigInv
  <2> QED
    BY <2>1, <2>2, RefuseKeeps DEF ConfigInv
<1>3. CASE TableRead(loader.got) # {}
  <2>1. PICK bundle \in TableRead(loader.got) :
          loader' = [loader EXCEPT !.at = "tables", !.next = @ + 1, !.got = <<>>,
                       !.config = WithTable(@, Targets[loader.next], bundle),
                       !.cache = Extended(@, key, bundle)]
    BY <1>0, <1>3 DEF KeepTable
  <2> QED
    BY <1>1, <2>1, ReadKept DEF ConfigInv
<1> QED
  BY <1>2, <1>3

LEMMA BeginStep == ConfigInv /\ BeginWrite => ConfigInv'
<1> SUFFICES ASSUME ConfigInv, BeginWrite
             PROVE  ConfigInv'
  OBVIOUS
<1>1. NormalPath = NextKey(loader) /\ TableFile = FileAt[NextKey(loader)]
  BY DEF NormalPath, NextTarget, NextKey, TableFile
<1>2. PICK file \in FilesNamed :
        /\ loader.written[file] < Len(TableFiles[file])
        /\ loader' = [loader EXCEPT !.written[file] = @ + 1, !.unfinished = @ \cup {file},
                        !.torn = IF loader.at = "table" /\ file = FileAt[NextKey(loader)]
                                 THEN @ \cup {NextKey(loader)} ELSE @]
  BY <1>1 DEF BeginWrite
<1>3. file \in DOMAIN TableFiles
  BY <1>2, TableFilesAre DEF FilesNamed
<1>4. loader.at \in {"lines", "tables", "table"}
  BY DEF BeginWrite
<1> QED
  BY <1>2, <1>3, <1>4, BeginKeeps DEF ConfigInv

LEMMA OtherSteps ==
  /\ ConfigInv /\ Selected => ConfigInv'
  /\ ConfigInv /\ EndWrite => ConfigInv'
  /\ ConfigInv /\ UNCHANGED loader => ConfigInv'
<1>1. ConfigInv /\ Selected => ConfigInv'
  BY SelectedKeeps DEF ConfigInv, Selected, Loaded
<1>2. ConfigInv /\ EndWrite => ConfigInv'
  BY EndWriteKeeps DEF ConfigInv, EndWrite
<1>3. ConfigInv /\ UNCHANGED loader => ConfigInv'
  BY DEF ConfigInv
<1> QED
  BY <1>1, <1>2, <1>3

\* What the loader has read of its file, and of its tables, it keeps.
LEMMA LoaderKeepsInvariant == EvaluatorSpec => []ConfigInv
<1>1. EvaluatorInit => ConfigInv
  BY InitLoader DEF EvaluatorInit, ConfigInv
<1>2. ConfigInv /\ [Loading \/ WriteTable \/ Play]_loader_vars => ConfigInv'
  BY ParseStep, SelectStep, ReadStep, EndStep, SkipStep, KeptStep, OpenStep, LineStep, KeepStep, BeginStep, OtherSteps
     DEF Loading, LoadTables, WriteTable, Play, loader_vars
<1> QED
  BY <1>1, <1>2, PTL DEF EvaluatorSpec

(***************************************************************************)
(* The properties.                                                         *)
(***************************************************************************)
TableTaken(l, target, path) ==
  LET key == CacheKey(path)
  IN  \E bundle \in TableOf(l.config, target) :
        /\ TableOf(l.config, target) = {bundle} /\ IsTable(bundle)
        /\ (key \in l.torn /\ l.written[FileAt[key]] > 1) \/ VersionRead(l, key, bundle)

LEMMA LoadedTables ==
  ASSUME NEW l, NEW lines, LinesType(lines), TablesInv(l, lines), WrittenType(l), l.next > 4,
         NEW key \in TableKeys
  PROVE  IF TextsOf(lines, {key}) = {} THEN TableOf(l.config, TargetOf(key)) = {}
         ELSE \E path \in TextsOf(lines, {key}) : TableTaken(l, TargetOf(key), path)
<1> DEFINE target == TargetOf(key)
           T == TextsOf(lines, {key})
<1>1. HeardPaths(l, lines, Len(lines)) /\ TablesSet(l) /\ CacheTrue(l) /\ DOMAIN lines = 1 .. Len(lines)
  BY DEF TablesInv, Heard, LinesType
<1>2. PICK j \in 1 .. 4 : Targets[j] = target
  BY TargetsAre
<1>3. j < l.next
  <2>1. l.next \in Nat
    BY DEF TablesInv
  <2> QED
    BY <2>1
<1>4. IF target \in DOMAIN l.paths THEN TargetDone(l, target) ELSE TableOf(l.config, target) = {}
  BY <1>1, <1>2, <1>3 DEF TablesSet
<1>5. \A i \in 1 .. Len(lines) : lines[i].key \in TableKeys /\ TargetOf(lines[i].key) = target => lines[i].key = key
  BY TargetsDiffer
<1>6. CASE target \in DOMAIN l.paths
  <2>1. PICK i \in 1 .. Len(lines) : lines[i].key = key
    BY <1>1, <1>5, <1>6 DEF HeardPaths
  <2> DEFINE path == l.paths[target]
             k == CacheKey(path)
             bundle == l.cache[k]
  <2>2. path = lines[i].text
    BY <1>1, <2>1 DEF HeardPaths
  <2>3. path \in T
    BY <1>1, <2>1, <2>2 DEF TextsOf
  <2>4. k \in DOMAIN l.cache /\ TableOf(l.config, target) = {bundle}
    BY <1>4, <1>6 DEF TargetDone
  <2>5. IsTable(bundle) /\ (k \in l.torn \/ VersionRead(l, k, bundle))
    BY <1>1, <2>4 DEF CacheTrue
  <2>6. k \in l.torn => l.written[FileAt[k]] > 1
    BY DEF WrittenType
  <2> HIDE DEF bundle, T, path
  <2>7. TableTaken(l, target, path)
    BY <2>4, <2>5, <2>6 DEF TableTaken
  <2> QED
    BY <2>3, <2>7 DEF T
<1>7. CASE target \notin DOMAIN l.paths
  <2>1. \A i \in 1 .. Len(lines) : lines[i].key # key
    BY <1>1, <1>7 DEF HeardPaths
  <2>2. T = {}
    BY <1>1, <2>1 DEF TextsOf
  <2> QED
    BY <1>4, <1>7, <2>2
<1> QED
  BY <1>6, <1>7

LEMMA LoadedWeights ==
  ASSUME NEW l, NEW lines, LinesType(lines), TablesInv(l, lines), NEW p \in Phases, NEW f \in Features
  PROVE  LET only == TextsOf(lines, {ModeKey}) = {"pattern_only"}
             said == UNION TextsOf(lines, KeysOfFeature(p, f))
         IN  l.config.weights[p][f] \in
               (IF said = {} THEN {IF only THEN 0 ELSE DefaultConfig.weights[p][f]} ELSE said)
<1> DEFINE only == TextsOf(lines, {ModeKey}) = {"pattern_only"}
           T == TextsOf(lines, KeysOfFeature(p, f))
           said == UNION T
           k == <<p, f>>
           weight == l.config.weights[p][f]
           unsaid == IF only THEN 0 ELSE DefaultConfig.weights[p][f]
<1>0. k \in FeatureKeys /\ k[1] = p /\ k[2] = f
  BY DEF FeatureKeys
<1>1. LinesWith(lines, KeysOfFeature(p, f))
        = { i \in 1 .. Len(lines) : FeatureKey(lines[i].key) /\ FeatureOf(lines[i].key) = k }
  BY LinesOfFeatureAre
<1>2. \A t : t \in T <=> \E i \in LinesWith(lines, KeysOfFeature(p, f)) : t = lines[i].text
  BY DEF TextsOf, LinesWith
<1>3. /\ NotedFeatures(l, lines, Len(lines)) /\ HeardWeights(l, lines, Len(lines))
      /\ ClearedWeights(l)
  BY DEF TablesInv, Heard
<1>4. l.mode = "pattern_only" <=> only
  BY HeardSaysMode DEF TablesInv, Heard
<1> HIDE DEF T, only, k
<1>5. CASE k \in l.seen_features
  <2>1. PICK i \in 1 .. Len(lines) : FeatureKey(lines[i].key) /\ FeatureOf(lines[i].key) = k
    BY <1>3, <1>5 DEF NotedFeatures
  <2>2. weight \in lines[i].text
    BY <1>0, <1>3, <2>1 DEF HeardWeights
  <2>3. lines[i].text \in T
    BY <1>1, <1>2, <2>1
  <2>4. weight \in said
    BY <2>2, <2>3
  <2> QED
    BY <2>4 DEF T, only
<1>6. CASE k \notin l.seen_features
  <2>1. \A i \in 1 .. Len(lines) : ~(FeatureKey(lines[i].key) /\ FeatureOf(lines[i].key) = k)
    BY <1>3, <1>6 DEF NotedFeatures
  <2>2. T = {}
    BY <1>1, <1>2, <2>1
  <2>3. said = {}
    BY <2>2
  <2>4. weight = unsaid
    BY <1>0, <1>3, <1>4, <1>6 DEF ClearedWeights
  <2> QED
    BY <2>3, <2>4 DEF T, only
<1> QED
  BY <1>5, <1>6

LEMMA LoadedLimits ==
  ASSUME NEW l, NEW lines, LinesType(lines), TablesInv(l, lines), NEW name \in Thresholds
  PROVE  LET said == UNION TextsOf(lines, {<<NoName, name>>})
         IN  l.config[name] \in (IF said = {} THEN {DefaultConfig[name]} ELSE said)
<1> DEFINE key == <<NoName, name>>
           T == TextsOf(lines, {key})
           said == UNION T
           limit == l.config[name]
<1>1. \A t : t \in T <=> \E i \in 1 .. Len(lines) : lines[i].key = key /\ t = lines[i].text
  BY DEF TextsOf, LinesType
<1>2. /\ NotedKeys(l, lines, Len(lines)) /\ NotedThresholds(l)
      /\ HeardLimits(l, lines, Len(lines)) /\ UnheardLimits(l)
  BY DEF TablesInv, Heard
<1> HIDE DEF T
<1>3. CASE name \in l.seen_configs
  <2>1. PICK i \in 1 .. Len(lines) : lines[i].key = key
    BY <1>2, <1>3 DEF NotedKeys, NotedThresholds
  <2>2. limit \in lines[i].text
    BY <1>2, <2>1 DEF HeardLimits
  <2>3. limit \in said
    BY <1>1, <2>1, <2>2
  <2> QED
    BY <2>3 DEF T
<1>4. CASE name \notin l.seen_configs
  <2>1. \A i \in 1 .. Len(lines) : lines[i].key # key
    BY <1>2, <1>4 DEF NotedKeys, NotedThresholds
  <2>2. said = {}
    BY <1>1, <2>1
  <2>3. limit = DefaultConfig[name]
    BY <1>2, <1>4 DEF UnheardLimits
  <2> QED
    BY <2>2, <2>3 DEF T
<1> QED
  BY <1>3, <1>4

LEMMA LoadedShares ==
  ASSUME NEW l, NEW lines, LinesType(lines), TablesInv(l, lines), l.next > 4, NEW p \in DOMAIN l.paths,
         NEW q \in DOMAIN l.paths, CacheKey(l.paths[p]) = CacheKey(l.paths[q])
  PROVE  TableOf(l.config, p) = TableOf(l.config, q)
<1>1. \A j \in 1 .. 4 : j < l.next
  <2>1. l.next \in Nat
    BY DEF TablesInv
  <2> QED
    BY <2>1
<1>2. ASSUME NEW t \in DOMAIN l.paths PROVE TargetDone(l, t)
  <2>1. PICK i \in 1 .. Len(lines) : lines[i].key \in TableKeys /\ t = TargetOf(lines[i].key)
    BY <1>2 DEF TablesInv, Heard, HeardPaths
  <2>2. PICK j \in 1 .. 4 : Targets[j] = t
    BY <2>1, TargetsAre
  <2> QED
    BY <1>1, <2>2 DEF TablesInv, TablesSet
<1> QED
  BY <1>2 DEF TargetDone

\* The normal form of a path is its key.
LEMMA PlaceIsKey == \A path : Place(path) = CacheKey(path)
BY DEF Place, CacheKey

LEMMA SaysAre ==
  /\ \A key : Says(key) = TextsOf(Lines, {key})
  /\ \A keys : Said(keys) = TextsOf(Lines, keys)
BY Zenon DEF Says, Said, LinesOf, TextsOf

LEMMA LoadedInv ==
  ConfigInv /\ Loaded =>
    LinesType(Lines) /\ TablesInv(loader, Lines) /\ WrittenType(loader) /\ loader.next > 4
BY FilesAreLines, TargetsAre DEF ConfigInv, LoaderInv, Loaded, Lines

LEMMA InvLoadedWritten == ConfigInv /\ Loaded => LoadedIsWritten
<1> SUFFICES ASSUME ConfigInv, Loaded
             PROVE  LoadedIsWritten
  OBVIOUS
<1>1. LinesType(Lines) /\ TablesInv(loader, Lines) /\ WrittenType(loader) /\ loader.next > 4
  BY LoadedInv
<1> DEFINE lines == Lines
           l == loader
           c == l.config
           only == TextsOf(lines, {ModeKey}) = {"pattern_only"}
<1>2. \A p \in Phases, f \in Features :
        LET said == UNION TextsOf(lines, KeysOfFeature(p, f))
        IN  c.weights[p][f] \in
              (IF said = {} THEN {IF only THEN 0 ELSE DefaultConfig.weights[p][f]} ELSE said)
  BY <1>1, LoadedWeights
<1>3. \A name \in Thresholds :
        LET said == UNION TextsOf(lines, {<<NoName, name>>})
        IN  c[name] \in (IF said = {} THEN {DefaultConfig[name]} ELSE said)
  BY <1>1, LoadedLimits
<1>4. \A key \in TableKeys :
        IF TextsOf(lines, {key}) = {} THEN TableOf(c, TargetOf(key)) = {}
        ELSE \E path \in TextsOf(lines, {key}) : TableTaken(l, TargetOf(key), path)
  BY <1>1, LoadedTables
<1> HIDE DEF lines, l
<1>5. \A p \in Phases, f \in Features :
           LET said == UNION Said(KeysOfFeature(p, f))
           IN  loader.config.weights[p][f] \in
                 (IF said = {} THEN {IF Says(<<NoName, "mode">>) = {"pattern_only"} THEN 0
                                     ELSE DefaultConfig.weights[p][f]}
                  ELSE said)
  BY <1>2, SaysAre, Zenon DEF lines, l, ModeKey
<1>6. \A name \in Thresholds :
           LET said == UNION Says(<<NoName, name>>)
           IN  loader.config[name] \in (IF said = {} THEN {DefaultConfig[name]} ELSE said)
  BY <1>3, SaysAre, Zenon DEF lines, l
<1>7. \A key \in TableKeys :
           IF Says(key) = {} THEN TableOf(loader.config, TargetOf(key)) = {}
           ELSE \E path \in Says(key) : TableAsWritten(TargetOf(key), path)
  <2>1. \A target, path : TableTaken(loader, target, path) => TableAsWritten(target, path)
    BY PlaceIsKey, Zenon DEF TableTaken, TableAsWritten, VersionRead, Disturbed
  <2> QED
    BY <1>4, <2>1, SaysAre, Zenon DEF lines, l
<1> QED
  BY <1>5, <1>6, <1>7, Zenon DEF LoadedIsWritten

LEMMA InvTargetsShare == ConfigInv /\ Loaded => TargetsShareTables
<1> SUFFICES ASSUME ConfigInv, Loaded
             PROVE  TargetsShareTables
  OBVIOUS
<1>1. LinesType(Lines) /\ TablesInv(loader, Lines) /\ loader.next > 4
  BY LoadedInv
<1> QED
  BY <1>1, LoadedShares, PlaceIsKey DEF TargetsShareTables

LEMMA InvBadRefused == ConfigInv => BadConfigsRefused
<1> SUFFICES ASSUME ConfigInv
             PROVE  BadConfigsRefused
  OBVIOUS
<1>1. Loaded => WellFormedFile
  <2> SUFFICES ASSUME Loaded
               PROVE  WellFormed(Lines)
    BY FileIsWellFormed
  <2>1. LinesType(Lines) /\ TablesInv(loader, Lines)
    BY LoadedInv
  <2>2. Heard(loader, Lines, Len(Lines)) /\ Complete(loader)
    BY <2>1 DEF TablesInv
  <2> QED
    BY <2>1, <2>2, HeardIsWellFormed
<1>2. loader.at = "refused" /\ loader.file # NoName /\ WellFormedFile => Unreadable(loader, Lines)
  BY FileIsWellFormed DEF ConfigInv, LoaderInv, Lines
<1>3. Unreadable(loader, Lines) =>
       \E key \in TableKeys : \E path \in Says(key) :
         \/ Place(path) \notin DOMAIN FileAt
         \/ Disturbed(Place(path))
         \/ \E n \in 1 .. loader.written[FileAt[Place(path)]] :
              TableRead(TableFiles[FileAt[Place(path)]][n]) = {}
  BY SaysAre, PlaceIsKey, Zenon DEF Unreadable, Unread, Disturbed
<1> QED
  BY <1>1, <1>2, <1>3, Zenon DEF BadConfigsRefused

\* The evaluator a tool plays with is the one its file describes: its weights
\* under either name, 0 where a file of tables only says nothing, its
\* thresholds, and for every target a table, never nothing: one of a version of
\* the file named unless a trainer wrote into the reading of it, and one and the
\* same for the targets whose paths have one normal form
\* (parse_evaluation_config, load_evaluation_config_file, PatternTableCache).
THEOREM LoadedIsAsAsked == EvaluatorSpec => []LoadedAsAsked
<1>1. ConfigInv => LoadedAsAsked
  BY InvLoadedWritten, InvTargetsShare DEF LoadedAsAsked
<1> QED
  BY <1>1, LoaderKeepsInvariant, PTL

\* A tool never plays with a file that repeats a key or a feature, has a line
\* it does not know or leaves out what must be set, and never refuses another
\* whose tables can all be read and are not written meanwhile
\* (load_evaluation_config_file).
THEOREM OnlyBadConfigsRefused == EvaluatorSpec => []BadConfigsRefused
BY InvBadRefused, LoaderKeepsInvariant, PTL

(***************************************************************************)
(* The boards of a game that a tool plays with what it has loaded.         *)
(***************************************************************************)
LEMMA PlaysOnBoards == EvaluatorSpec => []Inv
<1>1. EvaluatorInit => Inv
  BY ConfigAssumption DEF EvaluatorInit, Inv, PositionIsBoard, HashIsFull
<1>2. Inv /\ [Loading \/ WriteTable \/ Play]_loader_vars => Inv'
  <2>1. Loading \/ WriteTable \/ Play \/ UNCHANGED loader_vars => [Next]_vars
    BY DEF Loading, ParseOption, Select, ReadLine, EndOfFile, LoadTables, SkipTarget, TakeKept, OpenTable,
           ReadTableLine, KeepTable, Selected, WriteTable, BeginWrite, EndWrite, Play, NoPly, loader_vars, vars
  <2> QED
    BY <2>1, NextInv
<1> QED
  BY <1>1, <1>2, PTL DEF EvaluatorSpec

\* The score a search uses is the total the breakdown shows, on every board of every
\* game: the fast path, chosen once for each phase, leaves out nothing but features
\* of weight 0 (evaluate_score_only, pattern_table_score_only_fast_path_phases).
THEOREM ScoresAreTotals == EvaluatorSpec => []ScoreIsBreakdownTotal
<1>1. ASSUME ConfigInv, Inv, loader.at = "playing", NEW side \in Sides
      PROVE  LET player == discs(board, side)
                 opp == discs(board, opponent(side))
                 total == Breakdown(player, opp, Evaluator).total
             IN  /\ Evaluate(player, opp, Evaluator) = total
                 /\ ScoreOnly(player, opp, Evaluator, FastPathPhases(Evaluator)) = total
  <2> DEFINE player == discs(board, side)
             opp == discs(board, opponent(side))
  <2>1. player \in SUBSET Squares /\ opp \in SUBSET Squares
    BY <1>1, BoardParts DEF Inv, discs
  <2>2. Weighable(Evaluator)
    BY <1>1 DEF ConfigInv, LoaderInv, Evaluator
  <2> HIDE DEF player, opp
  <2>3. Evaluate(player, opp, Evaluator) = Breakdown(player, opp, Evaluator).total
    BY <2>1, <2>2, EvaluatesTotal
  <2>4. ScoreOnly(player, opp, Evaluator, FastPathPhases(Evaluator)) = Breakdown(player, opp, Evaluator).total
    BY <2>1, <2>2, ScoresAgree
  <2> QED
    BY <2>3, <2>4 DEF player, opp
<1>2. ConfigInv /\ Inv => ScoreIsBreakdownTotal
  BY <1>1 DEF ScoreIsBreakdownTotal
<1> QED
  BY <1>2, LoaderKeepsInvariant, PlaysOnBoards, PTL

LEMMA TotalsTurn ==
  ASSUME NEW player \in SUBSET Squares, NEW opp \in SUBSET Squares, player \cap opp = {}, NEW config,
         Weighable(config), ~TablesUsed(config)
  PROVE  /\ Evaluate(player, opp, config) \in Int
         /\ Evaluate(opp, player, config) = -Evaluate(player, opp, config)
<1> DEFINE phase == PhaseOf(Cardinality(player \cup opp), config)
           W == Weighted(config, phase) \cup ShownUnweighted
<1>1. phase \in Phases
  BY DEF PhaseOf, Phases
<1>2. opp \cup player = player \cup opp /\ opp \cap player = {} /\ (GameOver(opp, player) <=> GameOver(player, opp))
  BY DEF GameOver
<1>3. Evaluate(player, opp, config)
        = IF GameOver(player, opp) THEN TerminalScore(player, opp) ELSE WeightedSum(player, opp, config, phase, W)
  BY EvaluatesTotal DEF Breakdown
<1>4. Evaluate(opp, player, config)
        = IF GameOver(player, opp) THEN TerminalScore(opp, player) ELSE WeightedSum(opp, player, config, phase, W)
  BY <1>2, EvaluatesTotal DEF Breakdown
<1> HIDE DEF phase
<1>5. W \in SUBSET Features /\ "pattern_table" \notin W
  BY <1>1 DEF Weighted, ShownUnweighted, Features, TablesUsed
<1> HIDE DEF W
<1>6. WeightedSum(opp, player, config, phase, W) = -WeightedSum(player, opp, config, phase, W)
  BY <1>1, <1>5, WeightedSumTurns
<1>7. TerminalScore(opp, player) = -TerminalScore(player, opp) /\ TerminalScore(player, opp) \in Int
  <2>1. Difference(opp, player) = -Difference(player, opp) /\ Difference(player, opp) \in Int
    BY DifferenceTurns, DifferenceTyped
  <2> QED
    BY <2>1 DEF TerminalScore
<1>8. WeightedSum(player, opp, config, phase, W) \in Int
  BY <1>1, <1>5, WeightedSumTyped
<1> QED
  BY <1>3, <1>4, <1>6, <1>7, <1>8

\* Without learned tables the scores of the two sides of a board are each other's
\* negation, in every phase and at the end of a game: the two rule tables are
\* written for both colours by hand (corner_2x3_rule_value, edge_8_rule_value), and
\* search_node negates what they say.
THEOREM SidesAreBalanced == EvaluatorSpec => []ColoursBalanced
<1>1. ConfigInv /\ Inv => ColoursBalanced
  <2> SUFFICES ASSUME ConfigInv, Inv, loader.at = "playing", ~TablesUsed(Evaluator)
               PROVE  ZeroSum(board, Evaluator)
    BY DEF ColoursBalanced
  <2> DEFINE player == discs(board, "Black")
             opp == discs(board, "White")
             x == Evaluate(player, opp, Evaluator)
             y == Evaluate(opp, player, Evaluator)
  <2>1. player \in SUBSET Squares /\ opp \in SUBSET Squares /\ player \cap opp = {}
    BY BoardParts DEF Inv, discs
  <2>2. Weighable(Evaluator)
    BY DEF ConfigInv, LoaderInv, Evaluator
  <2>3. EvaluateFor(board, "Black", Evaluator) = x /\ EvaluateFor(board, "White", Evaluator) = y
    BY DEF EvaluateFor, opponent
  <2> HIDE DEF player, opp
  <2>4. x \in Int /\ y = -x
    BY <2>1, <2>2, TotalsTurn
  <2> HIDE DEF x, y
  <2> QED
    BY <2>3, <2>4 DEF ZeroSum
<1> QED
  BY <1>1, LoaderKeepsInvariant, PlaysOnBoards, PTL

\* On a board of the code's width, whatever stands on it: all instances of a family
\* are one pattern seen in different symmetries, cell for cell, and an index is an
\* index of its table that tells the state of each of its squares
\* (the pattern specs, pattern_index_for_squares).
THEOREM PatternsAreAligned ==
  ASSUME Width = 8
  PROVE  EvaluatorSpec => []PatternsAligned
<1>1. PatternsAligned
  BY AllReadBack, AllAligned, RowsAndColumns DEF PatternsAligned
<1> QED
  BY <1>1, PTL

LEMMA TotalsMove ==
  ASSUME Width = 8, NEW t, TurnsBoard(t), EdgesChangePlaces(t), CornersChangePlaces(t),
         NEW player \in SUBSET Squares, NEW opp \in SUBSET Squares, player \cap opp = {}, NEW config,
         Weighable(config), ~TablesUsed(config)
  PROVE  Evaluate(Turn(t, player), Turn(t, opp), config) = Evaluate(player, opp, config)
<1> DEFINE p == Turn(t, player)
           o == Turn(t, opp)
           phase == PhaseOf(Cardinality(player \cup opp), config)
           W == Weighted(config, phase) \cup ShownUnweighted
<1>1. Symmetry(t) /\ TurnsSets(t, Squares) /\ \A S \in SUBSET Squares : Cardinality(Turn(t, S)) = Cardinality(S)
  BY SymmetryTurns DEF TurnsBoard
<1>2. /\ p \in SUBSET Squares /\ o \in SUBSET Squares /\ p \cup o = Turn(t, player \cup opp)
      /\ p \cap o = {} /\ Cardinality(p \cup o) = Cardinality(player \cup opp)
  <2>1. p \cap o = Turn(t, player \cap opp)
    BY <1>1 DEF TurnsSets
  <2>2. Turn(t, {}) = {}
    BY DEF Turn
  <2>3. p \cup o = Turn(t, player \cup opp) /\ player \cup opp \in SUBSET Squares
    BY <1>1 DEF TurnsSets
  <2>4. p \in SUBSET Squares /\ o \in SUBSET Squares
    BY <1>1 DEF TurnsSets
  <2> QED
    BY <1>1, <2>1, <2>2, <2>3, <2>4
<1>3. GameOver(p, o) <=> GameOver(player, opp)
  <2>1. LegalMovesFor(p, o) = Turn(t, LegalMovesFor(player, opp)) /\ LegalMovesFor(o, p) = Turn(t, LegalMovesFor(opp, player))
    BY <1>1, MovesTurn
  <2>2. \A S : Turn(t, S) = {} <=> S = {}
    BY DEF Turn
  <2> QED
    BY <2>1, <2>2 DEF GameOver
<1>4. TerminalScore(p, o) = TerminalScore(player, opp)
  BY <1>1, DifferenceMoves DEF TerminalScore
<1>5. Evaluate(player, opp, config)
        = IF GameOver(player, opp) THEN TerminalScore(player, opp) ELSE WeightedSum(player, opp, config, phase, W)
  BY EvaluatesTotal DEF Breakdown
<1>6. Evaluate(p, o, config)
        = IF GameOver(p, o) THEN TerminalScore(p, o) ELSE WeightedSum(p, o, config, phase, W)
  <2> HIDE DEF p, o
  <2> QED
    BY <1>2, EvaluatesTotal DEF Breakdown
<1>7. phase \in Phases
  BY DEF PhaseOf, Phases
<1> HIDE DEF phase
<1>8. W \in SUBSET Features /\ "pattern_table" \notin W
  BY <1>7 DEF Weighted, ShownUnweighted, Features, TablesUsed
<1> HIDE DEF W
<1>9. WeightedSum(p, o, config, phase, W) = WeightedSum(player, opp, config, phase, W)
  BY <1>8, WeightedSumMoves
<1> HIDE DEF p, o
<1>10. Evaluate(p, o, config) = Evaluate(player, opp, config)
  BY <1>3, <1>4, <1>5, <1>6, <1>9
<1> QED
  BY <1>10 DEF p, o

\* On a board of the code's width the evaluator prefers neither a colour nor a side
\* of the board: without learned tables the score is negated with the colours
\* exchanged, and is that of both mirror images of the board; and every feature but
\* the corner pattern is that of the transposed board.  The corners' rays, the 2x3
\* corners and the edges are written one by one in the code (edge_corner_specs,
\* corner_2x3_pattern_specs, edge_8_pattern_specs).
THEOREM EvaluatorIsSymmetric == ASSUME Width = 8 PROVE EvaluatorSpec => []EvaluatorSymmetric
<1>1. TurnsBoard(FilesTurn) /\ EdgesChangePlaces(FilesTurn) /\ CornersChangePlaces(FilesTurn)
  BY FilesTurnIsSymmetry, FilesTurnOnCorners, FilesTurnEdges, FilesTurnCorners DEF TurnsBoard
<1>2. TurnsBoard(RanksTurn) /\ EdgesChangePlaces(RanksTurn) /\ CornersChangePlaces(RanksTurn)
  BY RanksTurnIsSymmetry, RanksTurnOnCorners, RanksTurnEdges, RanksTurnCorners DEF TurnsBoard
<1>3. TurnsBoard(Transposition) /\ EdgesChangePlaces(Transposition)
  BY TranspositionIsSymmetry, TranspositionOnCorners, TranspositionEdges DEF TurnsBoard
<1>4. ConfigInv /\ Inv => MirrorsAlike
  <2> SUFFICES ASSUME ConfigInv, Inv, loader.at = "playing", ~TablesUsed(Evaluator)
               PROVE  /\ Mirrored(board, Evaluator, FlippedFiles) /\ Mirrored(board, Evaluator, FlippedRanks)
                      /\ TransposedAlike(board, Evaluator, "midgame")
    BY DEF MirrorsAlike
  <2> DEFINE black == board.black
             white == board.white
  <2>1. black \in SUBSET Squares /\ white \in SUBSET Squares /\ black \cap white = {}
    BY BoardParts DEF Inv
  <2>2. Weighable(Evaluator)
    BY DEF ConfigInv, LoaderInv, Evaluator
  <2>3. EvaluateFor(board, "Black", Evaluator) = Evaluate(black, white, Evaluator)
    BY DEF EvaluateFor, discs, opponent
  <2> HIDE DEF black, white
  <2>4. /\ Image(black, FlippedFiles) = Turn(FilesTurn, black) /\ Image(white, FlippedFiles) = Turn(FilesTurn, white)
        /\ Image(black, FlippedRanks) = Turn(RanksTurn, black) /\ Image(white, FlippedRanks) = Turn(RanksTurn, white)
        /\ Image(black, Transposed) = Turn(Transposition, black)
        /\ Image(white, Transposed) = Turn(Transposition, white)
    BY <2>1, ImagesAre
  <2>5. Mirrored(board, Evaluator, FlippedFiles)
    <3>1. Evaluate(Turn(FilesTurn, black), Turn(FilesTurn, white), Evaluator) = Evaluate(black, white, Evaluator)
      BY <1>1, <2>1, <2>2, TotalsMove
    <3> QED
      BY <2>3, <2>4, <3>1 DEF Mirrored, black, white
  <2>6. Mirrored(board, Evaluator, FlippedRanks)
    <3>1. Evaluate(Turn(RanksTurn, black), Turn(RanksTurn, white), Evaluator) = Evaluate(black, white, Evaluator)
      BY <1>2, <2>1, <2>2, TotalsMove
    <3> QED
      BY <2>3, <2>4, <3>1 DEF Mirrored, black, white
  <2>7. TransposedAlike(board, Evaluator, "midgame")
    <3>1. ASSUME NEW f \in TransposedFeatures
          PROVE  RawValue(f, Turn(Transposition, black), Turn(Transposition, white), Evaluator, "midgame")
                   = RawValue(f, black, white, Evaluator, "midgame")
      <4>1. f \in Features /\ f # "pattern_table" /\ f # "corner_2x3_pattern"
        BY DEF TransposedFeatures
      <4> QED
        BY <1>3, <2>1, <4>1, RawValueMoves
    <3> QED
      BY <2>4, <3>1 DEF TransposedAlike, black, white
  <2> QED
    BY <2>5, <2>6, <2>7
<1>5. MirrorsAlike /\ ColoursBalanced => EvaluatorSymmetric
  BY DEF EvaluatorSymmetric
<1> QED
  BY <1>4, <1>5, LoaderKeepsInvariant, PlaysOnBoards, SidesAreBalanced, PTL
=============================================================================
