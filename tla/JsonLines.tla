----------------------------- MODULE JsonLines ------------------------------
(***************************************************************************)
(* The JSON lines the tools leave for each other: the writer               *)
(* (common/jsonl.cpp, jsonl_writer.cpp) and the two hand-written parsers,  *)
(* the one of the replay tool (replay.cpp) and the one of the label        *)
(* analyzer (eval_vs_exact.cpp).                                           *)
(*                                                                         *)
(* A line is a sequence of tokens: a punctuation mark, a string, an        *)
(* integer or a word (true, false, null).                                  *)
(***************************************************************************)
EXTENDS Integers, SequencesExt

Mark(c) == [kind |-> c]
Str(v)  == [kind |-> "string", value |-> v]
Num(n)  == [kind |-> "int", value |-> n]
Word(w) == [kind |-> "word", value |-> w]
Null    == Word("null")
Bool(b) == Word(IF b THEN "true" ELSE "false")

(***************************************************************************)
(* Writing.                                                                *)
(***************************************************************************)
CommaSeparated(parts) ==
  LET line[i \in 0 .. Len(parts)] ==
        IF i = 0 THEN << >>
        ELSE line[i - 1] \o (IF i = 1 THEN << >> ELSE <<Mark("comma")>>) \o parts[i]
  IN  line[Len(parts)]

ArrayOf(parts) == <<Mark("begin_array")>> \o CommaSeparated(parts) \o <<Mark("end_array")>>
StringArray(values) == ArrayOf([i \in DOMAIN values |-> <<Str(values[i])>>])

\* Fields: a sequence of pairs, a name and the tokens of its value.
ObjectOf(fields) ==
  <<Mark("begin_object")>>
    \o CommaSeparated([i \in DOMAIN fields |-> <<Str(fields[i][1]), Mark("colon")>> \o fields[i][2]])
    \o <<Mark("end_object")>>

(***************************************************************************)
(* Reading.  The parsers descend recursively; here they run over the       *)
(* tokens with a stack of the marks that close what is open, and note      *)
(* where the parts of the outermost object or array begin.  A step gives a *)
(* set of one state, or of none where the parser fails.  The replay tool   *)
(* skips a value that is no string, array or object up to the next         *)
(* delimiter, be it nothing at all (lenient); the analyzer insists on a    *)
(* literal or a number.                                                    *)
(***************************************************************************)
KindAt(line, i) == IF i \in DOMAIN line THEN line[i].kind ELSE "end_of_line"
Delimiters == {"comma", "end_array", "end_object"}

\* whole: nothing may follow the value.
Reader(whole) == [expect |-> "value", open |-> << >>, parts |-> << >>, whole |-> whole]
Expecting(s, what) == [s EXCEPT !.expect = what]
ValueRead(s) == Expecting(s, IF s.open = << >> THEN "done" ELSE "more")
Opened(s, closing) == [s EXCEPT !.open = Append(@, closing)]
Closed(s) == [s EXCEPT !.open = Front(@)]
Part(s, name, i) == IF Len(s.open) = 1 THEN [s EXCEPT !.parts = Append(@, [name |-> name, at |-> i])]
                    ELSE s

\* What follows a value in an object or array.
Delimited(s, kind) ==
  IF s.open = << >> THEN {}
  ELSE IF kind = "comma" THEN {Expecting(s, IF Last(s.open) = "end_object" THEN "name" ELSE "item")}
  ELSE IF kind = Last(s.open) THEN {ValueRead(Closed(s))}
  ELSE {}

\* skip_value
ReadValue(s, kind, lenient) ==
  CASE kind = "string" -> {ValueRead(s)}
    [] kind = "begin_array" -> {Expecting(Opened(s, "end_array"), "first_item")}
    [] kind = "begin_object" -> {Expecting(Opened(s, "end_object"), "first_name")}
    [] kind \in Delimiters -> IF lenient THEN Delimited(s, kind) ELSE {}
    [] kind \notin {"string", "begin_array", "begin_object"} \cup Delimiters ->
         IF lenient THEN {Expecting(s, "rest_of_bare")}
         ELSE { ValueRead(s) : bare \in {"int", "word"} \cap {kind} }

ReadToken(s, line, i, lenient) ==
  LET kind == line[i].kind
  IN  CASE s.expect = "value" -> ReadValue(s, kind, lenient)
        [] s.expect = "item" \/ (s.expect = "first_item" /\ kind # "end_array") ->
             ReadValue(Part(s, "item", i), kind, lenient)
        [] s.expect = "name" \/ (s.expect = "first_name" /\ kind # "end_object") ->
             IF kind # "string" THEN {}
             ELSE {Expecting(Part(s, line[i].value, i + 2), "colon")}
        [] s.expect = "colon" -> IF kind = "colon" THEN {Expecting(s, "value")} ELSE {}
        [] s.expect = "rest_of_bare" /\ kind \notin Delimiters -> {s}
        [] \/ s.expect = "more" \/ (s.expect = "first_item" /\ kind = "end_array")
           \/ (s.expect = "first_name" /\ kind = "end_object")
           \/ (s.expect = "rest_of_bare" /\ kind \in Delimiters) -> Delimited(s, kind)
        [] s.expect = "done" -> IF s.whole THEN {} ELSE {s}

\* From the token first to the end of the line.
ReadFrom(s, line, first, lenient) ==
  LET after[i \in 0 .. Len(line)] ==
        IF i < first THEN {s}
        ELSE UNION { ReadToken(t, line, i, lenient) : t \in after[i - 1] }
  IN  after[Len(line)]

\* The parts of the object or array that begins at i: a set of one sequence.
PartsAt(line, i, lenient) ==
  { s.parts : s \in ReadFrom(Reader(FALSE), line, i, lenient) }

\* Mutation: a line that ends inside the object ends it.
ObjectWithoutEnd(line, lenient) ==
  IF KindAt(line, 1) # "begin_object" THEN {}
  ELSE { s.parts : s \in ReadFrom(Reader(TRUE), line, 1, lenient) }

\* A line that is one object: the sequence of its members, the name of each and
\* where its value begins.  A set of one such sequence, or of none.
Object(line, lenient) ==
  IF KindAt(line, 1) # "begin_object" THEN {}
  ELSE { s.parts : s \in { t \in ReadFrom(Reader(TRUE), line, 1, lenient) :
                             t.expect = "done" } }

(***************************************************************************)
(* Values of the kind a field must have.                                   *)
(***************************************************************************)
Alone(line, i) == KindAt(line, i + 1) \in Delimiters

\* The strings of the array that begins at i stand at every second token.
ArrayEnd(line, i) == CHOOSE j \in i + 1 .. Len(line) :
  KindAt(line, j) = "end_array" /\ \A k \in i + 1 .. j - 1 : KindAt(line, k) # "end_array"
IsStringArray(line, i) ==
  /\ KindAt(line, i) = "begin_array"
  /\ \E j \in i + 1 .. Len(line) : KindAt(line, j) = "end_array"
  /\ LET last == ArrayEnd(line, i) - 1
     IN  /\ \A j \in i + 1 .. last : KindAt(line, j) = IF (j - i) % 2 = 1 THEN "string" ELSE "comma"
         /\ last = i \/ (last - i) % 2 = 1
StringsAt(line, i) ==
  [k \in 1 .. (ArrayEnd(line, i) - i) \div 2 |-> line[i + 2 * k - 1].value]

HasKind(line, i, kind) ==
  CASE kind \in {"string", "int"} -> KindAt(line, i) = kind /\ Alone(line, i)
    [] kind = "bool" ->
         KindAt(line, i) = "word" /\ line[i].value \in {"true", "false"} /\ Alone(line, i)
    [] kind = "nullable" -> \/ KindAt(line, i) = "string"
                            \/ (KindAt(line, i) = "word" /\ line[i].value = "null")
    [] kind = "strings" -> IsStringArray(line, i)
    [] OTHER -> FALSE

ValueOf(line, i, kind) ==
  CASE kind = "strings" -> StringsAt(line, i)
    [] kind = "bool" -> line[i].value = "true"
    [] OTHER -> line[i].value

\* The places of the members of that name.
Named(members, name) == { k \in DOMAIN members : members[k].name = name }
=============================================================================
