-------------------------------- MODULE Export --------------------------------
(***************************************************************************)
(* What export.c writes for the session's events, and under which name.    *)
(* A text is a sequence of characters, of which only those matter that a    *)
(* format must quote; "n" stands for the ordinary ones and is the letter of *)
(* the escape \n.  An event is the sequence of its exported texts; numbers, *)
(* which need no quoting, the names of the JSON members and white space     *)
(* between tokens are left out.                                             *)
(***************************************************************************)
EXTENDS Naturals, SequencesExt

Characters == {"quote", "backslash", "break", "comma", "n"}

Formats == {"json", "csv", "text"}
ExtensionOf == [json |-> ".json", csv |-> ".csv", text |-> ".txt"]
KnownExtensions == {ExtensionOf[format] : format \in Formats}

\* A path is its name and its extension, "" when it has none.
DefaultPath == [name |-> "traceglass-events", extension |-> ".json"]

\* A path of the name "longest" has room for an extension of three letters at most.
Fits(path) == path.name = "longest" => path.extension # ".json"

\* apply_selected_extension: a foreign extension is the user's own choice.
NamedPath(path, format) ==
  IF path.extension \in KnownExtensions \cup {""}
  THEN [path EXCEPT !.extension = ExtensionOf[format]] ELSE path

-----------------------------------------------------------------------------
(* The serializers.  A document is the sequence of the calls of write_utf8  *)
(* and write_all that make it, each with what it is given to write.         *)

Quoted(text, Escaped(_)) ==
  <<"quote">> \o FlattenSeq([i \in DOMAIN text |-> Escaped(text[i])]) \o <<"quote">>

\* write_json_string
JsonEscaped(c) ==
  IF c = "break" THEN <<"backslash", "n">>
  ELSE IF c \in {"quote", "backslash"} THEN <<"backslash", c>> ELSE <<c>>
JsonString(text) == Quoted(text, JsonEscaped)

\* write_csv_field
CsvEscaped(c) == IF c = "quote" THEN <<c, c>> ELSE <<c>>
CsvField(text) == Quoted(text, CsvEscaped)

\* The pieces of all events in order; Pieces says what one of them adds.
ForEach(events, Pieces(_)) == FlattenSeq([i \in DOMAIN events |-> Pieces(i)])

\* One JSON object per event, each but the last followed by a comma.
JsonMember(event, j) ==
  <<<<"name">>, JsonString(event[j])>> \o IF j < Len(event) THEN <<<<"comma">>>> ELSE <<>>
JsonObject(events, i) ==
  <<<<"{">>>> \o ForEach(events[i], LAMBDA j : JsonMember(events[i], j))
    \o <<IF i < Len(events) THEN <<"}", "comma">> ELSE <<"}">>>>
JsonPieces(events) ==
  <<<<"[">>>> \o ForEach(events, LAMBDA i : JsonObject(events, i)) \o <<<<"]">>>>

\* A mark of the encoding, a row of headings, and one row per event.
CsvCell(event, j) ==
  <<CsvField(event[j]), IF j < Len(event) THEN <<"comma">> ELSE <<"break">>>>
CsvRow(event) == ForEach(event, LAMBDA j : CsvCell(event, j))
CsvPieces(events) ==
  <<<<"bom">>, <<"headings", "break">>>> \o ForEach(events, LAMBDA i : CsvRow(events[i]))

\* One line per event; its texts are written as they are.
TextCell(event, j) == event[j] \o IF j < Len(event) THEN <<"bar">> ELSE <<"break">>
TextLine(event) == ForEach(event, LAMBDA j : TextCell(event, j))
TextPieces(events) == <<<<"bom">>>> \o ForEach(events, LAMBDA i : <<TextLine(events[i])>>)

PiecesOf(format, events) ==
  CASE format = "json" -> JsonPieces(events)
    [] format = "csv"  -> CsvPieces(events)
    [] format = "text" -> TextPieces(events)

-----------------------------------------------------------------------------
(* What a reader of the file finds in it: the grammars of JSON (RFC 8259)   *)
(* and CSV (RFC 4180), cut down to what an export can contain, as automata  *)
(* over the characters.                                                     *)

Reader == [at |-> "start", events |-> <<>>, event |-> <<>>, text |-> <<>>]

ReadJson(r, c) ==
  CASE r.at = "start" /\ c = "["             -> [r EXCEPT !.at = "open"]
    [] r.at \in {"open", "next"} /\ c = "{"  -> [r EXCEPT !.at = "member", !.event = <<>>]
    [] r.at \in {"open", "item"} /\ c = "]"  -> [r EXCEPT !.at = "end"]
    [] r.at = "member" /\ c = "name"         -> [r EXCEPT !.at = "value"]
    [] r.at = "value" /\ c = "quote"         -> [r EXCEPT !.at = "string", !.text = <<>>]
    [] r.at = "string" /\ c = "backslash"    -> [r EXCEPT !.at = "escape"]
    [] r.at = "string" /\ c = "quote"        -> [r EXCEPT !.at = "read", !.event = Append(@, r.text)]
    [] r.at = "string" /\ c \in {"comma", "n"} -> [r EXCEPT !.text = Append(@, c)]
    [] r.at = "escape" /\ c \in {"quote", "backslash", "n"} ->
         [r EXCEPT !.at = "string", !.text = Append(@, IF c = "n" THEN "break" ELSE c)]
    [] r.at = "read" /\ c = "comma"          -> [r EXCEPT !.at = "member"]
    [] r.at = "read" /\ c = "}"              -> [r EXCEPT !.at = "item", !.events = Append(@, r.event)]
    [] r.at = "item" /\ c = "comma"          -> [r EXCEPT !.at = "next"]
    [] OTHER                                 -> [r EXCEPT !.at = "error"]

ReadCsv(r, c) ==
  CASE r.at = "start" /\ c = "bom"                -> [r EXCEPT !.at = "top"]
    [] r.at = "top" /\ c = "headings"             -> [r EXCEPT !.at = "headings"]
    [] r.at = "headings" /\ c = "break"           -> [r EXCEPT !.at = "end"]
    [] r.at \in {"end", "cell"} /\ c = "quote"    -> [r EXCEPT !.at = "quoted", !.text = <<>>]
    [] r.at = "quoted" /\ c = "quote"             -> [r EXCEPT !.at = "closed"]
    [] r.at = "quoted" /\ c \in Characters \ {"quote"} -> [r EXCEPT !.text = Append(@, c)]
    [] r.at = "closed" /\ c = "quote"             -> [r EXCEPT !.at = "quoted", !.text = Append(@, c)]
    [] r.at = "closed" /\ c = "comma"             -> [r EXCEPT !.at = "cell", !.event = Append(@, r.text)]
    [] r.at = "closed" /\ c = "break"             ->
         [r EXCEPT !.at = "end", !.events = Append(@, Append(r.event, r.text)), !.event = <<>>]
    [] OTHER                                      -> [r EXCEPT !.at = "error"]

\* Where a reader is after the whole file.
Step(format, r, c) == IF format = "json" THEN ReadJson(r, c) ELSE ReadCsv(r, c)
Read(format, r, file) ==
  LET after[n \in 0..Len(file)] == IF n = 0 THEN r ELSE Step(format, after[n - 1], file[n])
  IN  after[Len(file)]

\* The file holds these events, all of them and nothing else.  The text format
\* quotes nothing, so that its reader can only expect the lines themselves.
Holds(format, file, events) ==
  IF format = "text" THEN file = FlattenSeq(TextPieces(events))
  ELSE LET reader == Read(format, Reader, file)
       IN  reader.at = "end" /\ reader.events = events
===============================================================================
