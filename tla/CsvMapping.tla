------------------------------ MODULE CsvMapping ------------------------------
(***************************************************************************)
(* intelligence/csv_mapping.py and its two endpoints: what the columns of  *)
(* a customer's file mean.  Tables resolve what they can, a model is asked *)
(* about the rest, the customer confirms, and the upload is read by the    *)
(* mapping that was sent, or by the aliases of batches.py if none was.     *)
(*                                                                         *)
(* A header is named by its folded form; the tables hold a few of each     *)
(* kind.  A file is its headers and whether it has none, some or too many  *)
(* rows; it may be edited between the preview and the upload.              *)
(***************************************************************************)
EXTENDS Integers, Sequences, FiniteSets, FiniteSetsExt, Functions

CONSTANTS
  CsvFiles,      \* the files a customer has
  Readings,      \* what a model may say of one column: [field, confident]
  Corrections    \* mappings of field names to headers that a client may send

VARIABLE csv     \* the file, its preview, and what became of the upload

CANONICAL_FIELDS ==
  {"email", "full_name", "first_name", "last_name", "company_name", "company_domain", "title"}
Blank == ""
NoField == "none"

\* A model's answer with a field of its own invention fails its validation.
ASSUME CsvAssumption ==
  /\ \A file \in CsvFiles : file.headers \in Seq(STRING)
  /\ Readings \subseteq [field : CANONICAL_FIELDS \cup {NoField}, confident : BOOLEAN]
  /\ \A map \in Corrections : map = [f \in DOMAIN map |-> map[f]]

EXACT == [email |-> "email", work_email |-> "email", company |-> "company_name"]
HIGH == [business |-> "company_name", url |-> "company_domain"]
AMBIGUOUS == {"name", "contact"}

Column(source, field, confidence) ==
  [source |-> source, field |-> field, confidence |-> confidence]

\* The first table that has the header; a header of no table, and one that is
\* known and not stored, are both unmapped.
ProposeColumn(h) ==
  CASE h \in DOMAIN EXACT -> Column(h, EXACT[h], "exact")
    [] h \in DOMAIN HIGH -> Column(h, HIGH[h], "high")
    [] h \in AMBIGUOUS -> Column(h, NoField, "ambiguous")
    [] OTHER -> Column(h, NoField, "unmapped")

\* A column keeps its place; one without a header is none.
Told(headers) == {i \in DOMAIN headers : headers[i] # Blank}
ProposeMapping(headers) == [i \in Told(headers) |-> ProposeColumn(headers[i])]

Merged(column, answer) ==
  CASE answer.field = NoField -> Column(column.source, NoField, "unmapped")
    [] answer.field # NoField /\ answer.confident ->
         Column(column.source, answer.field, "high")
    [] OTHER -> Column(column.source, answer.field, "ambiguous")

\* Only what is ambiguous listens to the model.
MergeLlmMapping(columns, answers) ==
  [i \in DOMAIN columns |->
     IF columns[i].confidence = "ambiguous" /\ columns[i].source \in DOMAIN answers
     THEN Merged(columns[i], answers[columns[i].source]) ELSE columns[i]]

Claiming(columns, f) == {i \in DOMAIN columns : columns[i].field = f}
Conflicts(columns) == {f \in CANONICAL_FIELDS : Cardinality(Claiming(columns, f)) > 1}

\* A field that several columns claim has none.
BuildFieldMap(columns) ==
  LET single == {f \in CANONICAL_FIELDS : Cardinality(Claiming(columns, f)) = 1}
  IN  [f \in single |-> columns[CHOOSE i \in Claiming(columns, f) : TRUE].source]

RequiresConfirmation(columns) ==
  \/ Conflicts(columns) # {}
  \/ \E i \in DOMAIN columns : columns[i].confidence = "ambiguous"
UsableMapping(columns) == "email" \in DOMAIN BuildFieldMap(columns)

Present(headers) == Range(headers) \ {Blank}

\* The problems of a mapping that a client sent, and the entries without one.
Valid(headers, sent) ==
  Restrict(sent, {f \in DOMAIN sent \cap CANONICAL_FIELDS : sent[f] \in Present(headers)})
HasProblem(headers, sent) ==
  \/ \E f \in DOMAIN sent : f \notin CANONICAL_FIELDS \/ sent[f] \notin Present(headers)
  \/ \E f, g \in DOMAIN Valid(headers, sent) : f # g /\ sent[f] = sent[g]
  \/ "email" \notin DOMAIN Valid(headers, sent)

\* batches.COLUMN_ALIASES, in order of preference.
COLUMN_ALIASES ==
  [email |-> <<"email">>, full_name |-> <<"name">>, company_name |-> <<"company">>]
MapColumns(headers) ==
  LET found(f) == {i \in DOMAIN COLUMN_ALIASES[f] : COLUMN_ALIASES[f][i] \in Present(headers)}
  IN  [f \in {f \in DOMAIN COLUMN_ALIASES : found(f) # {}} |-> COLUMN_ALIASES[f][Min(found(f))]]

-----------------------------------------------------------------------------
NoPreview == << >>
NotSent == << >>
Sent(map) == <<map>>

CsvInit ==
  \E file \in CsvFiles :
    csv = [at |-> "open", file |-> file, preview |-> NoPreview, of |-> file,
           sent |-> NotSent, used |-> << >>]

Malformed(file) == file.headers = << >>
RefuseUpload == csv' = [csv EXCEPT !.at = "refused", !.sent = NotSent]

Unresolved(columns) == {columns[i].source : i \in
                          {j \in DOMAIN columns : columns[j].confidence = "ambiguous"}}
\* What a model may answer of a file, of columns it was not asked about too.
ModelAnswers(columns) ==
  LET sources == {columns[i].source : i \in DOMAIN columns}
  IN  UNION {[s -> Readings] : s \in SUBSET sources}

\* POST /batches/mapping-preview: the model is asked only if the tables left a
\* column open; a model that fails or is not there leaves it so.
PreviewMapping ==
  /\ csv.at # "ingested"
  /\ LET columns == ProposeMapping(csv.file.headers)
         seen(c) == csv' = [csv EXCEPT !.at = "open", !.preview = c, !.of = csv.file,
                                       !.sent = NotSent]
     IN  \/ Malformed(csv.file) /\ RefuseUpload
         \/ ~Malformed(csv.file) /\ seen(columns)
         \/ /\ ~Malformed(csv.file) /\ Unresolved(columns) # {}
            /\ \E answers \in ModelAnswers(columns) : seen(MergeLlmMapping(columns, answers))

\* The customer saves another version of the file.
EditFile ==
  /\ csv.at # "ingested"
  /\ \E file \in CsvFiles : csv' = [csv EXCEPT !.file = file]

\* parse_csv, of the rows as far as their number goes.
Resolve(headers, sent) ==
  IF sent = NotSent THEN MapColumns(headers)
  ELSE Restrict(sent[1], {f \in DOMAIN sent[1] : sent[1][f] \in Present(headers)})
Parses(file, resolved) ==
  ~Malformed(file) /\ "email" \in DOMAIN resolved /\ file.rows = "some"

\* POST /batches: the mapping is checked against the file that came with it.
UploadFile ==
  /\ csv.at # "ingested"
  /\ \E sent \in {NotSent, Sent(BuildFieldMap(csv.preview))}
                   \cup {Sent(c) : c \in Corrections} :
       LET file == csv.file
           resolved == Resolve(file.headers, sent)
           accepted == /\ sent = NotSent \/ ~HasProblem(file.headers, sent[1])
                       /\ Parses(file, resolved)
       IN  IF accepted
           THEN csv' = [csv EXCEPT !.at = "ingested", !.sent = sent, !.used = resolved]
           ELSE RefuseUpload

CsvNext == PreviewMapping \/ EditFile \/ UploadFile

-----------------------------------------------------------------------------
\* Whatever a client sends and however the file changed since its preview, the
\* rows are read by exactly what was confirmed, or the upload is refused; no
\* column feeds two fields, and every field has a column of this file.
ReadAsConfirmed ==
  csv.at = "ingested" =>
    /\ csv.sent # NotSent => csv.used = csv.sent[1]
    /\ \A f, g \in DOMAIN csv.used : csv.used[f] = csv.used[g] => f = g
    /\ Range(csv.used) \subseteq Present(csv.file.headers)
    /\ "email" \in DOMAIN csv.used \cap CANONICAL_FIELDS

\* A preview that asks for no confirmation, sent straight back with its file,
\* reads every column that it said means something, and those of the tables as
\* the tables say, whatever a model answered; if it says that the file is usable
\* and there are rows, the upload is not refused.
EchoLosesNothing ==
  csv.preview # NoPreview /\ ~RequiresConfirmation(csv.preview) =>
    LET map == BuildFieldMap(csv.preview)
    IN  /\ csv.at = "ingested" /\ csv.of = csv.file /\ csv.sent = Sent(map) =>
             \A i \in DOMAIN csv.preview :
               LET source == csv.preview[i].source
               IN  \A f \in {csv.preview[i].field, ProposeColumn(source).field} :
                     f # NoField => f \in DOMAIN csv.used /\ csv.used[f] = source
        /\ csv.of.rows = "some" /\ UsableMapping(csv.preview) =>
             ~HasProblem(csv.of.headers, map)

\* The two together: the mapping of an upload is the customer's.
UploadIsAsConfirmed == ReadAsConfirmed /\ EchoLosesNothing

\* csv_mapping.py:625 "The model never gets to skip the human", and :121 "or a
\* model proposed it. Always shown to the customer": a confident model does.
ModelNeverSkipsHuman ==
  (\E i \in DOMAIN csv.preview :
     csv.preview[i].source \in AMBIGUOUS /\ csv.preview[i].field # NoField)
  => RequiresConfirmation(csv.preview)

\* csv_mapping.py:620: a model does not overturn what the tables resolved.  Its
\* guess for another column takes the field out of the map that is offered.
TableAnswersStand ==
  csv.preview # NoPreview =>
    \A f \in DOMAIN BuildFieldMap(ProposeMapping(csv.of.headers)) :
      f \in DOMAIN BuildFieldMap(csv.preview)
=============================================================================
