------------------------------ MODULE PIIScan -------------------------------
(***************************************************************************)
(* pii_scan_table and pii_audit_table (src/src/anofox_pii.cpp): a table is *)
(* read column by column, each with a query of its own on a sibling        *)
(* connection, and every value goes through the recognizers.  Meanwhile    *)
(* other connections commit, SET options and load the NER model.           *)
(*                                                                         *)
(* A text is what the recognizers find in it: `Reading' has the matches of *)
(* the patterns, of the model and of the name dictionary, as pairs of a    *)
(* type and a place, none overlapping another (PIIMatches resolves those), *)
(* and whether the patterns leave a letter for the model.  One pattern     *)
(* type and two NER types stand for all; confidences are left out.  The    *)
(* status of the model changes as NERModel has it, one load in a step.     *)
(***************************************************************************)
EXTENDS Naturals, Sequences, FiniteSets

CONSTANTS
    Null,            \* the SQL NULL, and the absence of a filter or an id column
    Fails,           \* a value of a view that cannot be computed
    Reading,         \* what the recognizers find in each text
    Tables,          \* what may be committed: columns, in order, and rows
    Requests,        \* calls: function, column filter, id column, open changes
    Settings,        \* PII settings: enabled types and anofox_ner_required
    ChunkSize,       \* STANDARD_VECTOR_SIZE
    MaxSamples,      \* sample values of a type
    MaxChanges,      \* bound on what the other connections do
    InferenceFails   \* whether an inference of the loaded model may throw

NERTypes == {"NAME", "ORGANIZATION"}
Types == {"EMAIL"} \cup NERTypes

Statuses == {"NOT_LOADED", "DOWNLOADING", "LOADED", "FAILED", "NOT_DOWNLOADED", "NOT_AVAILABLE"}

Names(table) == {table.columns[i].name : i \in 1..Len(table.columns)}

(* The values of a table are read as texts, and a text is finite.          *)
ASSUME ScanAssumption ==
    /\ Null \notin DOMAIN Reading /\ Fails \notin DOMAIN Reading /\ Null # Fails
    /\ \A text \in DOMAIN Reading :
          /\ Reading[text].patterns \subseteq {"EMAIL"} \X Nat
          /\ Reading[text].entities \subseteq NERTypes \X Nat
          /\ Reading[text].dictionary \subseteq {"NAME"} \X Nat
          /\ IsFiniteSet(Reading[text].patterns) /\ IsFiniteSet(Reading[text].entities)
          /\ IsFiniteSet(Reading[text].dictionary)
    /\ \A table \in Tables :
          /\ Len(table.rows) \in Nat
          /\ \A i \in 1..Len(table.rows), column \in Names(table) :
                table.rows[i][column] \in DOMAIN Reading \cup {Null, Fails}
    /\ \A s \in Settings : s.enabled \subseteq Types /\ s.required \in BOOLEAN
    /\ ChunkSize \in Nat \ {0} /\ MaxSamples \in Nat \ {0} /\ MaxChanges \in Nat
    /\ InferenceFails \in BOOLEAN

VARIABLES
    committed,       \* the table as it is committed
    states,          \* history: the tables committed since the statement began
    ner,             \* status_ of the NER model manager
    reachable,       \* whether its files are on disk or may be downloaded
    settings,        \* PIIConfig
    changes,         \* what the other connections did so far
    step,            \* where the statement is
    request,         \* the call
    using,           \* its snapshot of the settings
    columns,         \* columns_to_scan, from column_idx on
    cursor,          \* the column that is being read
    report           \* the rows returned so far

others == <<committed, states, ner, reachable, settings, changes>>
statement == <<step, request, using, columns, cursor, report>>
scanVars == <<others, statement>>

(* `rows' are not fetched, `batch' is fetched and not dealt with, `row' is *)
(* source_row; the matches of the first text of the batch, whether the     *)
(* recognizer at hand has tried to load the model, what Detect found while *)
(* Mask detects again (or Null), and values_scanned and the matches of the *)
(* column so far.                                                          *)
NoCursor == [rows |-> <<>>, batch |-> <<>>, row |-> 0, matches |-> {}, tried |-> FALSE,
             detected |-> Null, values |-> 0, found |-> <<>>]

ScanInit ==
    /\ committed \in Tables /\ states = {committed}
    /\ ner \in Statuses /\ reachable \in BOOLEAN
    /\ settings \in Settings /\ changes = 0
    /\ step = "idle" /\ request = Null /\ using = Null
    /\ columns = <<>> /\ cursor = NoCursor /\ report = <<>>

-----------------------------------------------------------------------------
(* Other connections.                                                      *)
Change == step \notin {"done", "failed"} /\ changes < MaxChanges /\ changes' = changes + 1

Commit ==
    /\ Change
    /\ committed' \in Tables \ {committed}
    /\ states' = states \cup {committed'}
    /\ UNCHANGED <<ner, reachable, settings, statement>>

SetOption ==
    /\ Change
    /\ settings' \in Settings \ {settings}
    /\ UNCHANGED <<committed, states, ner, reachable, statement>>

LoadResults == IF reachable THEN {"LOADED", "FAILED"} ELSE {"NOT_DOWNLOADED"}

(* Another detection loads the model from disk, or begins a download.      *)
OtherLoad ==
    /\ Change
    /\ ner = "NOT_LOADED"
    /\ ner' \in LoadResults \cup {s \in {"DOWNLOADING"} : reachable}
    /\ UNCHANGED <<committed, states, reachable, settings, statement>>

DownloadEnds ==
    /\ ner = "DOWNLOADING"
    /\ ner' \in {"LOADED", "FAILED"}
    /\ UNCHANGED <<committed, states, reachable, settings, changes, statement>>

(* RequestReload, for SET anofox_ner_model or anofox_ner_device.           *)
RequestReload ==
    /\ Change
    /\ ner \in {"FAILED", "NOT_DOWNLOADED"} /\ ner' = "NOT_LOADED"
    /\ UNCHANGED <<committed, states, reachable, settings, statement>>

(* SET anofox_ner_auto_download.                                           *)
SetAutoDownload ==
    /\ Change
    /\ reachable' = ~reachable
    /\ ner' = IF reachable' /\ ner = "NOT_DOWNLOADED" THEN "NOT_LOADED" ELSE ner
    /\ UNCHANGED <<committed, states, settings, statement>>

Others == Commit \/ SetOption \/ OtherLoad \/ DownloadEnds \/ RequestReload \/ SetAutoDownload

-----------------------------------------------------------------------------
(* A dropped table has no columns.                                         *)
Readable(table, names) == table.columns # <<>> /\ names \subseteq Names(table)

WithId(names) == IF request.id = Null THEN names ELSE names \cup {request.id}

Fail == step' = "failed" /\ UNCHANGED <<others, request, using, columns, cursor, report>>

(* PIIScanTableBind, PIIAuditTableBind: a call in a transaction with       *)
(* uncommitted changes is rejected, and a filter or an id column that is   *)
(* not there.                                                              *)
Bind == \E r \in Requests :
    /\ step = "idle"
    /\ request' = r
    /\ states' = {committed}
    /\ step' = IF \/ r.uncommitted
                  \/ ~Readable(committed, r.filter \cup ({r.id} \ {Null})) /\ (r.filter # {} \/ r.id # Null)
               THEN "failed" ELSE "plan"
    /\ UNCHANGED <<committed, ner, reachable, settings, changes, using, columns, cursor, report>>

(* ResolvePIIScanPlan: without a filter every column, those with text      *)
(* scanned; pii_audit_table leaves the others out.                         *)
Selected(column) == IF request.filter = {} THEN column.text ELSE column.name \in request.filter

ScanPlan ==
    LET Reported(column) ==
            Selected(column) \/ (request.fn = "pii_scan_table" /\ request.filter = {})
    IN  SelectSeq(committed.columns, Reported)

(* The first call of the table function.                                   *)
Start ==
    /\ step = "plan"
    /\ Readable(committed, request.filter)
    /\ step' = "open"
    /\ columns' = ScanPlan
    /\ using' = settings
    /\ UNCHANGED <<others, request, cursor, report>>

StartFails ==
    /\ step = "plan" /\ ~Readable(committed, request.filter)
    /\ Fail

-----------------------------------------------------------------------------
(* A row of pii_scan_table.                                                *)
StatusRow(status, values) ==
    [column |-> Head(columns).name, type |-> Null, count |-> 0, samples |-> <<>>,
     values |-> values, status |-> status, unavailable |-> FALSE, checked |-> {}, model |-> FALSE]

IsScan == request # Null /\ request.fn = "pii_scan_table"

(* The column is done with; its rows go to the result.                     *)
CloseWith(rows) ==
    /\ report' = report \o rows
    /\ columns' = Tail(columns) /\ cursor' = NoCursor
    /\ step' = "open"
    /\ UNCHANGED <<others, request, using>>

(* A query that fails is in the result of pii_scan_table, and in the trace *)
(* of pii_audit_table.                                                     *)
ErrorRows(values) == IF IsScan THEN <<StatusRow("error", values)>> ELSE <<>>

Skip ==
    /\ step = "open" /\ IsScan /\ columns # <<>> /\ ~Selected(Head(columns))
    /\ CloseWith(<<StatusRow("skipped", 0)>>)

OpenFails ==
    /\ step = "open" /\ columns # <<>> /\ Selected(Head(columns))
    /\ ~Readable(committed, WithId({Head(columns).name}))
    /\ CloseWith(ErrorRows(0))

(* The elements of a finite set in the order of their ranks.               *)
Ordered(set, Rank(_)) ==
    CHOOSE s \in [1..Cardinality(set) -> set] :
        \A i, j \in DOMAIN s : i < j => s[i] # s[j] /\ Rank(s[i]) <= Rank(s[j])

Ascending(numbers) == Ordered(numbers, LAMBDA n : n)

(* The value of the column and the id, of every row in pii_audit_table,    *)
(* and of those without NULL in pii_scan_table.                            *)
Returned(table, column) == {i \in 1..Len(table.rows) : ~IsScan \/ table.rows[i][column] # Null}

Stream(table, column) ==
    LET rows == Ascending(Returned(table, column))
        Line(row) == [text |-> row[column], id |-> IF request.id = Null THEN Null ELSE row[request.id]]
    IN  [k \in 1..Len(rows) |-> Line(table.rows[rows[k]])]

Open ==
    /\ step = "open" /\ columns # <<>> /\ Selected(Head(columns))
    /\ Readable(committed, WithId({Head(columns).name}))
    /\ cursor' = [NoCursor EXCEPT !.rows = Stream(committed, Head(columns).name)]
    /\ step' = "fetch"
    /\ UNCHANGED <<others, request, using, columns, report>>

Finish ==
    /\ step = "open" /\ columns = <<>>
    /\ step' = "done"
    /\ UNCHANGED <<others, request, using, columns, cursor, report>>

-----------------------------------------------------------------------------
WantsNER == using.enabled = {} \/ using.enabled \cap NERTypes # {}
IsEnabled(type) == using.enabled = {} \/ type \in using.enabled

(* Where Detect and DetectBatch begin.                                     *)
BeginDetect(next) == IF using.required /\ WantsNER THEN "require" ELSE next

Chunk == SubSeq(cursor.rows, 1, IF Len(cursor.rows) < ChunkSize THEN Len(cursor.rows) ELSE ChunkSize)
ChunkFails == \E i \in 1..Len(Chunk) : Chunk[i].text = Fails

Interrupt ==
    /\ step = "fetch"
    /\ Fail

FetchFails ==
    /\ step = "fetch" /\ ChunkFails
    /\ CloseWith(ErrorRows(cursor.values))

(* pii_scan_table detects in the chunk as a whole (DetectBatch).           *)
Fetch ==
    /\ step = "fetch" /\ Chunk # <<>> /\ ~ChunkFails
    /\ cursor' = [cursor EXCEPT !.batch = Chunk,
                                !.rows = SubSeq(@, Len(Chunk) + 1, Len(@)),
                                !.values = @ + Len(Chunk)]
    /\ step' = IF IsScan THEN BeginDetect("text") ELSE "text"
    /\ UNCHANGED <<others, request, using, columns, report>>

EndOfChunk ==
    /\ step = "text" /\ cursor.batch = <<>>
    /\ step' = "fetch"
    /\ UNCHANGED <<others, request, using, columns, cursor, report>>

-----------------------------------------------------------------------------
Line == Head(cursor.batch)

(* Mutant: a NULL does not count.                                          *)
NextValueNotNull ==
    /\ step = "text" /\ cursor.batch # <<>>
    /\ \/ /\ Line.text = Null
          /\ cursor' = [cursor EXCEPT !.batch = Tail(@)]
          /\ UNCHANGED step
       \/ /\ Line.text # Null
          /\ cursor' = [cursor EXCEPT !.row = @ + 1]
          /\ step' = IF IsScan THEN "patterns" ELSE BeginDetect("patterns")
    /\ UNCHANGED <<others, request, using, columns, report>>

(* PII is looked for in the next value; pii_audit_table steps over a NULL, *)
(* which counts as a row.                                                  *)
NextValue ==
    /\ step = "text" /\ cursor.batch # <<>>
    /\ \/ /\ Line.text = Null
          /\ cursor' = [cursor EXCEPT !.row = @ + 1, !.batch = Tail(@)]
          /\ UNCHANGED step
       \/ /\ Line.text # Null
          /\ cursor' = [cursor EXCEPT !.row = @ + 1]
          /\ step' = IF IsScan THEN "patterns" ELSE BeginDetect("patterns")
    /\ UNCHANGED <<others, request, using, columns, report>>

(* NERUnavailable, of GetStatusSnapshot.                                   *)
NERUnavailable ==
    \/ ner \in {"NOT_DOWNLOADED", "FAILED", "NOT_AVAILABLE"}
    \/ ner = "NOT_LOADED" /\ ~reachable

(* RequireModel: a load that is running is waited for.  Its last look at   *)
(* the status passes whatever is no failure.                               *)
RequireModel ==
    /\ step = "require" /\ ner # "DOWNLOADING"
    /\ \/ /\ ner = "NOT_LOADED" /\ ~cursor.tried
          /\ ner' \in LoadResults
          /\ cursor' = [cursor EXCEPT !.tried = TRUE]
          /\ UNCHANGED step
       \/ /\ ner = "NOT_LOADED" => cursor.tried
          /\ ~NERUnavailable
          /\ cursor' = [cursor EXCEPT !.tried = FALSE]
          /\ step' = IF IsScan THEN "text" ELSE "patterns"
          /\ UNCHANGED ner
       \/ /\ ner = "NOT_LOADED" => cursor.tried
          /\ NERUnavailable
          /\ step' = "failed"
          /\ UNCHANGED <<ner, cursor>>
    /\ UNCHANGED <<committed, states, reachable, settings, changes, request, using, columns, report>>

MatchesFound(matches) == {m \in matches : IsEnabled(m[1])}

(* Mutant: Mask detects with the settings as they are by now.              *)
DetectPatternsOfNow ==
    /\ step = "patterns"
    /\ LET enabled == IF cursor.detected = Null THEN using.enabled ELSE settings.enabled
       IN  cursor' = [cursor EXCEPT !.matches =
                         {m \in Reading[Line.text].patterns : enabled = {} \/ m[1] \in enabled}]
    /\ step' = IF WantsNER /\ Reading[Line.text].letters THEN "NAME" ELSE "found"
    /\ UNCHANGED <<others, request, using, columns, report>>

(* DetectPatterns: the model is asked about what has letters left.         *)
DetectPatterns ==
    /\ step = "patterns"
    /\ cursor' = [cursor EXCEPT !.matches = MatchesFound(Reading[Line.text].patterns)]
    /\ step' = IF WantsNER /\ Reading[Line.text].letters THEN "NAME" ELSE "found"
    /\ UNCHANGED <<others, request, using, columns, report>>

(* NameRecognizer and OrganizationRecognizer: the first detection that     *)
(* needs the model loads it.                                               *)
EnsureInitialized ==
    /\ step \in NERTypes /\ IsEnabled(step) /\ ~cursor.tried
    /\ ner = "NOT_LOADED" /\ ner' \in LoadResults
    /\ cursor' = [cursor EXCEPT !.tried = TRUE]
    /\ UNCHANGED <<committed, states, reachable, settings, changes,
                   step, request, using, columns, report>>

OfType(matches, type) == {m \in matches : m[1] = type}

(* What the model finds, if it answers for this text, and for a name, when *)
(* that is nothing, what the dictionary has.                               *)
Recognized(type, answers) ==
    LET entities == IF answers THEN OfType(Reading[Line.text].entities, type) ELSE {}
    IN  IF type = "NAME" /\ entities = {} THEN Reading[Line.text].dictionary ELSE entities

(* An inference that throws is traced, and the recognizer goes on without. *)
FindMatches ==
    /\ step \in NERTypes
    /\ IsEnabled(step) /\ ner = "NOT_LOADED" => cursor.tried
    /\ \E answers \in BOOLEAN :
          /\ answers => ner = "LOADED"
          /\ ~answers => ner # "LOADED" \/ InferenceFails
          /\ cursor' = [cursor EXCEPT !.tried = FALSE,
                                      !.matches = @ \cup MatchesFound(Recognized(step, answers))]
    /\ step' = IF step = "NAME" THEN "ORGANIZATION" ELSE "found"
    /\ UNCHANGED <<others, request, using, columns, report>>

(* The matches of a value, in order of their places.                       *)
Sorted(matches) == Ordered(matches, LAMBDA m : m[2])

(* pii_scan_table adds the matches to those of the column.                 *)
Count ==
    /\ step = "found" /\ IsScan
    /\ cursor' = [cursor EXCEPT !.batch = Tail(@), !.matches = {},
                                !.found = @ \o [i \in 1..Len(Sorted(cursor.matches)) |->
                                                    <<Line.text, Sorted(cursor.matches)[i]>>]]
    /\ step' = "text"
    /\ UNCHANGED <<others, request, using, columns, report>>

(* pii_audit_table lets Mask detect once more, unless there is nothing.    *)
Detected ==
    /\ step = "found" /\ ~IsScan /\ cursor.detected = Null
    /\ \/ /\ cursor.matches = {}
          /\ cursor' = [cursor EXCEPT !.batch = Tail(@)]
          /\ step' = "text"
       \/ /\ cursor.matches # {}
          /\ cursor' = [cursor EXCEPT !.detected = cursor.matches, !.matches = {}]
          /\ step' = BeginDetect("patterns")
    /\ UNCHANGED <<others, request, using, columns, report>>

AuditRow(match) ==
    [row |-> cursor.row, id |-> Line.id, column |-> Head(columns).name,
     text |-> Line.text, match |-> match, masked |-> cursor.matches]

Masked ==
    /\ step = "found" /\ ~IsScan /\ cursor.detected # Null
    /\ report' = report \o [i \in 1..Len(Sorted(cursor.detected)) |-> AuditRow(Sorted(cursor.detected)[i])]
    /\ cursor' = [cursor EXCEPT !.batch = Tail(@), !.matches = {}, !.detected = Null]
    /\ step' = "text"
    /\ UNCHANGED <<others, request, using, columns>>

-----------------------------------------------------------------------------
CheckedPIITypes(unavailable) ==
    {t \in Types : IsEnabled(t) /\ ~(unavailable /\ t \in NERTypes \ {"NAME"})}

FoundOf(type) ==
    LET IsOfType(match) == match[2][1] = type IN SelectSeq(cursor.found, IsOfType)

FoundTypes == {cursor.found[i][2][1] : i \in 1..Len(cursor.found)}

(* The row of a type, if it was found; `unavailable' is the note in its    *)
(* status, `model' whether ner_model names one.                            *)
TypeRow(type) ==
    LET found == FoundOf(type)
        Samples == SubSeq(found, 1, IF Len(found) < MaxSamples THEN Len(found) ELSE MaxSamples)
    IN  IF type \notin FoundTypes THEN <<>>
        ELSE <<[StatusRow("scanned", cursor.values) EXCEPT !.type = type, !.count = Len(found), !.samples = Samples]>>

(* Rows by the name of the type.                                           *)
ColumnRows ==
    IF cursor.found = <<>> THEN <<StatusRow("no_match", cursor.values)>>
    ELSE TypeRow("EMAIL") \o TypeRow("NAME") \o TypeRow("ORGANIZATION")

(* Mutant: they are judged once, for the first column.                     *)
RecordedOnce(row) ==
    LET first == IF \E i \in 1..Len(report) : report[i].checked # {}
                 THEN SelectSeq(report, LAMBDA r : r.checked # {})[1]
                 ELSE [unavailable |-> WantsNER /\ NERUnavailable,
                       checked |-> CheckedPIITypes(NERUnavailable),
                       model |-> WantsNER /\ ~NERUnavailable]
    IN  [row EXCEPT !.unavailable = first.unavailable, !.checked = first.checked, !.model = first.model]

(* The types and the model are judged after the column is scanned.         *)
Recorded(row) ==
    [row EXCEPT !.unavailable = WantsNER /\ NERUnavailable,
                !.checked = CheckedPIITypes(NERUnavailable),
                !.model = WantsNER /\ ~NERUnavailable]

EndOfColumn ==
    /\ step = "fetch" /\ cursor.rows = <<>>
    /\ CloseWith(IF IsScan THEN [i \in 1..Len(ColumnRows) |-> Recorded(ColumnRows[i])] ELSE <<>>)

ColumnSteps == Skip \/ OpenFails \/ Open \/ FetchFails \/ Fetch \/ EndOfChunk \/ EndOfColumn
ValueSteps ==
    \/ NextValue \/ RequireModel \/ DetectPatterns \/ EnsureInitialized \/ FindMatches
    \/ Count \/ Detected \/ Masked

ScanNext ==
    \/ Others
    \/ Bind \/ Start \/ StartFails \/ Interrupt \/ Finish
    \/ ColumnSteps \/ ValueSteps

ScanSpec == ScanInit /\ [][ScanNext]_scanVars

-----------------------------------------------------------------------------
(* Types of the parts that do not hold a row.                              *)
ScanTypeOK ==
    /\ committed \in states /\ states \subseteq Tables
    /\ ner \in Statuses /\ reachable \in BOOLEAN
    /\ settings \in Settings /\ changes \in 0..MaxChanges
    /\ step \in {"idle", "plan", "open", "fetch", "require", "text", "patterns", "found", "done", "failed"} \cup NERTypes
    /\ request \in Requests \cup {Null} /\ using \in Settings \cup {Null}
    /\ cursor.row \in Nat /\ cursor.values \in Nat /\ cursor.tried \in BOOLEAN
    /\ Len(cursor.batch) <= ChunkSize
    /\ cursor.matches \subseteq Types \X Nat
    /\ cursor.detected # Null => cursor.detected # {} /\ cursor.detected \subseteq Types \X Nat

Rows == {report[i] : i \in 1..Len(report)}

(* "checked_types: the PII types applied to the column, without            *)
(* ORGANIZATION, LOCATION and MISC when the NER model could not run"       *)
(* (docs/api/06-pii.md): what a row says was found, it also says was       *)
(* checked, and by which model, whenever the model became available or was *)
(* lost between the columns and values.                                    *)
FoundWasChecked ==
    IsScan => \A row \in Rows :
        row.type # Null => row.type \in row.checked /\ (row.type = "ORGANIZATION" => row.model)

(* "masked_value: the cell value masked with the default strategy"         *)
(* (docs/api/06-pii.md): a finding of pii_audit_table is hidden in the     *)
(* masked value beside it.  The code does not keep this: Mask detects      *)
(* again, and a name of the dictionary gives way to one of the model that  *)
(* was loaded in between; an inference that fails in between is missing.   *)
MaskedWhereFound == ~IsScan => \A row \in Rows : row.match \in row.masked

(* It keeps it for the patterns: whatever SETs of the enabled types, loads *)
(* and failing inferences come between Detect and Mask, an address that is *)
(* reported is hidden in the masked value beside it.                       *)
PatternsAreMasked ==
    ~IsScan => \A row \in Rows : row.match[1] = "EMAIL" => row.match \in row.masked

Texts(table, column) ==
    {i \in 1..Len(table.rows) :
        Readable(table, WithId({column})) /\ table.rows[i][column] \notin {Null, Fails}}

Reads(table, column) ==
    /\ Readable(table, WithId({column}))
    /\ \A i \in 1..Len(table.rows) : table.rows[i][column] # Fails

(* What is in the column of a table: rows, ids, texts and matches.         *)
Matches(table, column, kind) ==
    UNION {LET text == table.rows[i][column]
               id == IF request.id = Null THEN Null ELSE table.rows[i][request.id]
           IN  {<<i, id, text, m>> : m \in MatchesFound(Reading[text][kind])} :
           i \in Texts(table, column)}

RowsOf(column) == {row \in Rows : row.column = column}

Audited(column) ==
    {<<row.row, row.id, row.text, row.match>> : row \in {r \in RowsOf(column) : r.match[1] = "EMAIL"}}

(* The count in the row of a type; without a row nothing was found.        *)
Counted(column, type) ==
    IF \E row \in RowsOf(column) : row.type = type
    THEN (CHOOSE row \in RowsOf(column) : row.type = type).count ELSE 0

ScanAgrees(table, column) ==
    IF \E row \in RowsOf(column) : row.status = "error" THEN ~Reads(table, column)
    ELSE /\ Reads(table, column)
         /\ Counted(column, "EMAIL") = Cardinality(Matches(table, column, "patterns"))
         /\ \A row \in RowsOf(column) : row.values = Cardinality(Texts(table, column))

AuditAgrees(table, column) ==
    /\ Audited(column) \subseteq Matches(table, column, "patterns")
    /\ Reads(table, column) => Audited(column) = Matches(table, column, "patterns")

(* "Returns one row per PII match" with its "1-based row number in the     *)
(* table", and "the row's identifier" (docs/api/06-pii.md): what is said   *)
(* of a column is true of one committed state of the table, every row of   *)
(* it, through all the chunks and NULLs; pii_scan_table says when a column *)
(* could not be read, and both end with every column dealt with.           *)
ReportsOneState ==
    step = "done" =>
        \A column \in {c \in UNION {Names(s) : s \in states} :
                         \A s \in states : \A i \in 1..Len(s.columns) :
                             s.columns[i].name = c => Selected(s.columns[i])} :
            \/ IsScan /\ RowsOf(column) = {} /\ \E s \in states : column \notin Names(s)
            \/ \E s \in states : IF IsScan THEN ScanAgrees(s, column) ELSE AuditAgrees(s, column)

(* "checked_types: the PII types applied to the column, without            *)
(* ORGANIZATION, LOCATION and MISC when the NER model could not run"       *)
(* (docs/api/06-pii.md): a column that has organizations in every state of *)
(* the table is not reported as checked for them and free of them.         *)
CheckedTypesWereApplied ==
    step = "done" /\ IsScan => \A row \in Rows :
        "ORGANIZATION" \in row.checked =>
            \/ \E r \in RowsOf(row.column) : r.type = "ORGANIZATION"
            \/ \E s \in states : \A m \in Matches(s, row.column, "entities") : m[4][1] # "ORGANIZATION"
=============================================================================
