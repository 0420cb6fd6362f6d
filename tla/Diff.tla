--------------------------------- MODULE Diff ---------------------------------
(***************************************************************************)
(* diff_joindiff, diff_hashdiff and diff_schema (anofox_diff.cpp): a table *)
(* is migrated, and a diff compares what became of it with what it was.    *)
(* The call is rewritten into one FULL OUTER JOIN, which is modelled by    *)
(* what it returns.                                                        *)
(*                                                                         *)
(* A table has a sequence of columns [name, type], whose names are folded  *)
(* to one case, and a sequence of rows, functions from the names to the    *)
(* values.  A number is a fraction <<n, d>>, a timestamp <<t>> counts half *)
(* microseconds, and a text <<spelling, ...>> is the way something is      *)
(* printed.                                                                *)
(***************************************************************************)
EXTENDS SqlValues

CONSTANTS
  Absent,       \* an argument that is not passed
  ExactUpTo,    \* the integers a DOUBLE holds exactly (2^53)
  FloatUpTo,    \* the integers a FLOAT holds exactly (2^24)
  Tables,       \* what the two tables may be before the migration: [old, new]
  Calls,        \* the calls: a sequence of [fn, positional, named]
  ValuesOf,     \* the values that are written into a column of each type
  Retypes,      \* the pairs of types a migration changes columns between
  NewNames,     \* the names it gives to columns
  MaxEdits      \* bound on the steps of a migration

VARIABLES
  tables,       \* the tables of each name
  edits,        \* steps of the migration so far
  call,         \* the last call, an index of Calls, or 0
  outcome       \* what it returned

vars == <<tables, edits, call, outcome>>

(***************************************************************************)
(* Types and the forms in which values are compared.                       *)
(***************************************************************************)
Integral         == {"INTEGER", "BIGINT"}
FloatingPoint    == {"FLOAT", "DOUBLE"}
Numeric          == Integral \cup FloatingPoint \cup {"DECIMAL"}
PlainTimestamps  == {"TIMESTAMP", "TIMESTAMP_NS"}

\* Beyond `exact' every second integer is left; ties go to the even one.
NearestInteger(n, exact) ==
  IF Abs(n) <= exact THEN n ELSE 4 * ((n + 2) \div 4) + (IF n % 4 = 2 THEN -2 ELSE 0)

\* Casts of a number to DOUBLE and to FLOAT.  Of the fractions a DOUBLE holds all that occur, and
\* a FLOAT the halves.
ToDouble(x) == IF ~IsFinite(x) \/ x[2] # 1 THEN x ELSE Num(NearestInteger(x[1], ExactUpTo))

ToFloat(x) ==
  LET halves == (4 * x[1] + x[2]) \div (2 * x[2])
  IN  IF ~IsFinite(x) \/ x[2] = 2 THEN x
      ELSE IF x[2] = 1 THEN Num(NearestInteger(x[1], FloatUpTo))
      ELSE IF halves % 2 = 1 THEN <<halves, 2>>
           ELSE Num(NearestInteger(halves \div 2, FloatUpTo))

\* round(x, digits), halves away from zero.
Rounded(x, digits) ==
  LET unit == 10 ^ digits
      up   == (2 * Abs(x[1]) * unit + x[2]) \div (2 * x[2])
  IN  IF ~IsFinite(x) THEN x ELSE Frac(IF x[1] < 0 THEN -up ELSE up, unit)

UtcTimestamp(v) == IF v = Null THEN Null ELSE <<2 * (v[1] \div 2)>>

Spelling ==
  [INTEGER |-> "digits", BIGINT |-> "digits", DECIMAL |-> "fixed", FLOAT |-> "point",
   DOUBLE |-> "point", TIMESTAMP |-> "time", TIMESTAMP_NS |-> "time", TIMESTAMPTZ |-> "utc time"]

\* CAST AS VARCHAR, and the UTC text of a TIMESTAMP WITH TIME ZONE.
AsText(v, type) ==
  IF v = Null \/ type = "VARCHAR" THEN v
  ELSE IF v \in {NaN, Inf, NegInf} THEN <<"word", v, v>>
       ELSE <<Spelling[type], v[1], v[Len(v)]>>

ByValue(type, other) == type = other \/ {type, other} \subseteq Numeric

(* Mutant: instants of different types compare as text.                     *)
ValueOrText(type, other) == IF ByValue(type, other) THEN "raw" ELSE "text"

ChooseComparisonForm(type, other) ==
  IF ByValue(type, other) THEN "raw"
  ELSE IF "TIMESTAMPTZ" \in {type, other} /\ {type, other} \cap PlainTimestamps # {}
       THEN "utc timestamp"
       ELSE "text"

\* A value in the wider of the two floating point types on the sides.
ToCommon(v, types) ==
  IF "DOUBLE" \in types THEN ToDouble(v)
  ELSE IF "FLOAT" \in types THEN ToFloat(v)
       ELSE v

\* A value of one side in the form in which it is compared with the other side.
SideColumn(v, type, other) ==
  LET form == ChooseComparisonForm(type, other) IN
    IF form = "utc timestamp" THEN UtcTimestamp(v)
    ELSE IF form = "text" THEN AsText(v, type)
         ELSE ToCommon(v, {type, other})

\* What a column of a type holds.
ColumnTypes == Numeric \cup PlainTimestamps \cup {"TIMESTAMPTZ", "VARCHAR"}

IsValue(v, type) ==
  \/ v = Null
  \/ type \in Integral /\ v \in Int \X {1}
  \/ type = "DECIMAL" /\ v \in Int \X (Nat \ {0})
  \/ type \in FloatingPoint /\ v \in (Int \X (Nat \ {0})) \cup {NaN, Inf, NegInf} /\ v = ToCommon(v, {type})
  \/ type = "TIMESTAMP_NS" /\ v \in Seq(Int) /\ Len(v) = 1
  \/ type \in {"TIMESTAMP", "TIMESTAMPTZ"} /\ v \in Seq(Int) /\ Len(v) = 1 /\ v = UtcTimestamp(v)
  \/ type = "VARCHAR" /\ DOMAIN v = 1..3 /\ v \notin {NaN, Inf, NegInf}

(***************************************************************************)
(* Binding: the arguments and the columns.                                 *)
(***************************************************************************)
Names(t) == [i \in DOMAIN t.columns |-> t.columns[i].name]

NameSet(t) == ToSet(Names(t))

TypeOf(t, name) == (CHOOSE c \in ToSet(t.columns) : c.name = name).type

IsRow(t, r) == DOMAIN r = NameSet(t) /\ \A n \in NameSet(t) : IsValue(r[n], TypeOf(t, n))

IsTable(t) ==
  /\ DOMAIN t = {"columns", "rows"}
  /\ t.columns \in Seq([name : STRING, type : ColumnTypes]) /\ IsInjective(Names(t))
  /\ "id" \in NameSet(t)
  /\ t.rows \in Seq(ToSet(t.rows)) /\ \A r \in ToSet(t.rows) : IsRow(t, r)

\* The changes of type a migration makes: those that lose no digit but what a DOUBLE
\* or a FLOAT rounds.
Castable ==
  (ColumnTypes \X {"VARCHAR"}) \cup (Numeric \X FloatingPoint) \cup (Integral \X Numeric)
    \cup {"TIMESTAMP", "TIMESTAMPTZ"} \X (PlainTimestamps \cup {"TIMESTAMPTZ"})

ASSUME TablesAssumption ==
  /\ ExactUpTo \in Nat /\ FloatUpTo \in 0..ExactUpTo /\ MaxEdits \in Nat
  /\ Cardinality({Null, NaN, Inf, NegInf}) = 4
  /\ \A c \in {Null, NaN, Inf, NegInf} : c \notin Int \X Int /\ c \notin Seq(Int)
  /\ \A c \in {Null, NaN, Inf, NegInf} :
       /\ c \notin {Spelling[type] : type \in DOMAIN Spelling} \X Int \X Int
       /\ c \notin {<<"word", v, v>> : v \in {NaN, Inf, NegInf}}
  /\ \A pair \in Tables : \A name \in DOMAIN pair : IsTable(pair[name])
  /\ \A type \in DOMAIN ValuesOf : \A v \in ValuesOf[type] : IsValue(v, type)
  /\ ColumnTypes \subseteq DOMAIN ValuesOf
  /\ Retypes \subseteq Castable
  /\ NewNames \subseteq STRING /\ Calls \in Seq(ToSet(Calls))

\* ResolveArgument: a named value overrides the positional one.
Argument(c, index, name) ==
  IF name \in DOMAIN c.named THEN c.named[name]
  ELSE IF index \in DOMAIN c.positional THEN c.positional[index]
       ELSE Absent

Given(value) == value \notin {Absent, Null}

NamedKeys(c) == {"primary_key", "primary_keys"} \cap DOMAIN c.named

KeyArgument(c) ==
  Argument(c, 3, IF NamedKeys(c) = {} THEN "primary_keys" ELSE CHOOSE n \in NamedKeys(c) : TRUE)

ParseColumnList(value) == IF Given(value) THEN NonNull(value) ELSE <<>>

\* ResolveDiffArguments, and the values each function refuses.
ArgumentsAccepted(c) ==
  /\ Given(Argument(c, 1, "source_table"))
  /\ Given(Argument(c, 2, "target_table"))
  /\ c.fn # "diff_schema" => /\ Cardinality(NamedKeys(c)) <= 1
                             /\ ParseColumnList(KeyArgument(c)) # <<>>
  /\ c.fn = "diff_hashdiff" => /\ Argument(c, 4, "bisection_threshold") = Absent
                               /\ Argument(c, 5, "bisection_factor") = Absent

OptionalNamed(c, name, default) ==
  IF name \in DOMAIN c.named /\ c.named[name] # Null THEN c.named[name] ELSE default

ToleranceAccepted(x) == IsFinite(x) /\ ~Less(x, Num(0))

OptionsAccepted(c) ==
  /\ c.fn = "diff_joindiff" => ToleranceAccepted(OptionalNamed(c, "float_tolerance", Num(0)))
  /\ c.fn = "diff_hashdiff" => OptionalNamed(c, "float_precision", 0) >= 0

TheTable(c, index, name) == tables[Argument(c, index, name)]

TablesExist(c) ==
  {Argument(c, 1, "source_table"), Argument(c, 2, "target_table")} \subseteq DOMAIN tables

\* The markers of the two sides, and the columns the diff adds to those of the target.
Markers       == {"source marker", "target marker"}
OutputColumns == {"diff_type", "changed_columns"}

\* The default: every column both tables have, but the key.  The order of the compared columns,
\* which only changed_columns shows, is left out.
SharedColumns(S, T, keys) == (NameSet(S) \cap NameSet(T)) \ ToSet(keys)

CompareArgument(c) ==
  IF c.fn = "diff_hashdiff" THEN <<>> ELSE ParseColumnList(Argument(c, 4, "compare_columns"))

Plan(c, S, T) ==
  LET keys == ParseColumnList(KeyArgument(c)) IN
    [keys      |-> keys,
     compare   |-> IF CompareArgument(c) # <<>> THEN ToSet(CompareArgument(c))
                   ELSE SharedColumns(S, T, keys),
     tolerance |-> IF c.fn = "diff_joindiff" THEN OptionalNamed(c, "float_tolerance", Num(0))
                   ELSE Num(0),
     precision |-> IF c.fn = "diff_hashdiff" THEN OptionalNamed(c, "float_precision", Null)
                   ELSE Null,
     all       |-> c.fn = "diff_joindiff" /\ Argument(c, 5, "include_all") = TRUE]

ColumnsAccepted(c, S, T) ==
  /\ NameSet(S) \cap Markers = {}
  /\ NameSet(T) \cap (Markers \cup OutputColumns) = {}
  /\ ToSet(ParseColumnList(KeyArgument(c))) \cup ToSet(CompareArgument(c))
       \subseteq NameSet(S) \cap NameSet(T)

(***************************************************************************)
(* The query.                                                              *)
(***************************************************************************)
KeyOf(t, i, keys) == [k \in DOMAIN keys |-> t.rows[i][keys[k]]]

\* GROUP BY the key HAVING COUNT( * ) > 1: NULLs group together.
RepeatedKeys(t, keys) ==
  {KeyOf(t, i, keys) : i \in {i \in DOMAIN t.rows :
                                \E j \in DOMAIN t.rows : i # j /\ KeyOf(t, i, keys) = KeyOf(t, j, keys)}}

\* BuildUniqueKeyGuard: the side whose repeated key raises the error, the source first.
Guard(S, T, keys) ==
  IF RepeatedKeys(S, keys) # {} THEN "source"
  ELSE IF RepeatedKeys(T, keys) # {} THEN "target"
       ELSE "none"

\* The values of one column in a pair of joined rows, in the form they are compared in.
SourceValue(S, T, n, i) == SideColumn(S.rows[i][n], TypeOf(S, n), TypeOf(T, n))
TargetValue(S, T, n, j) == SideColumn(T.rows[j][n], TypeOf(T, n), TypeOf(S, n))

Distance(x, y) == LET d == Minus(x, y) IN <<Abs(d[1]), d[2]>>

\* A difference that is NaN or infinite is above every tolerance.
WithinTolerance(x, y, tolerance) ==
  /\ IsFinite(x)
  /\ IsFinite(y)
  /\ ~Less(tolerance, Distance(ToDouble(x), ToDouble(y)))

RoundedSide(v, type, other, precision) ==
  IF ByValue(type, other) /\ precision # Null /\ type \in FloatingPoint
  THEN ToCommon(Rounded(v, precision), {type}) ELSE v

(* Mutant: <> instead of IS DISTINCT FROM.                                  *)
UnequalValues(x, y) == x # y /\ Null \notin {x, y}

DistinctValues(x, y) == x # y

ColumnDiffers(S, T, n, i, j, plan) ==
  LET st == TypeOf(S, n)
      tt == TypeOf(T, n)
      x  == RoundedSide(SourceValue(S, T, n, i), st, tt, plan.precision)
      y  == RoundedSide(TargetValue(S, T, n, j), tt, st, plan.precision)
  IN  /\ DistinctValues(x, y)
      /\ ~ /\ Less(Num(0), plan.tolerance)
           /\ {st, tt} \subseteq Numeric
           /\ WithinTolerance(x, y, plan.tolerance)

(* Mutant: the key is matched with = instead of IS NOT DISTINCT FROM.       *)
KeysEqual(S, T, keys, i, j) ==
  \A k \in ToSet(keys) : /\ SourceValue(S, T, k, i) = TargetValue(S, T, k, j)
                         /\ S.rows[i][k] # Null

KeysMatch(S, T, keys, i, j) ==
  \A k \in ToSet(keys) : SourceValue(S, T, k, i) = TargetValue(S, T, k, j)

\* The pairs of row numbers the FULL OUTER JOIN returns; 0 where a side has no row.
Joined(S, T, keys) ==
  LET pairs == {p \in (DOMAIN S.rows) \X (DOMAIN T.rows) : KeysMatch(S, T, keys, p[1], p[2])} IN
    pairs \cup {<<i, 0>> : i \in DOMAIN S.rows \ {p[1] : p \in pairs}}
          \cup {<<0, j>> : j \in DOMAIN T.rows \ {p[2] : p \in pairs}}

ChangedColumns(S, T, p, plan) ==
  IF 0 \in {p[1], p[2]} THEN Null
  ELSE {n \in plan.compare : ColumnDiffers(S, T, n, p[1], p[2], plan)}

DiffType(p, changed) ==
  IF p[1] = 0 THEN "added"
  ELSE IF p[2] = 0 THEN "removed"
  ELSE IF changed = {} THEN "unchanged"
  ELSE "changed"

\* The key is the COALESCE of both sides; the other columns are those of the target.  `from' is
\* the pair of rows behind a row of the diff.
DiffRow(S, T, p, plan) ==
  LET changed == ChangedColumns(S, T, p, plan) IN
    [from    |-> p,
     type    |-> DiffType(p, changed),
     key     |-> [k \in DOMAIN plan.keys |->
                    IF p[1] # 0 THEN SourceValue(S, T, plan.keys[k], p[1])
                    ELSE TargetValue(S, T, plan.keys[k], p[2])],
     values  |-> [n \in NameSet(T) \ ToSet(plan.keys) |->
                    IF p[2] = 0 THEN Null ELSE T.rows[p[2]][n]],
     changed |-> changed]

Refused        == [status |-> "refused"]
Raised(side)   == [status |-> "error", side |-> side]
Returned(rows) == [status |-> "rows", rows |-> rows]

RowDiff(S, T, plan) ==
  LET rows == {DiffRow(S, T, p, plan) : p \in Joined(S, T, plan.keys)}
  IN  IF Guard(S, T, plan.keys) # "none" THEN Raised(Guard(S, T, plan.keys))
      ELSE Returned(IF plan.all THEN rows ELSE {r \in rows : r.type # "unchanged"})

(***************************************************************************)
(* diff_schema.                                                            *)
(***************************************************************************)
\* ComputeSchemaDrift, a drift for every column of either table.
SchemaDrift(S, T) ==
  [n \in NameSet(S) \cup NameSet(T) |->
     CASE n \notin NameSet(T)          -> "removed"
       [] n \notin NameSet(S)          -> "added"
       [] TypeOf(S, n) = TypeOf(T, n)  -> "same"
       [] OTHER                        -> "retyped"]

(***************************************************************************)
(* A call.                                                                 *)
(***************************************************************************)
Answer(c, S, T) ==
  IF c.fn = "diff_schema" THEN Returned(SchemaDrift(S, T))
  ELSE IF ColumnsAccepted(c, S, T) THEN RowDiff(S, T, Plan(c, S, T))
       ELSE Refused

Call(i) ==
  LET c == Calls[i] IN
    /\ call = 0
    /\ call' = i
    /\ outcome' = IF ArgumentsAccepted(c) /\ OptionsAccepted(c) /\ TablesExist(c)
                  THEN Answer(c, TheTable(c, 1, "source_table"), TheTable(c, 2, "target_table"))
                  ELSE Refused
    /\ UNCHANGED <<tables, edits>>

(***************************************************************************)
(* The migration: DuckDB's INSERT, DELETE, UPDATE and ALTER TABLE.         *)
(***************************************************************************)
Edit(name, t) ==
  /\ call = 0
  /\ edits < MaxEdits
  /\ edits' = edits + 1
  /\ tables' = [tables EXCEPT ![name] = t]
  /\ UNCHANGED <<call, outcome>>

Insert(name) ==
  LET t == tables[name] IN
    \E key \in ValuesOf[TypeOf(t, "id")], i \in DOMAIN t.rows :
      Edit(name, [t EXCEPT !.rows = Append(@, [t.rows[i] EXCEPT !["id"] = key])])

Delete(name) ==
  LET t == tables[name] IN
    \E i \in DOMAIN t.rows : Edit(name, [t EXCEPT !.rows = RemoveAt(@, i)])

Update(name) ==
  LET t == tables[name] IN
    \E i \in DOMAIN t.rows, n \in NameSet(t) : \E v \in ValuesOf[TypeOf(t, n)] :
      v # t.rows[i][n] /\ Edit(name, [t EXCEPT !.rows[i][n] = v])

\* What ALTER COLUMN TYPE makes of a value, under the time zone UTC.
Cast(v, from, to) ==
  IF to = "VARCHAR" THEN AsText(v, from)
  ELSE IF from \in Numeric THEN ToCommon(v, {to})
       ELSE v

Retype(name) ==
  LET t == tables[name] IN
    \E i \in DOMAIN t.columns, r \in Retypes :
      LET n == t.columns[i].name IN
        /\ t.columns[i].type = r[1]
        /\ Edit(name, [columns |-> [t.columns EXCEPT ![i].type = r[2]],
                       rows    |-> [j \in DOMAIN t.rows |->
                                      [t.rows[j] EXCEPT ![n] = Cast(@, r[1], r[2])]]])

Rename(name) ==
  LET t == tables[name] IN
    \E i \in DOMAIN t.columns, new \in NewNames \ NameSet(t) :
      LET n == t.columns[i].name
          old(m) == IF m = new THEN n ELSE m
      IN  /\ n # "id"
          /\ Edit(name, [columns |-> [t.columns EXCEPT ![i].name = new],
                         rows    |-> [j \in DOMAIN t.rows |->
                                        [m \in (NameSet(t) \ {n}) \cup {new} |-> t.rows[j][old(m)]]]])

Migrate(name) == Insert(name) \/ Delete(name) \/ Update(name) \/ Retype(name) \/ Rename(name)

Init ==
  /\ tables \in Tables
  /\ edits = 0
  /\ call = 0
  /\ outcome = Absent

Next == Migrate("new") \/ \E i \in DOMAIN Calls : Call(i)

Spec == Init /\ [][Next]_vars
-------------------------------------------------------------------------------
(***************************************************************************)
(* Properties.                                                             *)
(***************************************************************************)
TypeOK ==
  /\ \A name \in DOMAIN tables : IsTable(tables[name])
  /\ edits \in 0..MaxEdits
  /\ call \in 0..Len(Calls)

TheCall   == Calls[call]
TheSource == TheTable(TheCall, 1, "source_table")
TheTarget == TheTable(TheCall, 2, "target_table")
ThePlan   == Plan(TheCall, TheSource, TheTarget)

RowsReturned == call # 0 /\ outcome # Refused /\ TheCall.fn # "diff_schema" /\ outcome.status = "rows"

\* A row as the diff sees it: the values of its key and of the other compared columns.
Beside(plan) == plan.compare \ ToSet(plan.keys)

SourceView(S, T, plan, i) ==
  [key  |-> [k \in DOMAIN plan.keys |-> SourceValue(S, T, plan.keys[k], i)],
   rest |-> [n \in Beside(plan) |-> SourceValue(S, T, n, i)]]

TargetView(S, T, plan, j) ==
  [key  |-> [k \in DOMAIN plan.keys |-> TargetValue(S, T, plan.keys[k], j)],
   rest |-> [n \in Beside(plan) |-> TargetValue(S, T, n, j)]]

ReportedView(S, T, plan, r) ==
  [key  |-> r.key,
   rest |-> [n \in Beside(plan) |-> SideColumn(r.values[n], TypeOf(T, n), TypeOf(S, n))]]

\* An exact diff misses nothing: the source without the removed and the changed rows, with the
\* added rows and the new state of the changed ones, is the target in the compared columns
\* (GenerateJoinDiffSQL, ColumnDiffersSQL; NULL keys, NULL values and retyped columns included).
PatchGivesTarget ==
  RowsReturned /\ ThePlan.tolerance = Num(0) /\ ThePlan.precision = Null =>
    LET S        == TheSource
        T        == TheTarget
        plan     == ThePlan
        reported == {r.key : r \in outcome.rows}
        kept     == {SourceView(S, T, plan, i) : i \in DOMAIN S.rows}
        written  == {ReportedView(S, T, plan, r) : r \in {r \in outcome.rows : r.type # "removed"}}
    IN  {v \in kept : v.key \notin reported} \cup written
          = {TargetView(S, T, plan, j) : j \in DOMAIN T.rows}

\* A column of the one type whose values stay apart in the form they are compared in with the
\* other type: no DOUBLE or FLOAT is made of a wider number, and no nanoseconds are cut.
StaysApart(type, other) ==
  /\ type \in Numeric /\ other \in FloatingPoint => type \in FloatingPoint
  /\ ~(type = "TIMESTAMP_NS" /\ other = "TIMESTAMPTZ")

KeysStayApart ==
  \A k \in ToSet(ThePlan.keys) :
    LET st == TypeOf(TheSource, k)
        tt == TypeOf(TheTarget, k)
    IN  StaysApart(st, tt) /\ StaysApart(tt, st)

\* "With a repeated key every source row joins every target row of that key and the diff reports
\* false changes" (anofox_diff.cpp:403): a diff that returns rows has no two with one key.  It
\* may: the guard groups the stored keys, the join compares them in another form.
KeysAreDistinct ==
  RowsReturned => \A r, s \in outcome.rows : r.key = s.key => r = s

Mirrored(type) == CASE type = "added" -> "removed" [] type = "removed" -> "added" [] OTHER -> type

\* The diff in the other direction is the same diff read backwards: whatever the types on both
\* sides, the NULLs and the tolerance, added and removed swap and a change names the same columns.
ReversedDiffMirrors ==
  LET back == RowDiff(TheTarget, TheSource, ThePlan)
      Essence(rows, backward) ==
        {[key |-> r.key, type |-> IF backward THEN Mirrored(r.type) ELSE r.type,
          changed |-> r.changed] : r \in rows}
  IN  RowsReturned => back.status = "rows" /\ Essence(back.rows, TRUE) = Essence(outcome.rows, FALSE)

Became(n, i, j) ==
  TheTarget.rows[j][n] = Cast(TheSource.rows[i][n], TypeOf(TheSource, n), TypeOf(TheTarget, n))

\* Only the type changed: from DOUBLE to FLOAT only where FLOAT holds the value.
OnlyRetyped(n, i, j) ==
  /\ Became(n, i, j)
  /\ TypeOf(TheSource, n) = "DOUBLE" /\ TypeOf(TheTarget, n) = "FLOAT" =>
       TheTarget.rows[j][n] = TheSource.rows[i][n]

\* Without rounding, what only changed its type is not reported: a row of the target whose
\* compared columns hold what ALTER TYPE makes of the values of a source row is not a change, and
\* a key that was only retyped is found again (docs/api/09-diffing.md:89-95, of the text form and
\* of numeric changes; ChooseComparisonForm, SideColumnSQL).
OnlyEditsReported ==
  RowsReturned /\ Argument(TheCall, 1, "source_table") = "old" /\ ThePlan.precision = Null =>
    \A r \in outcome.rows :
      /\ r.type = "changed" =>
           \E n \in r.changed : ~OnlyRetyped(n, r.from[1], r.from[2])
      /\ r.type = "removed" =>
           \A j \in DOMAIN TheTarget.rows :
             \E k \in ToSet(ThePlan.keys) : ~OnlyRetyped(k, r.from[1], j)
      /\ r.type = "added" =>
           \A i \in DOMAIN TheSource.rows :
             \E k \in ToSet(ThePlan.keys) : ~OnlyRetyped(k, i, r.from[2])

\* "With float_precision, values that agree to that many decimal digits are equal"
\* (docs/api/09-diffing.md:542).  They are not where one side is a DECIMAL or an integer, which
\* the code does not round (anofox_diff.cpp:477-483).
RoundedValuesAgree ==
  RowsReturned /\ ThePlan.precision # Null =>
    \A r \in {r \in outcome.rows : r.type = "changed"} : \A n \in r.changed :
      LET types == {TypeOf(TheSource, n), TypeOf(TheTarget, n)}
          x     == TheSource.rows[r.from[1]][n]
          y     == TheTarget.rows[r.from[2]][n]
      IN  types \subseteq Numeric /\ types \cap FloatingPoint # {} /\ Null \notin {x, y} =>
            Rounded(x, ThePlan.precision) # Rounded(y, ThePlan.precision)

\* "Run it before a row diff to see which columns the diff compares" (docs/api/09-diffing.md, on
\* diff_schema): a row diff with the default columns compares exactly the columns diff_schema
\* finds on both sides, and the columns it adds and drops are the ones the diff leaves out.
SchemaTellsCompared ==
  LET drift == SchemaDrift(TheSource, TheTarget)
      both  == {n \in DOMAIN drift : drift[n] \in {"same", "retyped"}}
      onlyTarget == {n \in DOMAIN drift : drift[n] = "added"}
  IN  RowsReturned /\ CompareArgument(TheCall) = <<>> =>
        /\ ThePlan.compare = both \ ToSet(ThePlan.keys)
        /\ \A r \in outcome.rows :
             DOMAIN r.values = ThePlan.compare \cup onlyTarget
===============================================================================
