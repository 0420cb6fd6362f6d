------------------------------ MODULE CheckSuite ------------------------------
(***************************************************************************)
(* run_checks (anofox_check_suite.cpp): the checks a checks table defines  *)
(* are read, each is validated and turned into a query, and the queries    *)
(* answer one uniform table of results.  A definition is a record          *)
(*                                                                         *)
(*   [name, type, table, column, lower, upper, monitor, id, filter, plain, *)
(*    params]                                                              *)
(*                                                                         *)
(* column is a sequence of column names, id and filter are a column of the *)
(* target table or Null (the column of a filter holds its outcome on each  *)
(* row), plain says that TRY() can wrap the expressions of the check, and  *)
(* params is a function from the keys of its JSON object to their values.  *)
(***************************************************************************)
EXTENDS Metrics

CONSTANTS
  Edits(_),      \* the checks tables that one change makes of a checks table
  Other,         \* the table a match_rate compares with
  ColumnType,    \* the type of each column of the target
  TargetName,    \* the one target table that exists
  Malformed,     \* a params value of the wrong JSON type
  Now,           \* the current time
  Cases          \* what a run may start from: [target, defs, sources]

VARIABLES
  target,         \* the rows of the target table, as the caller's transaction sees them
  committedDefs,  \* the definitions other connections see
  visibleDefs,    \* the definitions the caller's transaction sees
  uncommitted,    \* whether that transaction has uncommitted changes
  source,         \* "table" (regular or TEMP), "view" or "temp view"
  pc,             \* "idle", "build", "run", "done" or "refused"
  specs,          \* the definitions read
  branches,       \* the queries built so far: the definition, or Error
  results         \* the rows of the result

suiteVars == <<target, committedDefs, visibleDefs, uncommitted, source, pc, specs, branches, results>>

(***************************************************************************)
(* Reading the definitions.                                                *)
(***************************************************************************)
ParamsKeysFor ==
  [volume |-> {}, null_rate |-> {}, distinct_count |-> {}, duplicate_count |-> {},
   regex_match |-> {"pattern"}, values_in_set |-> {"allowed_values"}, agg |-> {"agg"},
   compliance |-> {"expression"}, freshness |-> {"reference_time"}, occurrence |-> {"mode"},
   match_rate |-> {"right_keys", "left_keys"},
   rel_count_change |-> {"date_column", "count_column", "window_days", "reference_date",
                         "fill_missing_days"},
   metric_anomaly_iqr |-> {"date_column", "metric_column", "window_days", "k",
                           "reference_date"},
   rolling_values_in_set |-> {"date_column", "allowed_values", "window_days",
                              "reference_date"},
   schema_check |-> {"columns"}]

CommonParamsKeys(type) == IF type = "schema_check" THEN {} ELSE {"fail_on_empty"}

Has(s, key) == key \in DOMAIN s.params

Param(s, key, default) == IF Has(s, key) THEN s.params[key] ELSE default

\* ParseCheckParams and ValidateParamsKeys; an unknown type is reported later.
ParamsAccepted(s) ==
  /\ \A key \in DOMAIN s.params : s.params[key] # Malformed
  /\ s.type \in DOMAIN ParamsKeysFor =>
       DOMAIN s.params \subseteq ParamsKeysFor[s.type] \cup CommonParamsKeys(s.type)

Shared(defs, name) == name # Null /\ CountIf(defs, LAMBDA s : s.name = name) > 1

\* A definition with a config_error: without a name or a table, with bad params, or with a name
\* that other checks have too.
ConfigError(defs, i) ==
  LET s == defs[i] IN
    s.name = Null \/ s.table = Null \/ ~ParamsAccepted(s) \/ Shared(defs, s.name)

(***************************************************************************)
(* Validation.  A check that is not accepted yields an error row.          *)
(***************************************************************************)
Grouped(s) == s.id # Null

SupportsIdentifier(type) ==
  type \in {"volume", "null_rate", "distinct_count", "regex_match", "values_in_set", "agg",
            "duplicate_count", "compliance", "freshness"}

IsRateCheck(type) ==
  type \in {"null_rate", "regex_match", "values_in_set", "compliance", "match_rate",
            "rolling_values_in_set"}

IsTimeAware(type) == type \in {"rel_count_change", "metric_anomaly_iqr", "rolling_values_in_set"}

LeftKeys(s) == Param(s, "left_keys", s.column)

MetricColumn(s) ==
  Param(s, "metric_column", IF s.column = <<>> THEN Null ELSE s.column[1])

ReferencedColumns(s) ==
  ( CASE s.type = "match_rate" -> ToSet(LeftKeys(s))
      [] s.type \in {"volume", "compliance", "rel_count_change", "schema_check"} -> {}
      [] OTHER -> ToSet(s.column) )
    \cup ({s.id, Param(s, "date_column", Null), Param(s, "count_column", Null),
           Param(s, "metric_column", Null)} \ {Null})

SchemaCheckAccepted(s) ==
  s.type = "schema_check" => s.column = <<>> /\ s.filter = Null /\ Param(s, "columns", {}) # {}

\* Without thresholds a schema_check fails on any missing column.
UpperOf(s) ==
  IF s.type = "schema_check" /\ s.lower = Null /\ s.upper = Null THEN Num(0)
  ELSE NormalizeBound(s.upper)

LowerOf(s) == NormalizeBound(s.lower)

ThresholdsAccepted(s) ==
  /\ BoundsAccepted(s.lower, s.upper)
  /\ IsRateCheck(s.type) => ValidateRate(LowerOf(s)) /\ ValidateRate(UpperOf(s))

IsTimeColumn(c) == ColumnType[c].kind \in TimeKinds
IsNumeric(c)    == ColumnType[c].kind \in NumericKinds

\* What BuildCheckBranch requires of the check's type: RequireColumn, RequireParam and the
\* values each parameter may have.  A suite accepts a negative k.
TypeAccepted(s) ==
  /\ s.type \in {"null_rate", "distinct_count", "regex_match", "values_in_set", "agg",
                 "duplicate_count", "freshness", "occurrence", "rolling_values_in_set"}
       => s.column # <<>>
  /\ ParamsKeysFor[s.type] \cap {"pattern", "allowed_values", "agg", "expression",
                                 "right_keys", "date_column"} \subseteq DOMAIN s.params
  /\ s.type = "agg" => Param(s, "agg", Null) \in {"avg", "min", "max", "sum", "median", "stddev"}
  /\ s.type = "agg" => IsNumeric(s.column[1])
  /\ s.type = "freshness" => IsTimeColumn(s.column[1])
  /\ s.type = "occurrence" => Param(s, "mode", "max") \in {"max", "min"}
  /\ s.type = "match_rate" => LeftKeys(s) # <<>> /\ Len(LeftKeys(s)) = Len(s.params["right_keys"])
  /\ IsTimeAware(s.type) => /\ IsTimeColumn(s.params["date_column"])
                            /\ WindowAccepted(Param(s, "window_days", Null))
  /\ s.type = "metric_anomaly_iqr" =>
       /\ Has(s, "metric_column") /\ s.column # <<>> => s.column[1] = s.params["metric_column"]
       /\ ValidateFiniteDouble(Param(s, "k", Null))

\* BuildValidatedCheckSQL.
Accepted(s, configError) ==
  /\ s.type \in DOMAIN ParamsKeysFor
  /\ ~configError
  /\ SchemaCheckAccepted(s)
  /\ s.table = TargetName
  /\ ReferencedColumns(s) \subseteq DOMAIN ColumnType
  /\ Grouped(s) => SupportsIdentifier(s.type)
  /\ ThresholdsAccepted(s)
  /\ Inf \notin {Param(s, "reference_date", Null), Param(s, "reference_time", Null)}
  /\ TypeAccepted(s)

(***************************************************************************)
(* The value of one check over the rows it evaluates.  A value is Fails    *)
(* where the query raises an error.                                        *)
(***************************************************************************)
\* filter_expr: TRY() keeps a row on which it fails out; without TRY() the query fails.
Kept(s, t) == IF s.filter = Null THEN t ELSE SelectSeq(t, LAMBDA r : r[s.filter] = TRUE)

Raises(s, c, t) == ~s.plain /\ c # Null /\ Fails \in ToSet(Column(t, c))

CheckFails(s, t) ==
  \/ Raises(s, s.filter, t)
  \/ s.type = "compliance" /\ Raises(s, s.params["expression"], Kept(s, t))

(* Mutant: a check without values measures 0 instead of nothing.            *)
RateOfNothing(vs, S) == RateOrZero(CountIf(vs, LAMBDA x : x \in S), Len(vs))

RateOf(vs, S) == RateOrNull(CountIf(vs, LAMBDA x : x \in S), Len(vs))

SuiteReference(s, days) == Param(s, "reference_date", MaxDay(days))

SuiteDays(t, dc) == Days(t, dc) \ {Null}

MissingColumns(s) == Num(Cardinality(s.params["columns"] \ DOMAIN ColumnType))

\* The value of an exact aggregate out of its range is NULL; the row is then an error row.
Measure(s, rows) ==
  LET c  == s.column[1]
      vs == NonNull(Column(rows, c))
  IN  CASE s.type = "volume"          -> Num(Len(rows))
        [] s.type = "null_rate"       -> RateOrZero(CountIf(Column(rows, c), LAMBDA x : x = Null),
                                                    Len(rows))
        [] s.type = "distinct_count"  -> Num(CountDistinct(Column(rows, c)))
        [] s.type = "regex_match"     -> RateOf(vs, s.params["pattern"])
        [] s.type = "values_in_set"   -> RateOf(vs, s.params["allowed_values"])
        [] s.type = "agg"             -> BuildAggregate(s.params["agg"], vs, ColumnType[c]).value
        [] s.type = "duplicate_count" -> Num(DuplicateCount(rows, s.column))
        [] s.type = "compliance"      -> RateOf(Column(rows, s.params["expression"]), {TRUE})
        [] s.type = "freshness"       ->
             LET latest == MaxDay({UtcDate(x) : x \in {y \in ToSet(vs) : ~InfiniteTime(y)}})
             IN  IF latest = Null THEN Null ELSE Num(Param(s, "reference_time", Now) - latest)
        [] s.type = "occurrence"      ->
             (CHOOSE r \in Occurrence(rows, c, Param(s, "mode", "max"), Null, Null).rows : TRUE).value
        [] s.type = "schema_check"    -> MissingColumns(s)

\* The checks over a second table and over time; `t` is the unfiltered table, from which
\* rolling_values_in_set takes its default reference date.
WideMeasure(s, rows, t) ==
  IF s.type = "match_rate" THEN
    LET left  == SelectSeq(Key(rows, LeftKeys(s)), LAMBDA k : ~HasNull(k))
        right == {k \in ToSet(Key(Other, s.params["right_keys"])) : ~HasNull(k)}
    IN  RateOf(left, right)
  ELSE LET dc     == s.params["date_column"]
           window == ReadWindowDays(Param(s, "window_days", Null),
                                    IF s.type = "metric_anomaly_iqr" THEN 30 ELSE 7)
           days   == SuiteDays(rows, dc)
       IN CASE s.type = "rel_count_change" ->
                 LET daily == [d \in days |->
                                 CountRows(RowsOn(rows, dc, d), Param(s, "count_column", Null))]
                 IN  RelChange(daily, SuiteReference(s, days), window,
                               Param(s, "fill_missing_days", FALSE))
            [] s.type = "metric_anomaly_iqr" ->
                 MetricOn([d \in days |-> DayMetric(RowsOn(rows, dc, d), MetricColumn(s))],
                          SuiteReference(s, days), MetricColumn(s))
            [] s.type = "rolling_values_in_set" ->
                 LET ref == SuiteReference(s, SuiteDays(t, dc)) IN
                   RateOf(NonNull(Column(SelectSeq(rows, LAMBDA r :
                            /\ r[dc] # Null
                            /\ ~InfiniteTime(r[dc])
                            /\ BeforeWithin(UtcDate(r[dc]), IF ref = Null THEN Null ELSE ref + 1,
                                            window)), s.column[1])),
                          s.params["allowed_values"])

Value(s, rows, t) ==
  IF s.type = "match_rate" \/ IsTimeAware(s.type) THEN WideMeasure(s, rows, t)
  ELSE Measure(s, rows)

\* metric_anomaly_iqr computes its thresholds; the others have those of the definition.
Thresholds(s, rows) ==
  IF s.type = "metric_anomaly_iqr" THEN
    LET dc    == s.params["date_column"]
        days  == SuiteDays(rows, dc)
        daily == [d \in days |-> DayMetric(RowsOn(rows, dc, d), MetricColumn(s))]
    IN  IqrBounds(PastMetrics(daily, SuiteReference(s, days),
                              ReadWindowDays(Param(s, "window_days", Null), 30)),
                  Param(s, "k", Frac(3, 2)))
  ELSE [lower |-> LowerOf(s), upper |-> UpperOf(s)]

(***************************************************************************)
(* The result rows of one check (BuildBranchSQL).                          *)
(***************************************************************************)
FailStatus(s) == IF s.monitor THEN "warn" ELSE "fail"

FailOnEmpty(s) == Param(s, "fail_on_empty", FALSE)

NullFails(s) ==
  \/ s.type = "freshness"
  \/ s.type = "metric_anomaly_iqr" /\ MetricColumn(s) # Null /\ FailOnEmpty(s)

Overflows(s, rows) ==
  s.type = "agg" /\ BuildAggregate(s.params["agg"], NonNull(Column(rows, s.column[1])),
                                   ColumnType[s.column[1]]).overflow

Violates(s, rows, value) ==
  LET th == Thresholds(s, rows)
      type == ColumnType[s.column[1]]
      exact == BuildAggregate(s.params["agg"], NonNull(Column(rows, s.column[1])), type).exact
  IN  IF s.type = "agg"
      THEN \/ BoundViolation(value, th.lower, exact, type.scale, TRUE)
           \/ BoundViolation(value, th.upper, exact, type.scale, FALSE)
      ELSE Outside(value, th.lower, th.upper)

ValueStatus(s, rows, value) ==
  CASE Overflows(s, rows) -> "error"
    [] value = Null -> IF NullFails(s) THEN FailStatus(s) ELSE "pass"
    [] value = NaN  -> FailStatus(s)
    [] OTHER        -> IF Violates(s, rows, value) THEN FailStatus(s) ELSE "pass"

ResultRow(s, id, status, value) == [name |-> s.name, id |-> id, status |-> status, value |-> value]

ErrorRow(s) == ResultRow(s, Null, "error", Null)

\* One row over the rows kept; with fail_on_empty a check without rows to evaluate fails.
PlainRow(s, rows, t) ==
  IF FailOnEmpty(s) /\ rows = <<>> THEN ResultRow(s, Null, FailStatus(s), Null)
  ELSE LET value == Value(s, rows, t) IN
         ResultRow(s, Null, ValueStatus(s, rows, value), value)

Partition(s, rows, id) == SelectSeq(rows, LAMBDA r : r[s.id] = id)

\* One row per partition.  Without a row there is no partition: a filter or fail_on_empty then
\* adds a row of its own, otherwise nothing reports the check.
PartitionRows(s, rows) ==
  {LET part == Partition(s, rows, id)
       value == Measure(s, part)
   IN  ResultRow(s, id, ValueStatus(s, part, value), value) : id \in ToSet(Column(rows, s.id))}
  \cup
  IF rows = <<>> /\ (s.filter # Null \/ FailOnEmpty(s))
  THEN {ResultRow(s, Null, IF FailOnEmpty(s) \/ NullFails(s) THEN FailStatus(s) ELSE "pass", Null)}
  ELSE {}

CheckRows(s, t) ==
  IF Grouped(s) THEN PartitionRows(s, Kept(s, t)) ELSE {PlainRow(s, Kept(s, t), t)}

(***************************************************************************)
(* The run.                                                                *)
(***************************************************************************)
SuiteInit ==
  /\ \E c \in Cases :
       target = c.target /\ committedDefs = c.defs /\ visibleDefs = c.defs /\ source \in c.sources
  /\ uncommitted = FALSE
  /\ pc = "idle"
  /\ specs = <<>>
  /\ branches = <<>>
  /\ results = {}

\* The caller changes the definitions in its open transaction ...
Modify ==
  /\ pc = "idle"
  /\ ~uncommitted
  /\ visibleDefs' \in Edits(visibleDefs)
  /\ uncommitted' = TRUE
  /\ UNCHANGED <<target, committedDefs, source, pc, specs, branches, results>>

\* ... and another connection commits a change that this transaction does not see.
OtherCommits ==
  /\ pc = "idle"
  /\ committedDefs = visibleDefs
  /\ committedDefs' \in Edits(committedDefs)
  /\ UNCHANGED <<target, visibleDefs, uncommitted, source, pc, specs, branches, results>>

Refuse ==
  /\ pc' = "refused"
  /\ UNCHANGED <<target, committedDefs, visibleDefs, uncommitted, source, specs, branches, results>>

ReadAs(defs) ==
  IF defs = <<>> THEN Refuse
  ELSE /\ specs' = defs
       /\ pc' = "build"
       /\ UNCHANGED <<target, committedDefs, visibleDefs, uncommitted, source, branches, results>>

\* A table is scanned in the caller's transaction.
ScanChecksTableInTransaction == pc = "idle" /\ source = "table" /\ ReadAs(visibleDefs)

\* Anything else is read through a second connection, which sees what is committed now.
ReadChecksThroughConnection ==
  /\ pc = "idle"
  /\ source # "table"
  /\ IF source = "temp view" \/ uncommitted THEN Refuse ELSE ReadAs(committedDefs)

\* The next definition becomes a query, or an error row when it is not accepted.
BuildCheck ==
  /\ pc = "build"
  /\ LET i == Len(branches) + 1 IN
       branches' = Append(branches, IF Accepted(specs[i], ConfigError(specs, i))
                                    THEN [error |-> FALSE, spec |-> specs[i]]
                                    ELSE [error |-> TRUE, spec |-> specs[i]])
  /\ pc' = IF Len(branches') = Len(specs) THEN "run" ELSE "build"
  /\ UNCHANGED <<target, committedDefs, visibleDefs, uncommitted, source, specs, results>>

BranchRows(i, t) ==
  LET b == branches[i] IN
    {[check |-> i] @@ r : r \in IF b.error THEN {ErrorRow(b.spec)} ELSE CheckRows(b.spec, t)}

\* The union of the queries; an expression that cannot be wrapped ends them all.
RunQuery ==
  /\ pc = "run"
  /\ IF \E b \in ToSet(branches) : ~b.error /\ CheckFails(b.spec, target)
     THEN pc' = "refused" /\ results' = {}
     ELSE pc' = "done" /\ results' = UNION {BranchRows(i, target) : i \in DOMAIN branches}
  /\ UNCHANGED <<target, committedDefs, visibleDefs, uncommitted, source, specs, branches>>

SuiteNext ==
  \/ Modify
  \/ OtherCommits
  \/ ScanChecksTableInTransaction
  \/ ReadChecksThroughConnection
  \/ BuildCheck
  \/ RunQuery

SuiteSpec == SuiteInit /\ [][SuiteNext]_suiteVars

(***************************************************************************)
(* Properties.                                                             *)
(***************************************************************************)
\* The direct function a check stands for, over some rows.
Direct(s, rows) ==
  LET c == s.column[1]
      dc == Param(s, "date_column", Null)
      window == Param(s, "window_days", Null)
      allowed == Param(s, "allowed_values", Null)
      dates == [position |-> Null, named |-> Param(s, "reference_date", Null), start |-> Null,
                end |-> Null]
  IN  CASE s.type = "volume"          -> MetricVolume(rows, s.lower, s.upper)
        [] s.type = "null_rate"       -> MetricNullRate(rows, c, s.upper)
        [] s.type = "distinct_count"  -> MetricDistinctCount(rows, c, s.lower, s.upper)
        [] s.type = "regex_match"     ->
             CheckRegexMatch(rows, c, s.params["pattern"], s.lower, s.upper)
        [] s.type = "values_in_set"   -> CheckValuesInSet(rows, c, allowed, s.lower)
        [] s.type = "agg"             ->
             CheckAgg(rows, c, ColumnType[c], s.params["agg"], s.lower, s.upper)
        [] s.type = "duplicate_count" -> CheckDuplicateCount(rows, s.column, s.upper)
        [] s.type = "compliance"      -> CheckCompliance(rows, s.params["expression"], s.lower)
        [] s.type = "freshness"       ->
             MetricFreshness(rows, c, ColumnType[c], s.upper[1], Param(s, "reference_time", Null), Now)
        [] s.type = "occurrence"      ->
             CheckOccurrence(rows, c, Param(s, "mode", "max"), s.lower, s.upper)
        [] s.type = "match_rate"      ->
             CheckMatchRate(rows, Other, LeftKeys(s), s.params["right_keys"], s.lower)
        [] s.type = "schema_check"    -> MetricSchema(DOMAIN ColumnType, s.params["columns"])
        [] s.type = "rel_count_change" ->
             CheckRelCountChange(rows, dc, ColumnType[dc], Param(s, "count_column", Null), window,
                                 s.lower, s.upper, dates, Param(s, "fill_missing_days", FALSE))
        [] s.type = "metric_anomaly_iqr" ->
             CheckMetricAnomalyIQR(rows, dc, ColumnType[dc], MetricColumn(s), window,
                                   Param(s, "k", Null), "both", dates)
        [] s.type = "rolling_values_in_set" ->
             CheckRollingValuesInSet(rows, c, allowed, dc, ColumnType[dc], window, s.lower, dates)

\* The thresholds of the check are ones that its direct function takes.
DirectAccepts(s) ==
  CASE s.type \in {"volume", "distinct_count", "occurrence"} -> CountsAccepted(s.lower, s.upper)
    [] s.type = "null_rate" -> s.lower = Null /\ s.upper # Null
    [] s.type \in {"values_in_set", "compliance", "match_rate", "rolling_values_in_set"} ->
         s.lower # Null /\ s.upper = Null
    [] s.type = "duplicate_count" -> s.lower = Null /\ s.upper # Null /\ ValidateNonNegative(s.upper)
    [] s.type = "freshness" -> s.lower = Null /\ s.upper # Null
    [] s.type = "schema_check" -> s.lower = Null /\ s.upper = Null
    [] s.type = "metric_anomaly_iqr" -> ValidateNonNegative(Param(s, "k", Null))
    [] OTHER -> TRUE

\* Where the two are known to differ: the default reference date of rolling_values_in_set comes
\* from the unfiltered table, and fail_on_empty has no direct counterpart.
Comparable(s) ==
  /\ DirectAccepts(s)
  /\ ~FailOnEmpty(s)
  /\ s.type = "rolling_values_in_set" => s.filter = Null \/ Has(s, "reference_date")

AgreesWith(s, row, direct) ==
  IF direct.error THEN s.type = "compliance" \/ row.status = "error"
  ELSE \E r \in direct.rows :
         /\ row.status = (IF r.status = "fail" THEN FailStatus(s) ELSE r.status)
         /\ row.value = r.value \/ (row.value = Null /\ r.value = Num(0))

RowsOf(s, row) ==
  IF Grouped(s) THEN Partition(s, Kept(s, target), row.id) ELSE Kept(s, target)

\* A check of the suite comes to the status and the value that the direct function of its type
\* gives for the rows of its partition: two code paths that build their SQL on their own.
SuiteAgrees ==
  pc = "done" =>
    \A b \in {x \in ToSet(branches) : ~x.error /\ Comparable(x.spec)} :
      \A row \in {r \in results : r.name = b.spec.name} :
        \/ Grouped(b.spec) /\ Kept(b.spec, target) = <<>>
        \/ AgreesWith(b.spec, row, Direct(b.spec, RowsOf(b.spec, row)))

\* check_name and identifier tell the measurements of a result apart, as a history keyed by them
\* needs: checks that share a name do not run, and only error rows may be ambiguous.
ResultsAreKeyed ==
  \A r, q \in results : r.name = q.name /\ r.id = q.id /\ r.status # "error" => r = q

\* A run that reads its definitions sees the uncommitted changes of the caller, or it refuses.
OwnChangesSeen == uncommitted /\ pc \in {"build", "run", "done"} => specs = visibleDefs

\* With fail_on_empty no check reports success, or nothing, over zero rows, whatever its type,
\* filter and partitioning.
EmptyNeverPasses ==
  pc = "done" =>
    \A b \in ToSet(branches) :
      LET rows == {r \in results : r.name = b.spec.name}
      IN  ~b.error /\ FailOnEmpty(b.spec) /\ Kept(b.spec, target) = <<>> =>
            rows # {} /\ \A r \in rows : r.status \in {"fail", "warn", "error"}

\* "Every check produces its row" (docs/api/07-data-quality.md).
EveryCheckReports ==
  pc = "done" => \A s \in ToSet(specs) : \E r \in results : r.name = s.name

\* The units of a wide column in the target.
TargetUnits(c) == Units(NonNull(Column(target, c)), ColumnType[c])

\* The sum of a wide column: where the plain aggregate runs, no partial sum in any order leaves
\* the range; where the words are summed, the result is the sum, or it is reported as out of
\* range exactly when it is.
WideSumIsExact ==
  pc \in {"done", "refused"} =>
    \A c \in {x \in DOMAIN ColumnType : ColumnType[x].kind = "wide"} :
      LET units == TargetUnits(c)
          Total(S) == MapThenSumSet(LAMBDA i : units[i], S)
          all == Total(DOMAIN units)
      IN  IF SumOverflowRisk(units)
          THEN SplitSum(units).fits = InHugeint(all) /\ (InHugeint(all) => SplitSum(units).total = all)
          ELSE \A S \in SUBSET DOMAIN units : InHugeint(Total(S))

\* The DOUBLEs around a value, and one beyond all digits.
BoundsAround(x) ==
  LET beyond == Num(AsDouble(2 * Base ^ MaxDigits))
      near   == {Plus(x, Num(n)) : n \in -4 .. 4} \cup {Plus(x, Frac(n, 2 * Base)) : n \in -5 .. 5}
  IN  {beyond, Minus(Num(0), beyond)} \cup
      {b \in near : IF b[2] = 1 THEN AsDouble(b[1]) = b[1] ELSE Abs(b[1]) < Mantissa * b[2]}

\* The thresholds that BoundViolationSQL takes to be beyond every value of the type (its comment
\* at 441): 10^38 is, of a DECIMAL, but a HUGEINT reaches 1.7 * 10^38.
BeyondDigits(bound, type) == Abs(bound[1]) >= bound[2] * Base ^ (MaxDigits - type.scale)

FailsBelow(c, agg, bound) ==
  \E r \in CheckAgg(target, c, ColumnType[c], agg, bound, Null).rows : r.status = "fail"

FailsAbove(c, agg, bound) ==
  \E r \in CheckAgg(target, c, ColumnType[c], agg, Null, bound).rows : r.status = "fail"

\* min, max and sum of an exact column are compared with a threshold exactly: neither the cut of
\* the threshold to the scale of the values nor the DOUBLE that is shown, which beyond 2^53 is
\* another number, changes the answer.  (A HUGEINT with a threshold of 39 digits is left to
\* WideBoundIsExact.)
BoundIsExactIn(Compared(_, _)) ==
  pc = "done" =>
    \A s \in {b.spec : b \in ToSet(branches)} :
      LET c    == s.column[1]
          type == ColumnType[c]
          agg  == s.params["agg"]
          x    == AggregateOf(agg, NonNull(Column(target, c)))
      IN  /\ s.type = "agg" /\ agg \in {"min", "max", "sum"} /\ type.kind # "double"
          /\ x # Null
          /\ ~CheckAgg(target, c, type, agg, Null, Null).error
          => \A bound \in {b \in BoundsAround(x) : Compared(b, type)} :
               /\ FailsBelow(c, agg, bound) = Less(x, bound)
               /\ FailsAbove(c, agg, bound) = Less(bound, x)

BoundIsExact ==
  BoundIsExactIn(LAMBDA b, type : type.kind = "wide" => ~BeyondDigits(b, type))

\* The same without the exception, as anofox_check.cpp:440-441 says ("Beyond every value of the
\* exact type").
WideBoundIsExact == BoundIsExactIn(LAMBDA b, type : TRUE)

\* metric_iqr and metric_zscore find the outliers of the exact values of an integer column, as
\* long as the values spread over less than a DOUBLE holds: their size does not matter.
CenteringKeepsOutliers ==
  pc \in {"done", "refused"} =>
    \A c \in {x \in DOMAIN ColumnType : ColumnType[x].kind = "integer"} :
      LET exact == NonNull(Column(target, c))
          units == {x[1] : x \in ToSet(exact)}
          Found(outliers) == OneRow(outliers # {}, Num(Cardinality(outliers)))
      IN  units # {} /\ Max(units) - Min(units) < Mantissa =>
            /\ MetricIQR(target, c, ColumnType[c], Num(1)) = Found(IqrOutliers(exact, Num(1)))
            /\ MetricZscore(target, c, ColumnType[c], Num(1)) = Found(ZscoreOutliers(exact, Num(1)))
===============================================================================
