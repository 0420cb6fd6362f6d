------------------------------- MODULE Profile -------------------------------
(***************************************************************************)
(* profile_summary, profile_table and profile_correlations                 *)
(* (anofox_profile.cpp).  A call first resolves the table in the caller's  *)
(* connection, then reads it on a sibling connection, in several queries   *)
(* between which other connections commit; the last part of a summary      *)
(* reads it in the caller's own transaction.                               *)
(*                                                                         *)
(* A column is a record [name, type, words, kind, scale, digits, family]:  *)
(* the name of its type (LIST for any T[]), the words the text of the type *)
(* contains, how its values are kept (module Checks, "none" when they are  *)
(* only counted) and, for the properties, what the docs call it.  Lengths, *)
(* patterns, skewness and kurtosis are left out; a standard deviation and  *)
(* a correlation are squared.                                              *)
(***************************************************************************)
EXTENDS Metrics

CONSTANTS
  TableColumns,   \* the columns of the table
  States,         \* what the table may hold at first
  NewRows,        \* the rows that are inserted
  SampleSizes,    \* sample_size
  TopValues,      \* how many values top_values lists (5)
  NarrowDigits,   \* the widest DECIMAL whose sum cannot overflow (18)
  MaxRows,        \* bound on the rows of the table
  MaxCommits      \* bound on the commits of other connections

VARIABLES
  committed,      \* the rows other connections see
  snapshot,       \* the rows the caller's open transaction sees, or Null
  dirty,          \* whether that transaction has uncommitted changes
  commits,        \* commits of other connections so far
  stage,          \* "idle", "resolved", "bound", "counted", "done", "refused" or "raised"
  request,        \* [fn, sample, exact]
  view,           \* the rows the caller's own transaction sees
  seen,           \* the committed rows there have been during the call
  announced,      \* total_nulls, or the actual row count
  report          \* the result

session == <<committed, snapshot, dirty, commits>>
profileVars == <<session, stage, request, view, seen, announced, report>>

(***************************************************************************)
(* Column types.                                                           *)
(***************************************************************************)
Nested == {"STRUCT", "MAP", "UNION", "LIST"}

\* The first match counts: nested types contain the names of others, and INTERVAL contains INT.
ClassifyColumn(c) ==
  IF c.type \in Nested THEN "complex"
  ELSE IF c.type = "INTERVAL" THEN "temporal"
  ELSE IF c.words \cap {"INT", "DECIMAL", "NUMERIC"} # {} \/ c.type \in {"DOUBLE", "FLOAT"} THEN "numeric"
  ELSE IF c.type = "BLOB" \/ "VARCHAR" \in c.words THEN "string"
  ELSE IF c.type = "BOOLEAN" THEN "boolean"
  ELSE IF c.words \cap {"DATE", "TIMESTAMP", "TIME"} # {} THEN "temporal"
  ELSE "other"

IsNumericColumn(c) == ClassifyColumn(c) = "numeric"

(***************************************************************************)
(* profile_summary.                                                        *)
(***************************************************************************)
ComputeTotalNulls(t) ==
  FoldLeft(LAMBDA n, c : n + CountIf(Column(t, c.name), LAMBDA x : x = Null), 0, TableColumns)

\* Rows beyond the first of each GROUP BY ALL.
DuplicateRows(t) == Len(t) - Cardinality(ToSet(t))

Summary(t, nulls) ==
  [rows       |-> Len(t),
   buckets    |-> [f \in {"numeric", "string", "temporal", "boolean", "complex", "other"} |->
                     CountIf(TableColumns, LAMBDA c : ClassifyColumn(c) = f)],
   nulls      |-> nulls,
   nullRate   |-> RateOrZero(nulls, Len(t) * Len(TableColumns)),
   duplicates |-> DuplicateRows(t)]

(***************************************************************************)
(* profile_table.                                                          *)
(***************************************************************************)
\* ProfileOverflowBoundSQL: the types whose sum may overflow.
OverflowBound(c) == c.kind = "wide" \/ (c.kind = "decimal" /\ c.digits > NarrowDigits)

\* TRY_CAST AS DOUBLE: a value that is no number is NULL.
NumbersOf(t, c) == IF c.kind = "none" THEN <<>> ELSE NonNull(Column(t, c.name))

FiniteOf(t, c) == FiniteValues(NumbersOf(t, c))

\* The exact sum would leave the range of the type, and AVG raises an error.
SumOverflows(units, c) ==
  \E sign \in {1, -1} :
    LET sum == FoldLeft(LAMBDA a, u : a + Max({sign * u, 0}), 0, units) IN
      IF c.kind = "wide" THEN ~InHugeint(sum) ELSE sum >= Limit

Spread(units) == IF units = <<>> THEN 0 ELSE Max(ToSet(units)) - Min(ToSet(units))

\* Where a partial sum might overflow the mean is NULL.
ProfileMean(t, c) ==
  LET s == FiniteOf(t, c) IN
    IF OverflowBound(c) /\ SumOverflowRisk(Units(s, c)) THEN Null
    ELSE IF OverflowBound(c) /\ SumOverflows(Units(s, c), c) THEN Fails
         ELSE AvgOf(s)

(* Mutant: the spread of the values turned into DOUBLEs.                    *)
CastVariance(t, c) ==
  LET s == FiniteOf(t, c) IN
    Variance(IF c.kind = "double" THEN s ELSE [i \in DOMAIN s |-> Num(AsDouble(s[i][1]))])

\* STDDEV_SAMP of the centred values; of a DECIMAL, NULL where a difference might overflow.
ProfileVariance(t, c) ==
  LET s == FiniteOf(t, c) IN
    IF c.kind = "none" THEN Variance(s)
    ELSE IF c.kind = "decimal" /\ OverflowBound(c) /\ Spread(Units(s, c)) >= RiskBound THEN Null
    ELSE IF ~CenteringFits(t, c.name, c) THEN Fails
         ELSE Variance(FiniteValues(CenteredValues(t, c.name, c)))

Top(s) ==
  LET Frequency(v) == CountIf(s, LAMBDA x : x = v)
      sorted == SortSeq(SetToSeq(ToSet(s)),
                        LAMBDA v, w : \/ Frequency(v) > Frequency(w)
                                      \/ Frequency(v) = Frequency(w) /\ Less(v, w))
  IN  SubSeq(sorted, 1, Min({TopValues, Len(sorted)}))

NumericStatistics(t, c) ==
  LET all == NumbersOf(t, c)
      s   == FiniteOf(t, c)
  IN  [mean     |-> ProfileMean(t, c),
       quartile |-> [q \in 0..4 |-> QuartileOf(s, q)],
       variance |-> ProfileVariance(t, c),
       zeros    |-> CountIf(all, LAMBDA x : x = Num(0)),
       negative |-> CountIf(all, LAMBDA x : Less(x, Num(0))),
       nans     |-> CountIf(all, LAMBDA x : x = NaN),
       infs     |-> CountIf(all, LAMBDA x : x \in {Inf, NegInf}),
       top      |-> Top(s)]

BuildColumnProfile(t, c) ==
  LET all == Column(t, c.name) IN
    [rows     |-> Len(t),
     nulls    |-> CountIf(all, LAMBDA x : x = Null),
     distinct |-> CountDistinct(all),
     unique   |-> CountDistinct(all) = Len(NonNull(all)),
     constant |-> CountDistinct(all) <= 1,
     numeric  |-> IF IsNumericColumn(c) THEN NumericStatistics(t, c) ELSE Null]

\* One query profiles all columns of the rows it scans.
ProfileOf(t) == [k \in DOMAIN TableColumns |-> BuildColumnProfile(t, TableColumns[k])]

QueryFails(profile) ==
  \E k \in DOMAIN profile :
    profile[k].numeric # Null /\ Fails \in {profile[k].numeric.mean, profile[k].numeric.variance}

IsSampled == ~request.exact /\ announced > request.sample

\* A reservoir sample of n rows, or all of them when there are fewer.
Samples(t, n) ==
  {LET chosen == SetToSortSeq(S, <) IN [i \in DOMAIN chosen |-> t[chosen[i]]] :
     S \in kSubset(Min({n, Len(t)}), DOMAIN t)}

Scans(t) == IF IsSampled THEN Samples(t, request.sample) ELSE {t}

(***************************************************************************)
(* profile_correlations.                                                   *)
(***************************************************************************)
FinitePairs(t, a, b) ==
  SelectSeq(t, LAMBDA r : \A c \in {a, b} : c.kind # "none" /\ IsFinite(r[c.name]))

\* The values of a column on the pairs, centred on a reference taken from the whole table.
PairValues(t, pairs, c) ==
  IF c.kind = "double" \/ pairs = <<>> THEN Column(pairs, c.name)
  ELSE LET ref == CenteringReference(ToSet(Units(NonNull(Column(t, c.name)), c)), c)
           own == Units(Column(pairs, c.name), c)
       IN  [i \in DOMAIN own |-> Frac(AsDouble(own[i] - ref), Base ^ c.scale)]

(* Mutant: ranks among all rows of the table.                               *)
RanksOfAll(t, pairs, c) ==
  [i \in DOMAIN pairs |-> Num(1 + CountIf(t, LAMBDA r : Less(r[c.name], pairs[i][c.name])))]

Ranks(t, pairs, c) ==
  [i \in DOMAIN pairs |-> Num(1 + CountIf(pairs, LAMBDA r : Less(r[c.name], pairs[i][c.name])))]

Covariance(x, y) ==
  LET mx == AvgOf(x)
      my == AvgOf(y)
  IN  SumOf([i \in DOMAIN x |-> Times(Minus(x[i], mx), Minus(y[i], my))])

Quotient(a, b) == Frac(a[1] * b[2], a[2] * b[1])

\* CORR as [sign, square], NULL where it is undefined (ClampUnitSQL).
Corr(x, y) ==
  LET cov == Covariance(x, y)
      var == Times(Covariance(x, x), Covariance(y, y))
  IN  IF Len(x) = 0 \/ var = Num(0) THEN Null
      ELSE [sign |-> IF cov[1] < 0 THEN -1 ELSE IF cov[1] = 0 THEN 0 ELSE 1,
            square |-> Quotient(Times(cov, cov), var)]

NumericColumns == SelectSeq(TableColumns, IsNumericColumn)

PairsOfColumns == {p \in (DOMAIN NumericColumns) \X (DOMAIN NumericColumns) : p[1] < p[2]}

\* The difference of a value to the reference may leave its exact type.
CenteringFails(t, a, b) ==
  \E c \in {a, b} :
    c.kind \notin {"double", "none"} /\
      LET units == ToSet(Units(NonNull(Column(t, c.name)), c)) IN
        \E u \in ToSet(Units(Column(FinitePairs(t, a, b), c.name), c)) : ~DifferenceFits(u, units, c)

Correlation(t, p) ==
  LET a == NumericColumns[p[1]]
      b == NumericColumns[p[2]]
      pairs == FinitePairs(t, a, b)
  IN  [n        |-> Len(pairs),
       pearson  |-> Corr(PairValues(t, pairs, a), PairValues(t, pairs, b)),
       spearman |-> Corr(Ranks(t, pairs, a), Ranks(t, pairs, b))]

Correlations(t) == [p \in PairsOfColumns |-> Correlation(t, p)]

(***************************************************************************)
(* The connections.                                                        *)
(***************************************************************************)
InCall == stage \in {"resolved", "bound", "counted"}

\* What the caller's own queries read.
CallerView == IF snapshot = Null THEN committed ELSE snapshot

RowChanges(t) ==
  {Append(t, r) : r \in IF Len(t) < MaxRows THEN NewRows ELSE {}}
    \cup {RemoveAt(t, i) : i \in DOMAIN t}

\* Another connection commits.
Commit ==
  /\ commits < MaxCommits
  /\ stage \notin {"done", "refused", "raised"}
  /\ \E t \in RowChanges(committed) :
       /\ committed' = t
       /\ seen' = IF InCall THEN seen \cup {t} ELSE seen
  /\ commits' = commits + 1
  /\ UNCHANGED <<snapshot, dirty, stage, request, view, announced, report>>

Begin ==
  /\ stage = "idle" /\ snapshot = Null
  /\ snapshot' = committed
  /\ UNCHANGED <<committed, dirty, commits, stage, request, view, seen, announced, report>>

\* The caller changes the table in its transaction.
Change ==
  /\ stage = "idle" /\ snapshot # Null /\ ~dirty
  /\ snapshot' \in RowChanges(snapshot)
  /\ dirty' = TRUE
  /\ UNCHANGED <<committed, commits, stage, request, view, seen, announced, report>>

(***************************************************************************)
(* The calls.                                                              *)
(***************************************************************************)
Requests ==
  [fn : {"summary", "correlations"}, sample : {0}, exact : {TRUE}]
    \cup [fn : {"table"}, sample : SampleSizes, exact : BOOLEAN]

RejectUncommittedChanges == dirty

\* Bind: the transaction guard, and the columns in the caller's connection.
BindProfile ==
  /\ stage = "idle"
  /\ request' \in Requests
  /\ stage' = IF RejectUncommittedChanges THEN "refused"
              ELSE IF request'.fn = "summary" THEN "resolved" ELSE "bound"
  /\ view' = CallerView
  /\ seen' = {committed}
  /\ UNCHANGED <<session, announced, report>>

\* profile_summary counts the NULLs while it binds, on the sibling connection.
ReadNulls ==
  /\ stage = "resolved"
  /\ stage' = "bound"
  /\ announced' = ComputeTotalNulls(committed)
  /\ UNCHANGED <<session, request, view, seen, report>>

\* The rest of a summary is part of the caller's query.
Summarize ==
  /\ stage = "bound" /\ request.fn = "summary"
  /\ stage' = "done"
  /\ report' = Summary(view, announced)
  /\ UNCHANGED <<session, request, view, seen, announced>>

\* profile_table counts the rows first, to decide whether it samples.
CountAllRows ==
  /\ stage = "bound" /\ request.fn = "table"
  /\ stage' = "counted"
  /\ announced' = Len(committed)
  /\ UNCHANGED <<session, request, view, seen, report>>

ProfileRows ==
  /\ stage = "counted"
  /\ \E s \in Scans(committed) :
       LET profile == ProfileOf(s) IN
         IF QueryFails(profile)
         THEN stage' = "raised" /\ UNCHANGED report
         ELSE /\ stage' = "done"
              /\ report' = [columns |-> profile, sampled |-> IsSampled,
                            size |-> IF IsSampled THEN request.sample ELSE announced]
  /\ UNCHANGED <<session, request, view, seen, announced>>

Correlate ==
  /\ stage = "bound" /\ request.fn = "correlations"
  /\ IF \E p \in PairsOfColumns : CenteringFails(committed, NumericColumns[p[1]], NumericColumns[p[2]])
     THEN stage' = "raised" /\ UNCHANGED report
     ELSE stage' = "done" /\ report' = Correlations(committed)
  /\ UNCHANGED <<session, request, view, seen, announced>>

ProfileInit ==
  /\ committed \in States
  /\ snapshot = Null /\ dirty = FALSE /\ commits = 0
  /\ stage = "idle"
  /\ request = Null /\ view = Null /\ seen = {} /\ announced = Null /\ report = Null

ProfileNext ==
  Commit \/ Begin \/ Change \/ BindProfile \/ ReadNulls \/ Summarize \/ CountAllRows \/ ProfileRows \/ Correlate
-------------------------------------------------------------------------------
(***************************************************************************)
(* Properties.                                                             *)
(***************************************************************************)
Reported(fn) == stage = "done" /\ request.fn = fn

\* The differences of the values are integers that a DOUBLE holds.
NearEachOther(s, c) == c.kind \in {"double", "none"} \/ Spread(Units(NonNull(s), c)) < Mantissa

\* The statistics of the values s of column c, told from the values themselves.
Describes(p, s, c) ==
  LET finite == FiniteValues(s)
      n      == p.numeric
  IN  /\ p.rows = Len(s)
      /\ p.unique <=> \A i, j \in DOMAIN s : (s[i] = s[j] /\ s[i] # Null) => i = j
      /\ p.constant <=> \A i, j \in DOMAIN s : (Null \in {s[i], s[j]} \/ s[i] = s[j])
      /\ c.kind # "none" =>
           /\ p.rows = p.nulls + n.nans + n.infs + Len(finite)
           /\ n.mean # Null => SumOf(finite) = Times(n.mean, Num(Len(finite)))
           /\ n.mean = Null => finite = <<>> \/ OverflowBound(c)
           /\ Len(finite) >= 2 /\ n.variance # Null /\ NearEachOther(s, c) =>
                (n.variance = Num(0) <=> CountDistinct(finite) = 1)
           /\ \A v \in ToSet(finite) : ~Less(v, n.quartile[0]) /\ ~Less(n.quartile[4], v)
           /\ \A i, j \in DOMAIN n.top : i < j =>
                LET ci == CountIf(s, LAMBDA x : x = n.top[i])
                    cj == CountIf(s, LAMBDA x : x = n.top[j])
                IN  ci > cj \/ (ci = cj /\ Less(n.top[i], n.top[j]))

\* The least and the greatest HUGEINT: their midpoint is -1, and the greatest is 2^127 above it.
HasBothExtremes(t, c) ==
  c.kind = "wide" /\
    \E u, v \in ToSet(Units(NumbersOf(t, c), c)) : ~InHugeint(u - 1) /\ ~InHugeint(v + 1)

\* The statistics of every column follow from the values of the rows scanned, every row of a
\* committed state or as many as sample_size says; a sum or a difference that might leave its
\* type makes a statistic NULL "instead of an Out of Range error failing the profile"
\* (anofox_profile.cpp:523), except for a HUGEINT column with both of its extreme values.  The
\* size told beside them is counted by an earlier query: while nobody commits in between, it is
\* that of the rows scanned (BuildColumnProfileSQL, ProfileTableExecute).
StatisticsDescribeRows ==
  /\ stage = "raised" /\ request.fn = "table" =>
       \E k \in DOMAIN TableColumns : HasBothExtremes(committed, TableColumns[k])
  /\ Reported("table") =>
       \E t \in seen :
         \E s \in Samples(t, IF report.sampled THEN request.sample ELSE Len(t)) :
           /\ \A k \in DOMAIN TableColumns :
                Describes(report.columns[k], Column(s, TableColumns[k].name), TableColumns[k])
           /\ seen = {t} => report.size = Len(s)

\* Every column is in the bucket its documentation names, and without a commit between the two
\* connections' reads the numbers of a summary are those of one table (ProfileSummaryBindReplace).
SummaryDescribesTable ==
  Reported("summary") =>
    /\ \A f \in DOMAIN report.buckets : report.buckets[f] = CountIf(TableColumns, LAMBDA c : c.family = f)
    /\ report.rows = Len(view)
    /\ report.duplicates = Len(view) - Cardinality(ToSet(view))
    /\ seen = {view} =>
         report.nulls = Cardinality({<<i, k>> \in (DOMAIN view) \X (DOMAIN TableColumns) :
                                       view[i][TableColumns[k].name] = Null})

\* The correlations of two columns are those of the rows in which both are finite, and values
\* that are different stay so beyond 2^53 (ProfileCorrelationsExecute).
CorrelationsOfFinitePairs ==
  Reported("correlations") =>
    \E t \in seen : \A p \in PairsOfColumns :
      LET a == NumericColumns[p[1]]
          b == NumericColumns[p[2]]
          pairs   == FinitePairs(t, a, b)
          Before(r, q, c) == Less(r[c.name], q[c.name])
          varies  == CountDistinct(Column(pairs, a.name)) > 1 /\ CountDistinct(Column(pairs, b.name)) > 1
          monotone == \A r, q \in ToSet(pairs) : Before(r, q, a) <=> Before(r, q, b)
      IN  /\ report[p].n = Len(pairs)
          /\ (\A c \in {a, b} : NearEachOther(Column(t, c.name), c)) =>
               (varies <=> report[p].pearson # Null)
          /\ varies <=> report[p].spearman # Null
          /\ varies => (monotone <=> report[p].spearman = [sign |-> 1, square |-> Num(1)])

\* docs/api/10-profiling.md:262-274: total_nulls counts NULL cells of the table whose rows
\* row_count counts, so that total_null_rate is a rate.
NullRateIsARate == Reported("summary") => ~Less(Num(1), report.nullRate)

\* docs/api/10-profiling.md:95: actual_sample_size is "Rows actually scanned".  The code tells the
\* count of the query before (anofox_profile.cpp:717).
SizeIsRowsScanned == Reported("table") => \A k \in DOMAIN TableColumns : report.columns[k].rows = report.size
===============================================================================
