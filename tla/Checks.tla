-------------------------------- MODULE Checks --------------------------------
(***************************************************************************)
(* The direct check functions of anofox_check.cpp: what the SQL they       *)
(* generate answers for a table, and which arguments their bind functions  *)
(* refuse.  A check answers rows [status, value] (the time-aware ones with *)
(* the reference date of each row); the message texts are left out.  An    *)
(* error of the bind or of the query is the record Error.                  *)
(***************************************************************************)
EXTENDS SqlValues

CONSTANTS
  Base,        \* the base decimals are written in (10)
  MaxDigits,   \* the digits of the widest DECIMAL (38)
  Word,        \* 2^64: a HUGEINT is two words
  Limit,       \* 10^38, what the unscaled DECIMAL(38) sum stays below
  RiskBound,   \* 9.9e37: from here on a plain sum may overflow
  Mantissa,    \* 2^53
  MaxWindow    \* MAX_WINDOW_DAYS

NumericKinds == {"double", "integer", "decimal", "wide"}

\* IsTimeColumnType: text is read as dates too.
TimeKinds == {"date", "text"}

Rows(rows) == [error |-> FALSE, rows |-> rows]
Error      == [error |-> TRUE, rows |-> {}]

Row(failed, value) == [status |-> IF failed THEN "fail" ELSE "pass", value |-> value]

OneRow(failed, value) == Rows({Row(failed, value)})

Outside(x, lower, upper) == Less(x, lower) \/ Less(upper, x)

InHugeint(n) == 2 * n \in -Word * Word .. Word * Word - 1

\* An integer below 32 * Mantissa as a DOUBLE, which has every integer below Mantissa, then every
\* second one, and so on, and rounds to the nearest (of two, to the even multiple).
AsDouble(n) ==
  LET gap  == Min({g \in {1, 2, 4, 8, 16, 32} : Abs(n) < g * Mantissa})
      rest == 2 * (n % gap)
      low  == n \div gap
  IN  gap * (low + IF rest > gap \/ (rest = gap /\ low % 2 = 1) THEN 1 ELSE 0)

(***************************************************************************)
(* Rates of single values.  A pattern and a set of allowed values are both *)
(* the set of texts they accept.                                           *)
(***************************************************************************)
RegexMatch(t, c, matching, min, max) ==
  LET vs   == NonNull(Column(t, c))
      rate == RateOrZero(CountIf(vs, LAMBDA x : x \in matching), Len(vs))
  IN  OneRow(vs # <<>> /\ Outside(rate, min, max), rate)

ValuesInSet(t, c, allowed, min) ==
  LET vs   == NonNull(Column(t, c))
      rate == RateOrZero(CountIf(vs, LAMBDA x : x \in allowed), Len(vs))
  IN  OneRow(vs # <<>> /\ Less(rate, Default(min, Num(1))), rate)

\* A row on which the predicate raises an error ends the whole query.
Compliance(t, p, min) ==
  LET vs   == Column(t, p)
      rate == RateOrZero(CountIf(vs, LAMBDA x : x = TRUE), Len(vs))
  IN  IF Fails \in ToSet(vs) THEN Error
      ELSE OneRow(vs # <<>> /\ Less(rate, Default(min, Num(1))), rate)

(***************************************************************************)
(* Aggregates.  A column type is [kind, scale] with kind "double",         *)
(* "integer", "decimal" or "wide" (HUGEINT, or a DECIMAL beyond 18 digits  *)
(* when its scale is set).                                                 *)
(***************************************************************************)
\* The value of stddev, a root, is left out.
AggregateOf(agg, s) ==
  CASE agg = "avg"    -> AvgOf(s)
    [] agg = "min"    -> MinOf(s)
    [] agg = "max"    -> MaxOf(s)
    [] agg = "sum"    -> SumOf(s)
    [] agg = "median" -> QuartileOf(s, 2)

IsWideSumAggregate(agg, type) == agg \in {"sum", "avg"} /\ type.kind = "wide"

\* Some partial sum of the rows might leave the range: judged by the positive and the negative
\* values on their own (WideSumRiskColumnSQL).
SumOverflowRisk(units) ==
  LET positive == FoldLeft(LAMBDA a, u : a + Max({u, 0}), 0, units)
      negative == FoldLeft(LAMBDA a, u : a + Max({-u, 0}), 0, units)
  IN  Max({positive, negative}) >= RiskBound

(* Mutant: the low words carry nothing over.                                *)
SplitWithoutCarry(units) ==
  LET high == FoldLeft(LAMBDA a, u : a + (u \div Word), 0, units)
      low  == FoldLeft(LAMBDA a, u : a + (u % Word), 0, units)
  IN  [fits |-> 2 * high \in -Word .. Word - 1, total |-> high * Word + low]

\* The sum in two words, from the sums of the high and of the low words of the values.
SplitSum(units) ==
  LET high_sum == FoldLeft(LAMBDA a, u : a + (u \div Word), 0, units)
      low_sum  == FoldLeft(LAMBDA a, u : a + (u % Word), 0, units)
      high     == high_sum + (low_sum \div Word)
  IN  [fits  |-> 2 * high \in -Word .. Word - 1,
       total |-> high * Word + (low_sum % Word)]

\* The unscaled integers of a wide column.
Units(s, type) == [i \in DOMAIN s |-> (s[i][1] * Base ^ type.scale) \div s[i][2]]

WideSum(agg, s, type) ==
  LET units == Units(s, type)
      split == SplitSum(units)
      out   == /\ SumOverflowRisk(units)
               /\ \/ ~split.fits
                  \/ type.scale > 0 /\ agg = "sum" /\ Abs(split.total) >= Limit
      sum   == IF ~SumOverflowRisk(units) THEN SumOf(s)
               ELSE Frac(split.total, Base ^ type.scale)
  IN  [value    |-> IF s = <<>> \/ out THEN Null
                    ELSE IF agg = "avg" THEN Over(sum, Len(s)) ELSE sum,
       exact    |-> agg = "sum",
       overflow |-> out]

\* A DOUBLE column that holds a NaN or an infinity has the aggregate NaN.
BuildAggregate(agg, s, type) ==
  IF IsWideSumAggregate(agg, type) THEN WideSum(agg, s, type)
  ELSE IF type.kind # "double"
  THEN [value    |-> AggregateOf(agg, s),
        exact    |-> agg \in {"min", "max", "sum"} \/ (agg = "median" /\ type.kind = "decimal"),
        overflow |-> FALSE]
  ELSE [value    |-> IF \A x \in ToSet(s) : IsFinite(x) THEN AggregateOf(agg, s) ELSE NaN,
        exact    |-> FALSE,
        overflow |-> FALSE]

\* A finite threshold as the decimal it is written as, cut to `scale` fraction digits.
PlainDecimal(x, scale) ==
  LET scaled == Abs(x[1]) * Base ^ scale IN
    [negative |-> x[1] < 0,
     whole    |-> Abs(x[1]) \div x[2],
     dropped  |-> scaled % x[2] # 0,
     kept     |-> LET digits == scaled \div x[2] IN
                    Frac(IF x[1] < 0 THEN -digits ELSE digits, Base ^ scale)]

(* Mutant: exact values are compared as the DOUBLEs they are shown as.      *)
ShownViolation(x, threshold, exact, scale, isLower) ==
  /\ threshold # Null
  /\ x # Null
  /\ LET shown == IF exact /\ x[2] = 1 THEN Num(AsDouble(x[1])) ELSE x IN
       IF isLower THEN Less(shown, threshold) ELSE Less(threshold, shown)

\* BoundViolationSQL: an exact value is compared with the threshold cut to its scale.
BoundViolation(x, threshold, exact, scale, isLower) ==
  /\ threshold # Null
  /\ x # Null
  /\ IF ~exact THEN IF isLower THEN Less(x, threshold) ELSE Less(threshold, x)
     ELSE LET dec == PlainDecimal(threshold, scale) IN
            CASE dec.whole >= Base ^ (MaxDigits - scale) -> isLower # dec.negative
              [] dec.dropped /\ isLower /\ ~dec.negative -> ~Less(dec.kept, x)
              [] dec.dropped /\ ~isLower /\ dec.negative -> ~Less(x, dec.kept)
              [] OTHER -> IF isLower THEN Less(x, dec.kept) ELSE Less(dec.kept, x)

\* A NaN fails; an exact sum out of its range raises an error.
AggCheck(t, c, type, agg, lower, upper) ==
  LET a == BuildAggregate(agg, NonNull(Column(t, c)), type)
      Violates(threshold, isLower) ==
        BoundViolation(a.value, NormalizeBound(threshold), a.exact, type.scale, isLower)
  IN  IF a.overflow THEN Error
      ELSE OneRow(a.value = NaN \/ Violates(lower, TRUE) \/ Violates(upper, FALSE), a.value)

(***************************************************************************)
(* Duplicates, occurrences and matches of keys.                            *)
(***************************************************************************)
\* BuildDuplicateCountExpr: of one column, COUNT(DISTINCT) leaves out the NULL keys, which
\* form one more group; of several, a key is a ROW and never NULL itself.
DuplicateCount(t, cs) ==
  IF Len(cs) > 1 THEN Len(t) - CountDistinct(Key(t, cs))
  ELSE LET s == Column(t, cs[1]) IN
         Len(s) - CountDistinct(s) - (IF Len(s) > Len(NonNull(s)) THEN 1 ELSE 0)

DuplicateCheck(t, cs, max) ==
  LET n == Num(DuplicateCount(t, cs)) IN OneRow(Less(Default(max, Num(0)), n), n)

Occurrence(t, c, mode, lower, upper) ==
  LET vs     == NonNull(Column(t, c))
      counts == {CountIf(vs, LAMBDA x : x = v) : v \in ToSet(vs)}
      n      == IF counts = {} THEN Null
                ELSE Num(IF mode = "max" THEN Max(counts) ELSE Min(counts))
  IN  OneRow(Outside(n, lower, upper), n)

HasNull(key) == Null \in Range(key)

\* The right side is deduplicated on its keys, rows with a NULL key are left out on the left
\* and match nothing on the right.
MatchRate(t, leftKeys, r, rightKeys, min) ==
  LET left  == SelectSeq(Key(t, leftKeys), LAMBDA k : ~HasNull(k))
      right == {k \in ToSet(Key(r, rightKeys)) : ~HasNull(k)}
      rate  == RateOrZero(CountIf(left, LAMBDA k : k \in right), Len(left))
  IN  OneRow(left # <<>> /\ Less(rate, Default(min, Num(1))), rate)

(***************************************************************************)
(* Time-aware checks.  `daily` is a function from the days with rows to    *)
(* the measure of the day; NULL is a day of its own when text did not      *)
(* parse.  A reference date sees the days of the window before it.         *)
(***************************************************************************)
Days(t, dc) == {UtcDate(x) : x \in {y \in ToSet(NonNull(Column(t, dc))) : ~InfiniteTime(y)}}

RowsOn(t, dc, day) ==
  SelectSeq(t, LAMBDA r : r[dc] # Null /\ ~InfiniteTime(r[dc]) /\ UtcDate(r[dc]) = day)

CountRows(t, c) == IF c = Null THEN Len(t) ELSE CountDistinct(Column(t, c))

\* The reference dates: a range, or one date with the latest day of data as the default.
ReferenceDates(dates, days) ==
  IF dates.start # Null THEN dates.start .. dates.end
  ELSE {IF dates.reference # Null THEN dates.reference ELSE MaxDay(days)}

BeforeWithin(day, ref, window) ==
  day # Null /\ ref # Null /\ ref - window <= day /\ day < ref

\* The average count of the window before ref and its number of days; with fill the days from
\* the first one with data on count, whether they have rows or not.
Baseline(daily, ref, window, fill) ==
  LET past  == {d \in DOMAIN daily : BeforeWithin(d, ref, window)}
      total == MapThenSumSet(LAMBDA d : daily[d], past)
      first == MinDay(DOMAIN daily)
      days  == IF ~fill THEN Cardinality(past)
               ELSE IF ref = Null THEN 0
               ELSE Max({0, ref - (IF first = Null THEN ref - window
                                   ELSE Max({ref - window, first}))})
  IN  [avg |-> RateOrNull(total, days), days |-> days]

RelChange(daily, ref, window, fill) ==
  LET avg   == Baseline(daily, ref, window, fill).avg
      count == Num(IF ref \in DOMAIN daily \ {Null} THEN daily[ref] ELSE 0)
      diff  == Minus(count, avg)
  IN  IF avg = Null \/ avg = Num(0) THEN Null
      ELSE Frac(diff[1] * avg[2], diff[2] * avg[1])

RelCountChange(t, dc, cc, window, lower, upper, dates, fill) ==
  LET daily == [d \in Days(t, dc) |-> CountRows(RowsOn(t, dc, d), cc)]
      At(ref) == LET x == RelChange(daily, ref, window, fill) IN
                   [ref |-> ref, status |-> Row(Outside(x, lower, upper), x).status,
                    value |-> x, lower |-> lower, upper |-> upper]
  IN  Rows({At(ref) : ref \in ReferenceDates(dates, DOMAIN daily)})

\* AVG(metric) of the day, or its number of rows.
DayMetric(rows, mc) == IF mc = Null THEN Num(Len(rows)) ELSE AvgOf(NonNull(Column(rows, mc)))

\* What a day without rows measures: no rows, and no metric.
MetricOn(daily, ref, mc) ==
  IF ref = Null THEN Null
  ELSE IF ref \in DOMAIN daily THEN daily[ref]
       ELSE IF mc = Null THEN Num(0) ELSE Null

PastMetrics(daily, ref, window) ==
  LET past == SetToSeq({d \in DOMAIN daily : BeforeWithin(d, ref, window)})
  IN  [i \in DOMAIN past |-> daily[past[i]]]

IqrBounds(s, k) ==
  LET q1 == QuartileOf(NonNull(s), 1)
      q3 == QuartileOf(NonNull(s), 3)
  IN  [lower |-> Offset(q1, Times(Num(-1), k), q3, q1), upper |-> Offset(q3, k, q3, q1)]

MetricAnomalyIqr(t, dc, mc, window, k, mode, dates) ==
  LET daily == [d \in Days(t, dc) |-> DayMetric(RowsOn(t, dc, d), mc)]
      At(ref) ==
        LET x      == MetricOn(daily, ref, mc)
            past   == PastMetrics(daily, ref, window)
            bounds == IqrBounds(past, k)
            failed == /\ past # <<>>
                      /\ \/ mode # "upper" /\ Less(x, bounds.lower)
                         \/ mode # "lower" /\ Less(bounds.upper, x)
        IN  [ref |-> ref, status |-> Row(failed, x).status, value |-> x] @@ bounds
  IN  Rows({At(ref) : ref \in ReferenceDates(dates, DOMAIN daily)})

\* values_in_set over the window that ends at the reference date, which it includes.
RollingValuesInSet(t, c, allowed, dc, window, min, dates) ==
  LET bound == Default(min, Num(1))
      Within(r, ref) == /\ r[dc] # Null /\ ~InfiniteTime(r[dc])
                        /\ BeforeWithin(UtcDate(r[dc]), IF ref = Null THEN Null ELSE ref + 1, window)
      At(ref) ==
        LET vs   == NonNull(Column(SelectSeq(t, LAMBDA r : Within(r, ref)), c))
            rate == RateOrZero(CountIf(vs, LAMBDA x : x \in allowed), Len(vs))
        IN  [ref |-> ref, status |-> Row(vs # <<>> /\ Less(rate, bound), rate).status,
             value |-> rate, lower |-> bound, upper |-> Null]
  IN  Rows({At(ref) : ref \in ReferenceDates(dates, Days(t, dc))})

(***************************************************************************)
(* The functions themselves: what the bind accepts, and the answer.  An    *)
(* absent argument is the constant NULL here, as most of them treat it.    *)
(* That a table and its columns exist is left out.                         *)
(***************************************************************************)
Bind(accepted, answer) == IF accepted THEN answer ELSE Error

RatesAccepted(min, max) ==
  ValidateRate(min) /\ ValidateRate(max) /\ ValidateThresholdOrder(min, max)

CountsAccepted(min, max) ==
  ValidateNonNegative(min) /\ ValidateNonNegative(max) /\ ValidateThresholdOrder(min, max)

CheckRegexMatch(t, c, pattern, min, max) ==
  Bind(pattern # Null /\ RatesAccepted(min, max), RegexMatch(t, c, pattern, min, max))

CheckValuesInSet(t, c, allowed, min) ==
  Bind(allowed # Null /\ ValidateRate(min), ValuesInSet(t, c, allowed, min))

CheckAgg(t, c, type, agg, lower, upper) ==
  Bind(/\ agg \in {"avg", "min", "max", "sum", "median", "stddev"}
       /\ BoundsAccepted(lower, upper)
       /\ type.kind \in NumericKinds,
       AggCheck(t, c, type, agg, lower, upper))

CheckDuplicateCount(t, cs, max) ==
  Bind(cs # <<>> /\ ValidateNonNegative(max), DuplicateCheck(t, cs, max))

CheckOccurrence(t, c, mode, lower, upper) ==
  Bind(mode \in {"max", "min"} /\ CountsAccepted(lower, upper), Occurrence(t, c, mode, lower, upper))

CheckMatchRate(t, r, leftKeys, rightKeys, min) ==
  Bind(leftKeys # <<>> /\ Len(leftKeys) = Len(rightKeys) /\ ValidateRate(min),
       MatchRate(t, leftKeys, r, rightKeys, min))

CheckCompliance(t, p, min) == Bind(p # Null /\ ValidateRate(min), Compliance(t, p, min))

ReadWindowDays(window, default) == IF window = Null THEN default ELSE window

WindowAccepted(window) == window = Null \/ window \in 1 .. MaxWindow

\* ReadReferenceDates: one reference date, by position or by name, or else a whole range.
DatesAccepted(a) ==
  /\ a.position = Null \/ a.named = Null
  /\ Inf \notin {a.position, a.named, a.start, a.end}
  /\ (a.start = Null) = (a.end = Null)
  /\ a.start # Null => a.position = Null /\ a.named = Null /\ a.start <= a.end

ReadReferenceDates(a) ==
  [reference |-> Default(a.position, a.named), start |-> a.start, end |-> a.end]

CheckRelCountChange(t, dc, type, cc, window, lower, upper, a, fill) ==
  Bind(/\ WindowAccepted(window)
       /\ BoundsAccepted(lower, upper)
       /\ DatesAccepted(a)
       /\ type.kind \in TimeKinds,
       RelCountChange(t, dc, cc, ReadWindowDays(window, 7), NormalizeBound(lower),
                      NormalizeBound(upper), ReadReferenceDates(a), fill))

CheckMetricAnomalyIQR(t, dc, type, mc, window, k, mode, a) ==
  Bind(/\ WindowAccepted(window)
       /\ ValidateFiniteDouble(k)
       /\ ValidateNonNegative(k)
       /\ mode \in {"both", "upper", "lower"}
       /\ DatesAccepted(a)
       /\ type.kind \in TimeKinds,
       MetricAnomalyIqr(t, dc, mc, ReadWindowDays(window, 30), Default(k, Frac(3, 2)), mode,
                        ReadReferenceDates(a)))

CheckRollingValuesInSet(t, c, allowed, dc, type, window, min, a) ==
  Bind(/\ allowed # Null
       /\ WindowAccepted(window)
       /\ ValidateRate(min)
       /\ DatesAccepted(a)
       /\ type.kind \in TimeKinds,
       RollingValuesInSet(t, c, allowed, dc, ReadWindowDays(window, 7), min, ReadReferenceDates(a)))
===============================================================================
