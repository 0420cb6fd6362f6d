------------------------------- MODULE Metrics -------------------------------
(***************************************************************************)
(* The metric functions of anofox_metric.cpp that are plain SQL: volume,   *)
(* null_rate, distinct_count, zscore, iqr, schema_check and freshness.     *)
(* They answer like the checks (module Checks).  zscore and iqr centre a   *)
(* column of an exact type on a reference value before they turn it into   *)
(* DOUBLEs; a difference that does not fit its exact type is an error.     *)
(***************************************************************************)
EXTENDS Checks

(***************************************************************************)
(* Counts and rates.                                                       *)
(***************************************************************************)
Volume(t, min, max) == LET n == Num(Len(t)) IN OneRow(Outside(n, min, max), n)

NullRate(t, c, max) ==
  LET rate == RateOrZero(CountIf(Column(t, c), LAMBDA x : x = Null), Len(t))
  IN  OneRow(Less(Default(max, Num(1)), rate), rate)

Distinct(t, c, min, max) ==
  LET n == Num(CountDistinct(Column(t, c))) IN OneRow(Outside(n, min, max), n)

\* Whether every required column is one of the table's (names compared without case).
SchemaCheck(columns, required) ==
  LET missing == Cardinality(required \ columns) IN OneRow(missing > 0, Num(missing))

\* The age of the latest timestamp; an infinite one and text that is none are no timestamp, and
\* without any the data is not fresh.
Freshness(t, c, maxAge, ref) ==
  LET latest == MaxDay({UtcDate(x) : x \in {y \in ToSet(Column(t, c)) : ~InfiniteTime(y)}})
  IN  OneRow(latest = Null \/ latest < ref - maxAge,
             IF latest = Null THEN Null ELSE Num(ref - latest))

(***************************************************************************)
(* Outliers of one column.                                                 *)
(***************************************************************************)
\* Division that cuts towards zero, as // of integers.
Half(n) == IF n < 0 THEN -(-n \div 2) ELSE n \div 2

\* ExactCenteringType: the differences of a DECIMAL column are DECIMAL(38), all others HUGEINT.
IsDecimal(type) == type.kind = "decimal" \/ type.scale > 0

\* CenteringReferenceSQL: the midpoint of an integer column, the minimum of a DECIMAL one.
CenteringReference(units, type) ==
  IF IsDecimal(type) THEN Min(units) ELSE Half(Min(units)) + Half(Max(units))

\* A difference that its exact type does not hold raises an error.  The midpoint of the least
\* and the greatest HUGEINT is -1, and the greatest is one too far from it.
DifferenceFits(u, units, type) ==
  LET difference == u - CenteringReference(units, type) IN
    IF IsDecimal(type) THEN difference < Limit ELSE InHugeint(difference)

DifferencesFit(units, type) == \A u \in units : DifferenceFits(u, units, type)

(* Mutant: values turned into DOUBLEs as they are.                          *)
CastValues(t, c, type) ==
  LET vs == NonNull(Column(t, c)) IN
    IF type.kind = "integer" THEN [i \in DOMAIN vs |-> Num(AsDouble(vs[i][1]))] ELSE vs

\* The values as DOUBLEs: those of an exact column as their differences to the reference.
CenteredValues(t, c, type) ==
  LET vs == NonNull(Column(t, c)) IN
    IF type.kind = "double" \/ vs = <<>> THEN vs
    ELSE LET units == Units(vs, type)
             ref   == CenteringReference(ToSet(units), type)
         IN  [i \in DOMAIN vs |-> Frac(AsDouble(units[i] - ref), Base ^ type.scale)]

CenteringFits(t, c, type) ==
  type.kind = "double" \/ DifferencesFit(ToSet(Units(NonNull(Column(t, c)), type)), type)

FiniteValues(s) == SelectSeq(s, IsFinite)

\* STDDEV squared, of the sample.
Variance(s) ==
  LET mean == AvgOf(s)
      Square(x) == Times(Minus(x, mean), Minus(x, mean))
  IN  IF Len(s) < 2 THEN Null
      ELSE Over(SumOf([i \in DOMAIN s |-> Square(s[i])]), Len(s) - 1)

\* |x - mean| / stddev > threshold, without the root.
ZscoreOutliers(s, threshold) ==
  LET mean     == AvgOf(s)
      variance == Variance(s)
  IN  IF variance = Null \/ variance = Num(0) THEN {}
      ELSE {i \in DOMAIN s :
              Less(Times(Times(threshold, threshold), variance),
                   Times(Minus(s[i], mean), Minus(s[i], mean)))}

IqrOutliers(s, k) ==
  LET bounds == IqrBounds(s, k)
  IN  {i \in DOMAIN s : Outside(s[i], bounds.lower, bounds.upper)}

Zscore(t, c, type, threshold) ==
  LET n == Cardinality(ZscoreOutliers(FiniteValues(CenteredValues(t, c, type)), threshold))
  IN  Bind(CenteringFits(t, c, type), OneRow(n > 0, Num(n)))

Iqr(t, c, type, k) ==
  LET n == Cardinality(IqrOutliers(FiniteValues(CenteredValues(t, c, type)), k))
  IN  Bind(CenteringFits(t, c, type), OneRow(n > 0, Num(n)))

(***************************************************************************)
(* The functions themselves: what the bind accepts, and the answer.        *)
(***************************************************************************)
MetricVolume(t, min, max) == Bind(CountsAccepted(min, max), Volume(t, min, max))

MetricNullRate(t, c, max) == Bind(max # Null /\ ValidateRate(max), NullRate(t, c, max))

MetricDistinctCount(t, c, min, max) == Bind(CountsAccepted(min, max), Distinct(t, c, min, max))

MetricZscore(t, c, type, threshold) ==
  Bind(/\ threshold # Null
       /\ ValidateFiniteDouble(threshold)
       /\ Less(Num(0), threshold)
       /\ type.kind \in NumericKinds,
       Zscore(t, c, type, threshold))

MetricIQR(t, c, type, k) ==
  Bind(/\ k # Null
       /\ ValidateFiniteDouble(k)
       /\ ValidateNonNegative(k)
       /\ type.kind \in NumericKinds,
       Iqr(t, c, type, k))

MetricSchema(columns, required) == Bind(required # Null, SchemaCheck(columns, required))

\* NULL is the current time; a reference time at infinity has no age.
NormalizeReferenceTime(ref, now) == Default(ref, now)

MetricFreshness(t, c, type, maxAge, ref, now) ==
  Bind(maxAge # Null /\ ref # Inf /\ type.kind \in TimeKinds,
       Freshness(t, c, maxAge, NormalizeReferenceTime(ref, now)))
===============================================================================
