------------------------------ MODULE SqlValues ------------------------------
(***************************************************************************)
(* The values, tables and aggregates of the SQL that anofox_check.cpp,     *)
(* anofox_metric.cpp and anofox_check_suite.cpp generate, as DuckDB        *)
(* evaluates them, and the argument rules of anofox_sql_utils.cpp.         *)
(*                                                                         *)
(* A finite number is an exact fraction <<n, d>> with d > 0 in lowest      *)
(* terms (the rounding of a DOUBLE is not modelled), a date is a day       *)
(* number, a text is any other value, and the special values are constants *)
(* that differ from all of these.  A table is a sequence of rows, a row a  *)
(* function from column names to values.  A condition is TRUE only where   *)
(* the SQL condition is true: NULL counts as not true, as in CASE, WHERE   *)
(* and FILTER.                                                             *)
(***************************************************************************)
EXTENDS Integers, Sequences, FiniteSets, SequencesExt, FiniteSetsExt

CONSTANTS
  Null,       \* the SQL NULL
  NaN,        \* not a number
  Inf,        \* infinity, of a DOUBLE and of a date (SCD2's valid_to)
  NegInf,     \* minus infinity
  NotDate,    \* text that names no date
  Fails       \* the outcome of an expression that raises an error on the row

(***************************************************************************)
(* Numbers.                                                                *)
(***************************************************************************)
Abs(n) == IF n < 0 THEN -n ELSE n

Gcd[a \in Nat, b \in Nat] == IF b = 0 THEN a ELSE Gcd[b, a % b]

Frac(n, d) == LET g == Gcd[Abs(n), d] IN <<n \div g, d \div g>>

Num(n) == <<n, 1>>

IsFinite(x) == x \notin {Null, NaN, Inf, NegInf}

Plus(a, b)  == Frac(a[1] * b[2] + b[1] * a[2], a[2] * b[2])
Minus(a, b) == Frac(a[1] * b[2] - b[1] * a[2], a[2] * b[2])
Times(a, b) == Frac(a[1] * b[1], a[2] * b[2])
Over(a, n)  == Frac(a[1], a[2] * n)

Magnitude(x) == CASE x = NegInf -> -1 [] x = Inf -> 1 [] x = NaN -> 2 [] OTHER -> 0

\* a < b in DuckDB's order of the DOUBLEs: NaN is above everything and equals itself.
Less(a, b) ==
  /\ a # Null
  /\ b # Null
  /\ \/ Magnitude(a) < Magnitude(b)
     \/ /\ Magnitude(a) = 0
        /\ Magnitude(b) = 0
        /\ a[1] * b[2] < b[1] * a[2]

(***************************************************************************)
(* Columns and aggregates.                                                 *)
(***************************************************************************)
Column(t, c) == [i \in DOMAIN t |-> t[i][c]]

Key(t, cs) == [i \in DOMAIN t |-> [j \in DOMAIN cs |-> t[i][cs[j]]]]

NonNull(s) == SelectSeq(s, LAMBDA x : x # Null)

CountIf(s, P(_)) == Len(SelectSeq(s, P))

CountDistinct(s) == Cardinality(ToSet(NonNull(s)))

Ratio(part, whole) == Frac(part, whole)

RateOrZero(part, whole) == IF whole = 0 THEN Num(0) ELSE Ratio(part, whole)

RateOrNull(part, whole) == IF whole = 0 THEN Null ELSE Ratio(part, whole)

\* Sums, means and quantiles of numbers without NULL: NULL of no value, and NaN as soon as a
\* NaN enters the arithmetic.
SumOf(s) ==
  IF s = <<>> THEN Null
  ELSE IF NaN \in ToSet(s) THEN NaN
       ELSE FoldLeft(Plus, Num(0), s)

AvgOf(s) == LET sum == SumOf(s) IN IF IsFinite(sum) THEN Over(sum, Len(s)) ELSE sum

Sorted(s) == SortSeq(s, Less)

MinOf(s) == IF s = <<>> THEN Null ELSE Head(Sorted(s))

MaxOf(s) == IF s = <<>> THEN Null ELSE Last(Sorted(s))

\* QUANTILE_CONT(s, q/4): linear interpolation between the neighbours of position (n-1)*q/4.
QuartileOf(s, q) ==
  LET r  == Sorted(s)
      at == (Len(s) - 1) * q
      lo == r[at \div 4 + 1]
      hi == r[(at + 3) \div 4 + 1]
  IN  IF s = <<>> THEN Null
      ELSE IF NaN \in {lo, hi} THEN NaN
           ELSE Plus(lo, Times(Frac(at % 4, 4), Minus(hi, lo)))

\* a + k * (b - c), the form of every IQR bound: NULL and NaN go through the arithmetic.
Offset(a, k, b, c) ==
  IF Null \in {a, b, c} THEN Null
  ELSE IF NaN \in {a, b, c} THEN NaN
       ELSE Plus(a, Times(k, Minus(b, c)))

(***************************************************************************)
(* Dates.  UtcDateSQL: text that names no date is NULL, not an error.      *)
(***************************************************************************)
UtcDate(x) == IF x = NotDate THEN Null ELSE x

InfiniteTime(x) == x = Inf

MaxDay(days) == IF days \ {Null} = {} THEN Null ELSE Max(days \ {Null})

MinDay(days) == IF days \ {Null} = {} THEN Null ELSE Min(days \ {Null})

(***************************************************************************)
(* The argument rules of anofox_sql_utils.cpp: whether a value passes.     *)
(***************************************************************************)
ValidateFiniteDouble(x) == x = Null \/ IsFinite(x)

ValidateThresholdOrder(lower, upper) == ~Less(upper, lower)

ValidateNonNegative(x) == ~Less(x, Num(0))

ValidateRate(x) ==
  ValidateFiniteDouble(x) /\ ~Less(x, Num(0)) /\ ~Less(Num(1), x)

\* NormalizeBoundThreshold: the infinity on the open side is no bound; NaN and the other one
\* are refused.
BoundAccepted(x, isLower) == x # NaN /\ x # (IF isLower THEN Inf ELSE NegInf)

NormalizeBound(x) == IF x \in {Inf, NegInf} THEN Null ELSE x

\* ValidateThresholdOrder after both sides are normalised.
BoundsAccepted(lower, upper) ==
  /\ BoundAccepted(lower, TRUE)
  /\ BoundAccepted(upper, FALSE)
  /\ ValidateThresholdOrder(NormalizeBound(lower), NormalizeBound(upper))

Default(x, default) == IF x = Null THEN default ELSE x
===============================================================================
