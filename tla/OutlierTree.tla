----------------------------- MODULE OutlierTree -----------------------------
(***************************************************************************)
(* The explainable outliers of outlier_tree (src/src/                     *)
(* anofox_outlier_tree.cpp): every column in turn is the target, the rows  *)
(* are split into groups by conditions on the other columns, and each      *)
(* group flags the values far from its own.                                *)
(*                                                                         *)
(* A number is an integer, NaN or an infinity; a category is an integer,   *)
(* its index.  A split point is kept doubled, as it is the middle of two   *)
(* values.  The gain of a split, a variance or an entropy, is left out:    *)
(* any predictor with a valid split may have the largest, or none a        *)
(* positive one.  The factors that scale the two spreads are rounded to    *)
(* 3/2 and 5/4.                                                            *)
(***************************************************************************)
EXTENDS Integers, Sequences, SequencesExt, FiniteSetsExt

CONSTANTS NaN, Inf, NegInf

VARIABLES
  call,         \* the arguments
  rows,         \* the scanned rows, all of them without NULL
  stage,        \* "run" while FitPredict runs
  groups,       \* the groups still to evaluate: target, rows, conditions, depth
  outliers,     \* the findings, in the order of their slots
  slots,        \* outlier_slots_: the slot of a row and a target
  evaluated,    \* the groups evaluated so far
  offered       \* every finding a group came to, a history variable

treeVars == <<groups, outliers, slots, evaluated, offered>>

Columns == DOMAIN call.types
Numeric(col) == call.types[col] = "numeric"
Finite(v) == v \notin {NaN, Inf, NegInf}
MinSize(col) == IF Numeric(col) THEN call.minNumeric ELSE call.minCateg

(***************************************************************************)
(* Cluster statistics.                                                     *)
(***************************************************************************)
FiniteRows(col, S) == {r \in S : Finite(rows[r][col])}

\* The values of S in ascending order, each as often as rows have it: the k-th has fewer than k
\* below it, and k or more up to it.
Sorted(S, value(_)) ==
  [k \in 1 .. Cardinality(S) |->
     CHOOSE v \in {value(r) : r \in S} :
       /\ Cardinality({r \in S : value(r) < v}) < k
       /\ k <= Cardinality({r \in S : value(r) <= v})]

UpperMedian(s) == s[Len(s) \div 2 + 1]

Median(col, S) == UpperMedian(Sorted(FiniteRows(col, S), LAMBDA r : rows[r][col]))

Distance(a, b) == IF a < b THEN b - a ELSE a - b

\* A fraction: the scaled MAD, or the scaled mean deviation when more than half share one value.
Scaled(deviation) ==
  IF UpperMedian(deviation) > 0
  THEN <<3 * UpperMedian(deviation), 2>>
  ELSE <<5 * FoldLeft(+, 0, deviation), 4 * Len(deviation)>>

Spread(col, S) ==
  CHOOSE spread \in {Scaled(Sorted(FiniteRows(col, S), LAMBDA r : Distance(rows[r][col], median))) :
                       median \in {Median(col, S)}} : TRUE

\* |GetRobustZScore| as a fraction; <<1, 0>> is infinite.
AbsZ(v, median, spread) ==
  IF ~Finite(v) THEN <<1, 0>>
  ELSE IF spread[1] = 0 THEN (IF v = median THEN <<0, 1>> ELSE <<1, 0>>)
  ELSE <<Distance(v, median) * spread[2], spread[1]>>

AtLeast(a, b) == a[1] * b[2] >= b[1] * a[2]

MaxOutliers(n) ==
  Max({1, (n * call.share[1] + call.share[2] - 1) \div call.share[2]})

(***************************************************************************)
(* The findings of a group.  `rarity' orders them as outlier_score does,   *)
(* reversed: |z| of a number, n / count of a category.                     *)
(***************************************************************************)
GroupSize(g) == Cardinality(IF Numeric(g.target) THEN FiniteRows(g.target, g.rows) ELSE g.rows)

FarFrom(range, g) ==
  LET z(r)    == AbsZ(rows[r][g.target], range[1], range[2])
      far     == {r \in g.rows : rows[r][g.target] # NaN /\ AtLeast(z(r), call.zOutlier)}
      same(r) == {q \in far : rows[q][g.target] = rows[r][g.target]}
  IN  {[row |-> r, target |-> g.target, conditions |-> g.conditions, size |-> GroupSize(g),
        rarity |-> z(r), range |-> range] :
         r \in {q \in far : Cardinality(same(q)) <= MaxOutliers(GroupSize(g))}}

NumericCandidates(g) ==
  UNION {FarFrom(range, g) : range \in {<<Median(g.target, g.rows), Spread(g.target, g.rows)>>}}

CategoricalCandidates(g) ==
  LET col == g.target
      n   == GroupSize(g)
      count(r) == Cardinality({q \in g.rows : rows[q][col] = rows[r][col]})
      \* prop < 1 / z_outlier^2
      rare(r) == n * call.zOutlier[2] * call.zOutlier[2] > count(r) * call.zOutlier[1] * call.zOutlier[1]
  IN  {[row |-> r, target |-> col, conditions |-> g.conditions, size |-> n, rarity |-> <<n, count(r)>>,
        range |-> <<>>] : r \in {q \in g.rows : rare(q)}}

Categories(col) == {rows[r][col] : r \in DOMAIN rows}

Candidates(g) ==
  IF GroupSize(g) < 3 THEN {}
  ELSE IF Numeric(g.target) THEN NumericCandidates(g)
  ELSE IF Cardinality(Categories(g.target)) < 2 THEN {} ELSE CategoricalCandidates(g)

\* The orders a sort by score may leave: the most extreme first, ties in any order.
MostExtremeFirst(candidates) ==
  {o \in [1 .. Cardinality(candidates) -> candidates] :
     /\ IsInjective(o)
     /\ \A i, j \in DOMAIN o : i < j => AtLeast(o[i].rarity, o[j].rarity)}

\* Numbers are sorted one by one; of a category, all rows come in turn, in scan order.
FlagOrders(g, candidates) ==
  LET value(f) == rows[f.row][g.target] IN
  {o \in MostExtremeFirst(candidates) :
     Numeric(g.target) \/
       \A i, j \in DOMAIN o :
         i < j /\ value(o[i]) = value(o[j]) =>
           o[i].row < o[j].row /\ \A k \in i .. j : value(o[k]) = value(o[i])}

\* AddOrReplaceOutlier: the finding with the lower score keeps the slot of its row and target.
AddOrReplace(found, f) ==
  LET key == <<f.row, f.target>> IN
  IF key \notin DOMAIN found.slots
  THEN [outliers |-> Append(found.outliers, f), count |-> found.count + 1,
        slots |-> [k \in DOMAIN found.slots \cup {key} |->
                     IF k = key THEN Len(found.outliers) + 1 ELSE found.slots[k]]]
  ELSE IF AtLeast(found.outliers[found.slots[key]].rarity, f.rarity)
  THEN found
  ELSE [found EXCEPT !.outliers[found.slots[key]] = f, !.count = @ + 1]

\* A group stops at its share, counting only what it added or replaced.
FlagUpTo(most, order) ==
  LET found[k \in 0 .. Len(order)] ==
        IF k = 0 THEN [outliers |-> outliers, slots |-> slots, count |-> 0]
        ELSE IF found[k - 1].count >= most THEN found[k - 1]
        ELSE AddOrReplace(found[k - 1], order[k])
  IN  found[Len(order)]

(***************************************************************************)
(* Splits.                                                                 *)
(***************************************************************************)
Meets(r, c) ==
  LET v == rows[r][c.column] IN
  CASE c.op = "<="     -> Finite(v) /\ 2 * v <= c.value
    [] c.op = ">"      -> Finite(v) /\ 2 * v > c.value
    [] c.op = "in"     -> v = c.value
    [] c.op = "not_in" -> v # c.value

(* Mutant: the explanation of the right branch repeats the list of the left one. *)
InvertedNumbersOnly(c) == IF c.op = "<=" THEN [c EXCEPT !.op = ">"] ELSE c

\* The right branch: the comparison turned around, the category list negated.
Inverted(c) == [c EXCEPT !.op = CASE c.op = "<=" -> ">" [] c.op = "in" -> "not_in"]

\* The two branches; a row without a number to compare is in neither.
PartitionRows(S, c) ==
  LET valid == {r \in S : Numeric(c.column) => Finite(rows[r][c.column])}
      left  == {r \in valid : Meets(r, c)}
  IN  [left |-> left, right |-> valid \ left]

FindNumericSplits(g, col) ==
  LET s == Sorted(FiniteRows(col, g.rows), LAMBDA r : rows[r][col])
      at(q) == (q * Len(s)) \div 4
      condition(q) == [column |-> col, op |-> "<=", value |-> s[at(q)] + s[at(q) + 1]]
  IN  IF Len(s) < 2 * call.minNumeric THEN {}
      ELSE {c \in {condition(q) : q \in {k \in 1 .. 3 : at(k) > 0}} :
              /\ Cardinality(PartitionRows(g.rows, c).left) >= call.minNumeric
              /\ Cardinality(PartitionRows(g.rows, c).right) >= call.minNumeric}

\* The most common category against the rest, the lowest index among ties.
FindCategoricalSplits(g, col) ==
  LET count(v) == Cardinality({r \in g.rows : rows[r][col] = v})
      present  == {rows[r][col] : r \in g.rows}
      common   == {v \in present : \A w \in present : count(w) <= count(v)}
      c        == [column |-> col, op |-> "in", value |-> Min(common)]
  IN  IF \/ Cardinality(g.rows) < 2 * call.minCateg
         \/ Cardinality(present) < 2
         \/ count(Min(common)) < call.minCateg
         \/ Cardinality(g.rows) - count(Min(common)) < call.minCateg
      THEN {} ELSE {c}

Splits(g) ==
  UNION {IF Numeric(col) THEN FindNumericSplits(g, col) ELSE FindCategoricalSplits(g, col) :
           col \in Columns \ {g.target}}

Branches(g, c) ==
  LET part == PartitionRows(g.rows, c)
      branch(S, d) ==
        IF Cardinality(S) < MinSize(g.target) THEN <<>>
        ELSE <<[g EXCEPT !.rows = S, !.conditions = Append(@, d), !.depth = @ + 1]>>
  IN  branch(part.left, c) \o branch(part.right, Inverted(c))

(***************************************************************************)
(* FitPredict: one group after the other, left branch before right, the    *)
(* groups of one target before those of the next.                          *)
(***************************************************************************)
TreeIdle ==
  /\ groups = <<>> /\ outliers = <<>> /\ slots = <<>> /\ evaluated = 0 /\ offered = {}

StartOutlierTree ==
  /\ groups' = IF Len(rows) < 2 THEN <<>>
               ELSE [t \in Columns |-> [target |-> t, rows |-> DOMAIN rows, conditions |-> <<>>, depth |-> 0]]
  /\ UNCHANGED <<outliers, slots, evaluated, offered>>

EvaluateGroup ==
  /\ stage = "run" /\ groups # <<>>
  /\ LET g == Head(groups) IN
     IF Cardinality(g.rows) < MinSize(g.target)
     THEN groups' = Tail(groups) /\ UNCHANGED <<outliers, slots, evaluated, offered>>
     ELSE /\ \E candidates \in {Candidates(g)} : \E order \in FlagOrders(g, candidates) :
               LET found == FlagUpTo(MaxOutliers(GroupSize(g)), order)
               IN  /\ outliers' = found.outliers /\ slots' = found.slots
                   /\ offered' = offered \cup candidates
          /\ evaluated' = evaluated + 1
          /\ \/ groups' = Tail(groups)
             \/ /\ g.depth < call.maxDepth
                /\ \E c \in Splits(g) : groups' = Branches(g, c) \o Tail(groups)
  /\ UNCHANGED stage

FinishOutlierTree ==
  /\ stage = "run" /\ groups = <<>>
  /\ stage' = "done"
  /\ UNCHANGED treeVars

OutlierTreeStep == EvaluateGroup \/ FinishOutlierTree
=============================================================================
