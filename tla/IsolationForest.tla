--------------------------- MODULE IsolationForest ---------------------------
(***************************************************************************)
(* The isolation forest of isolation_forest and isolation_forest_mv        *)
(* (src/src/anofox_isolation_forest.cpp): sampling, the random trees, the  *)
(* traversals that score a row, and the threshold.                         *)
(*                                                                         *)
(* A number is an integer, a category any other value, and a row holding   *)
(* Inf is infinite.  A split is drawn at random in the code, so it is any  *)
(* split here; which of `ntry' candidates has the largest gain is left     *)
(* out, as any valid one can be drawn alone.  The logarithms that scores   *)
(* are made of are tables of numbers.                                      *)
(***************************************************************************)
EXTENDS Integers, Sequences, SequencesExt, FiniteSetsExt

CONSTANTS
  Inf, NaN,
  Coefficients,   \* the hyperplane coefficients that may be drawn
  MaxWeight,      \* bound on the sum of the weights
  AveragePaths,   \* 2 (ln(n - 1) + gamma) - 2 (n - 1) / n, in thousandths
  Logarithms      \* ln n, in thousandths

VARIABLES
  call,         \* the arguments
  rows,         \* the scanned rows: features, then the weight
  stage,        \* "run" while the forest is fitted and scores
  interrupted,
  step,         \* "tree", "draw", "build" or "score"
  sample,       \* the rows drawn for the tree being built
  cumulative,   \* WeightedSample: the cumulative weights
  nodes,        \* the tree being built, in preorder
  pending,      \* the subtrees still to build: rows, depth, parent and side
  trees,        \* the trees built, with their samples
  scores,       \* the score of each scanned row
  flags         \* is_anomaly of each scanned row

forestVars == <<step, sample, cumulative, nodes, pending, trees, scores, flags>>

(***************************************************************************)
(* The rows.                                                               *)
(***************************************************************************)
Features == DOMAIN call.types

NumericFeatures == {f \in Features : call.types[f] = "numeric"}

NonFinite(r) == \E f \in NumericFeatures : r[f] = Inf

FiniteRows == {i \in DOMAIN rows : ~NonFinite(rows[i])}

\* The number of a row among the finite ones.
Position(i) == Cardinality({j \in FiniteRows : j <= i})

\* The rows the forest is fitted on and scores, in their order; infinite ones stay out of it.
Points ==
  [k \in 1 .. Cardinality(FiniteRows) |-> rows[CHOOSE i \in FiniteRows : Position(i) = k]]

Weight(i) == Points[i][Len(call.types) + 1]

UseMixedPath ==
  \/ NumericFeatures # Features
  \/ call.weighted
  \/ call.ndim > 1
  \/ call.metric # "depth"
  \/ call.ntry > 1

ActualSampleSize == Min({call.sampleSize, Len(Points)})

\* ceil(log2(actual_sample_size_)) + 1.
MaxDepth ==
  LET log2[n \in 1 .. ActualSampleSize] == IF n = 1 THEN 0 ELSE 1 + log2[(n + 1) \div 2]
  IN  log2[ActualSampleSize] + 1

AveragePathLength(n) == IF n <= 1 THEN 0 ELSE AveragePaths[n]

LogSize(n) == IF n <= 1 THEN 0 ELSE Logarithms[n]

(***************************************************************************)
(* Sampling.                                                               *)
(***************************************************************************)
Add(a, b) == IF NaN \in {a, b} THEN NaN ELSE a + b
Subtract(a, b) == IF NaN \in {a, b} THEN NaN ELSE a - b
Positive(a) == a # NaN /\ a > 0

TotalWeight == Last(cumulative)

\* u * total_weight for u in [0, 1): an integer t stands for the targets above t - 1 up to t.
Targets == IF TotalWeight = NaN THEN {NaN} ELSE 0 .. TotalWeight

\* The binary search; no comparison with NaN is true, so NaN ends at the first row.
SearchTarget(t) ==
  IF t = NaN THEN 1 ELSE Min({i \in DOMAIN cumulative : cumulative[i] >= t})

\* The unused row nearest to a used one, the earlier of two at one distance.
Usable(i) == i \in DOMAIN cumulative /\ i \notin sample /\ Positive(Weight(i))

Nearest(i) ==
  LET d == Min({e \in 1 .. Len(cumulative) : Usable(i - e) \/ Usable(i + e)})
  IN  IF Usable(i - d) THEN i - d ELSE i + d

NoneUsable == \A i \in DOMAIN cumulative : ~Usable(i)

Exhausted(total) == total # NaN /\ total <= 0

\* One round of the loop of WeightedSample.
Draw(t) ==
  /\ stage = "run" /\ step = "draw"
  /\ LET found  == SearchTarget(t)
         chosen == IF found \in sample /\ ~NoneUsable THEN Nearest(found) ELSE found
         after  == [i \in DOMAIN cumulative |->
                      IF i < chosen THEN cumulative[i]
                      ELSE Subtract(cumulative[i], Weight(chosen))]
     IN  \/ /\ found \in sample /\ NoneUsable
            /\ step' = "build"
            /\ UNCHANGED <<sample, cumulative>>
         \/ /\ Usable(chosen)
            /\ sample' = sample \cup {chosen}
            /\ cumulative' = after
            /\ step' = IF Cardinality(sample) + 1 = ActualSampleSize \/ Exhausted(Last(after))
                       THEN "build"
                       ELSE "draw"
         \/ \* a row of no weight was hit: the loop tries again
            /\ found \notin sample /\ ~Usable(found)
            /\ UNCHANGED <<step, sample, cumulative>>
  /\ UNCHANGED <<stage, nodes, pending, trees, scores, flags>>

StartWeighted ==
  LET cum[i \in DOMAIN Points] == IF i = 1 THEN Weight(1) ELSE Add(cum[i - 1], Weight(i))
  IN  /\ sample' = {}
      /\ cumulative' = cum
      /\ step' = IF Exhausted(Last(cum)) THEN "build" ELSE "draw"

\* The shuffle, cut at the sample size.
StartUniform ==
  /\ sample' \in kSubset(ActualSampleSize, DOMAIN Points)
  /\ cumulative' = <<>>
  /\ step' = "build"

NegativeWeight == call.weighted /\ \E i \in DOMAIN Points : Weight(i) # NaN /\ Weight(i) < 0

\* Fit and FitMixed check for an interrupt before each tree, and nowhere else.
StartTree ==
  /\ stage = "run" /\ step = "tree" /\ Len(trees) < call.trees /\ ~interrupted
  /\ ~NegativeWeight
  /\ IF call.weighted THEN StartWeighted ELSE StartUniform
  /\ nodes' = <<>>
  /\ pending' = <<[rows |-> {}, depth |-> 0, parent |-> 0, side |-> "root"]>>
  /\ UNCHANGED <<stage, trees, scores, flags>>

(***************************************************************************)
(* Building a tree.                                                        *)
(***************************************************************************)
Projection(sp, p) == FoldLeftDomain(LAMBDA s, i : s + sp.coefs[i] * p[sp.features[i]], 0, sp.coefs)

\* The side of a split a row takes, the same for every traversal and every scoring metric.
GoesLeft(sp, p) ==
  IF sp.kind = "category" THEN p[sp.feature] \in sp.left ELSE Projection(sp, p) < sp.cut

\* The splits one attempt may make of S: none when the drawn feature or hyperplane is constant.
NumericSplits(S, features, coefs) ==
  LET plane == [kind |-> "plane", features |-> features, coefs |-> coefs, cut |-> 0]
      at == {Projection(plane, Points[i]) : i \in S}
  IN  IF Min(at) >= Max(at) THEN {}
      ELSE {[plane EXCEPT !.cut = v] : v \in (IF UseMixedPath THEN Min(at) + 1 ELSE Min(at)) .. Max(at)}

CategoricalSplits(S, f) ==
  LET present == {Points[i][f] : i \in S} IN
  {[kind |-> "category", feature |-> f, left |-> L] : L \in SUBSET present \ {{}, present}}

HyperplaneSplits(S, ndim) ==
  {NumericSplits(S, fs, cs) :
     fs \in {q \in [1 .. ndim -> NumericFeatures] : IsInjective(q)},
     cs \in [1 .. ndim -> Coefficients]}

Attempts(S) ==
  LET ndim == Min({call.ndim, Cardinality(NumericFeatures)}) IN
  IF ndim > 1
  THEN HyperplaneSplits(S, ndim)
  ELSE {NumericSplits(S, <<f>>, <<1>>) : f \in NumericFeatures}
         \cup {CategoricalSplits(S, f) : f \in Features \ NumericFeatures}

\* The subtree to build next; the root holds the whole sample.
Current == Head(pending)
CurrentRows == IF Current.side = "root" THEN sample ELSE Current.rows

\* The new node is pushed where the parent's link points.
Push(node) ==
  nodes' = Append(IF Current.side = "root" THEN nodes
                  ELSE [nodes EXCEPT ![Current.parent][Current.side] = Len(nodes) + 1],
                  node)

MustBeLeaf == Cardinality(CurrentRows) <= 1 \/ Current.depth >= MaxDepth

BuildLeaf ==
  /\ stage = "run" /\ step = "build" /\ pending # <<>>
  /\ ~MustBeLeaf => {} \in Attempts(CurrentRows)
  /\ Push([leaf |-> TRUE, size |-> Cardinality(CurrentRows)])
  /\ pending' = Tail(pending)
  /\ UNCHANGED <<stage, step, sample, cumulative, trees, scores, flags>>

(* Mutant: the rows at the cut go left while the tree is built. *)
LeftRowsWithCut(S, sp) ==
  {i \in S : \/ GoesLeft(sp, Points[i])
              \/ (sp.kind = "plane" /\ Projection(sp, Points[i]) = sp.cut)}

LeftRows(S, sp) == {i \in S : GoesLeft(sp, Points[i])}

BuildSplit ==
  /\ stage = "run" /\ step = "build" /\ pending # <<>>
  /\ ~MustBeLeaf
  /\ \E sp \in UNION Attempts(CurrentRows) :
       LET left == LeftRows(CurrentRows, sp)
           child(S, side) ==
             [rows |-> S, depth |-> Current.depth + 1, parent |-> Len(nodes) + 1, side |-> side]
       IN  /\ Push([leaf |-> FALSE, split |-> sp, left |-> 0, right |-> 0])
           /\ pending' = <<child(left, "left"), child(CurrentRows \ left, "right")>>
                           \o Tail(pending)
  /\ UNCHANGED <<stage, step, sample, cumulative, trees, scores, flags>>

FinishTree ==
  /\ stage = "run" /\ step = "build" /\ pending = <<>>
  /\ trees' = Append(trees, [sample |-> sample, nodes |-> nodes])
  /\ step' = IF Len(trees) + 1 = call.trees THEN "score" ELSE "tree"
  /\ nodes' = <<>> /\ sample' = {} /\ cumulative' = <<>>
  /\ UNCHANGED <<stage, pending, scores, flags>>

(***************************************************************************)
(* Scoring.                                                                *)
(***************************************************************************)
\* The leaf a row ends in, and the depth it is reached at.
Leaf(tree, p) ==
  LET at[k \in DOMAIN tree] ==
        IF tree[k].leaf THEN [node |-> k, depth |-> 0]
        ELSE LET below == at[IF GoesLeft(tree[k].split, p) THEN tree[k].left ELSE tree[k].right]
             IN  [below EXCEPT !.depth = @ + 1]
  IN  at[1]

LeafSize(tree, p) == tree[Leaf(tree, p).node].size

PathLength(tree, p) == 1000 * Leaf(tree, p).depth + AveragePathLength(LeafSize(tree, p))

SumOver(f(_)) ==
  LET sum[k \in 0 .. Len(trees)] == IF k = 0 THEN 0 ELSE sum[k - 1] + f(trees[k].nodes)
  IN  sum[Len(trees)]

\* The exponent of 2^(-path / c), or minus the mean of the log densities: both as a sum over the
\* trees, which orders the rows as the score does.  adj_depth adds 1 per split, like depth.
ScoreMixed(p) ==
  IF call.metric = "density" THEN - SumOver(LAMBDA t : LogSize(LeafSize(t, p)))
  ELSE IF AveragePathLength(ActualSampleSize) = 0 THEN 0
  ELSE - SumOver(LAMBDA t : PathLength(t, p))

\* The score of an infinite row, 1.0, which no row of the forest exceeds.
AnomalyScore == 1

\* ComputeThreshold, NoAnomalies for infinity.
NoAnomalies == AnomalyScore + 1

\* The scores in ascending order: the k-th has fewer than k below it, and k or more up to it.
Ascending(s) ==
  [k \in DOMAIN s |-> CHOOSE v \in Range(s) : /\ Cardinality({i \in DOMAIN s : s[i] < v}) < k
                                              /\ k <= Cardinality({i \in DOMAIN s : s[i] <= v})]

(* Mutant: the score at the cut is the threshold, ties or not. *)
ComputeThresholdAtCut(finite) ==
  LET sorted == Ascending(finite)
      n   == Len(finite)
      k   == n - 1 - ((call.contamination[2] - call.contamination[1]) * (n - 1))
                       \div call.contamination[2]
  IN  IF n = 0 \/ k = 0 THEN NoAnomalies ELSE sorted[n - k + 1]

ComputeThreshold(finite) ==
  LET sorted == Ascending(finite)
      n   == Len(finite)
      k   == n - 1 - ((call.contamination[2] - call.contamination[1]) * (n - 1))
                       \div call.contamination[2]
      cut == sorted[n - k]
  IN  IF n = 0 \/ k = 0 THEN NoAnomalies
      ELSE IF sorted[1] = sorted[n] THEN NoAnomalies
      ELSE IF cut = sorted[n] THEN sorted[n]
      ELSE Min({sorted[j] : j \in {i \in n - k + 1 .. n : sorted[i] # cut}})

IsAnomaly(score, threshold) == threshold # NoAnomalies /\ score >= threshold

\* ScoreBatch of the points, then FinishIsolationForestScores, which merges the two kinds of row.
Finish(finite) ==
  LET score(i) == IF NonFinite(rows[i]) THEN AnomalyScore ELSE finite[Position(i)]
  IN  /\ scores' = [i \in DOMAIN rows |-> score(i)]
      /\ \E threshold \in {ComputeThreshold(finite)} :
           flags' = [i \in DOMAIN rows |-> NonFinite(rows[i]) \/ IsAnomaly(score(i), threshold)]

ScoreRows ==
  /\ stage = "run" /\ step = "score" /\ (Points = <<>> \/ ~interrupted)
  /\ \E finite \in {[i \in DOMAIN Points |-> ScoreMixed(Points[i])]} : Finish(finite)
  /\ stage' = "done"
  /\ UNCHANGED <<step, sample, cumulative, nodes, pending, trees>>

\* The interrupt checks, and a weight that FitMixed refuses.
RaiseInForest ==
  /\ stage = "run" /\ step \in {"tree", "score"} /\ Points # <<>>
  /\ interrupted \/ NegativeWeight
  /\ stage' = "raised"
  /\ UNCHANGED forestVars

(***************************************************************************)
(* The call.  A forest of no points is neither fitted nor asked.           *)
(***************************************************************************)
ForestIdle ==
  /\ step = "tree" /\ sample = {} /\ cumulative = <<>> /\ nodes = <<>> /\ pending = <<>>
  /\ trees = <<>> /\ scores = <<>> /\ flags = <<>>

StartForest ==
  /\ step' = IF Points = <<>> THEN "score" ELSE "tree"
  /\ UNCHANGED <<sample, cumulative, nodes, pending, trees, scores, flags>>

ForestStep ==
  \/ StartTree
  \/ \E t \in (0 .. MaxWeight) \cup {NaN} : step = "draw" /\ t \in Targets /\ Draw(t)
  \/ BuildLeaf \/ BuildSplit \/ FinishTree
  \/ ScoreRows \/ RaiseInForest
=============================================================================
