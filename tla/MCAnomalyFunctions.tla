------------------------- MODULE MCAnomalyFunctions -------------------------
(***************************************************************************)
(* Small calls of the anomaly functions.                                   *)
(***************************************************************************)
EXTENDS AnomalyFunctions

\* The coefficients of a hyperplane's columns.
MCCoefficients == {-1, 1}

\* For up to nine rows, the longest table.
MCAveragePaths == <<0, 154, 1207, 1852, 2327, 2707, 3024, 3297, 3536>>
MCLogarithms   == <<0, 693, 1098, 1386, 1609, 1791, 1945, 2079, 2197>>

DbscanCall(columns, eps, minPts) ==
  [fn |-> "dbscan", columns |-> columns, types |-> [i \in DOMAIN columns |-> "numeric"],
   categories |-> FALSE, eps |-> eps, minPts |-> minPts]

ForestCall(types) ==
  [fn |-> "forest", columns |-> [i \in DOMAIN types |-> i], types |-> types,
   categories |-> Len(types) > 1, trees |-> 1, sampleSize |-> 4, contamination |-> <<1, 2>>,
   ndim |-> 1, metric |-> "depth", ntry |-> 1, weighted |-> FALSE]

TreeCall(types) ==
  [fn |-> "tree", columns |-> [i \in DOMAIN types |-> i], types |-> types, categories |-> TRUE,
   maxDepth |-> 1, share |-> <<1, 4>>, minNumeric |-> 3, minCateg |-> 3, zNorm |-> <<1, 1>>,
   zOutlier |-> <<2, 1>>]

OneColumn(n, S) == {[i \in 1 .. n |-> <<v[i]>>] : v \in [1 .. n -> S]}

(***************************************************************************)
(* dbscan: every order of few points, and two clusters with a border point *)
(* (1) between them, met before, between and after their core points.      *)
(***************************************************************************)
Between == {<<1, 0, 2, -1, -1, 3, 3>>, <<0, 1, 2, -1, -1, 3, 3>>, <<0, 2, 1, -1, 3, -1, 3>>,
            <<2, 0, -1, -1, 3, 3, 1>>, <<3, -1, 1, -1, 3, 2, 0>>, <<-1, 3, 2, 1, 0, 3, -1>>}

DbscanCases ==
  ({DbscanCall(<<1>>, <<1, 1>>, m) : m \in {2, 3}} \X OneColumn(4, {0, 1, 2, NaN}))
    \cup ({DbscanCall(<<1>>, <<1, 1>>, 4)} \X {[i \in 1 .. 7 |-> <<v[i]>>] : v \in Between})
    \cup ({DbscanCall(<<1, 2>>, <<1, 1>>, 3)} \X
            [1 .. 4 -> {<<0, 0>>, <<1, 0>>, <<1, 1>>, <<2, 1>>, <<Null, 0>>}])
    \cup ({DbscanCall(<<1>>, e, m) : e \in {Null, NaN, Inf, <<0, 1>>}, m \in {Null, 0, 1}}
            \X OneColumn(2, {0, 1}))
    \cup {<<DbscanCall(<<1, 1>>, <<1, 1>>, 1), <<>>>>}

(***************************************************************************)
(* isolation_forest: infinite, NaN and NULL rows among finite ones, and    *)
(* ties; isolation_forest_mv: categories, hyperplanes, the metrics, two    *)
(* trees and weights.                                                      *)
(***************************************************************************)
Odd == {<<0, Inf, 1, 1>>, <<Inf, Null, 2, 0, 0>>, <<Inf, NaN>>, <<0, 0, NaN, 0, 4>>, <<1>>, <<>>}

Weighted == [ForestCall(<<"numeric">>) EXCEPT !.weighted = TRUE, !.categories = TRUE, !.sampleSize = 2]

ByWeight(w) == [i \in DOMAIN w |-> <<i, w[i]>>]

Mixed == {<< <<0, "x">>, <<1, "x">>, <<1, "y">>, <<Inf, "z">>, <<5, "z">> >>,
          << <<2, "y">>, <<2, "y">>, <<2, "x">>, <<Null, "x">> >>}

Plane == {<< <<0, 0>>, <<1, 1>>, <<2, 1>>, <<0, 2>> >>, << <<1, 1>>, <<2, 2>>, <<1, 1>> >>}

ForestCases ==
  ({[ForestCall(<<"numeric">>) EXCEPT !.contamination = c] : c \in {<<0, 1>>, <<1, 4>>, <<1, 2>>}}
      \X {[i \in DOMAIN v |-> <<v[i]>>] : v \in Odd})
    \cup ({ForestCall(<<"numeric">>)} \X OneColumn(4, {0, 1, 5}))
    \cup ({[ForestCall(<<"numeric">>) EXCEPT !.sampleSize = 2, !.trees = 2]} \X OneColumn(3, {0, 1, 5}))
    \cup ({[ForestCall(<<"numeric", "category">>) EXCEPT !.metric = m] : m \in {"density", "adj_depth"}}
            \X Mixed)
    \cup ({[ForestCall(<<"numeric", "numeric">>) EXCEPT !.ndim = 2]} \X Plane)
    \cup ({Weighted} \X {ByWeight(w) : w \in [1 .. 3 -> 0 .. 2] \cup {<<1, NaN, 1>>, <<1, 1, NaN>>}})
    \cup ({[Weighted EXCEPT !.sampleSize = 3]} \X {ByWeight(w) : w \in [1 .. 3 -> 0 .. 1]})
    \cup ({[ForestCall(<<"numeric">>) EXCEPT !.trees = t, !.sampleSize = s, !.contamination = c,
                                            !.ndim = d, !.ntry = n, !.metric = m] :
             t \in {Null, 0}, s \in {Null, 10001}, c \in {Null, NaN, <<2, 3>>}, d \in {Null, 2},
             n \in {Null, 0}, m \in {Null, "length"}} \X {<<>>})
    \cup {<<ForestCall(<<"date">>), <<>>>>}

(***************************************************************************)
(* outlier_tree: a numeric column beside a category that splits it, and    *)
(* two numeric columns; the last value of the first column varies.         *)
(***************************************************************************)
Salaries(v, w) ==
  << <<1, 1>>, <<1, 1>>, <<2, 1>>, <<v, 1>>, <<9, 2>>, <<9, 2>>, <<8, 2>>, <<w, 2>>, <<Null, 2>> >>

Rare(v) == << <<1, 1>>, <<1, 1>>, <<2, 1>>, <<1, 1>>, <<v, 1>>, <<2, 2>>, <<1, 1>>, <<2, 1>> >>

\* Two values that are outliers of all rows, and more so of their own category.
Twice == << <<9, 2>>, <<9, 2>>, <<9, 2>>, <<9, 2>>, <<-1, 2>>, <<19, 2>>, <<6, 1>>, <<12, 1>>, <<6, 1>> >>

TreeCases ==
  ({[TreeCall(<<"numeric", "category">>) EXCEPT !.maxDepth = d] : d \in {1, 2}}
      \X {Salaries(v, w) : v, w \in {1, 9, 30, Inf, NaN}})
    \cup ({[TreeCall(<<"numeric", "category">>) EXCEPT !.share = s] : s \in {<<1, 4>>, <<1, 2>>}}
            \X {Rare(v) : v \in {1, 2, 40, NegInf}})
    \cup ({[TreeCall(<<"numeric", "category">>) EXCEPT !.share = <<1, 6>>]} \X {Twice})
    \cup ({[TreeCall(<<"numeric", "numeric">>) EXCEPT !.maxDepth = 2]} \X {Salaries(v, 1) : v \in {1, 9, 40}})
    \cup ({[TreeCall(<<"numeric">>) EXCEPT !.maxDepth = d, !.share = s, !.minNumeric = n,
                                         !.minCateg = n, !.zNorm = z, !.zOutlier = z] :
             d \in {Null, 0, 1025}, s \in {Null, Inf, <<0, 1>>, <<3, 2>>}, n \in {Null, 0},
             z \in {Null, NaN, <<0, 1>>}} \X {<<>>})

AllCases == DbscanCases \cup ForestCases \cup TreeCases

\* A weight that is not a number before or at a first row of no weight.
NaNWeights == {Weighted} \X {ByWeight(w) : w \in {<<NaN, 1, 1>>, <<0, 1, NaN>>}}

\* A normal range wider than the threshold of an outlier.
WideRange ==
  {[TreeCall(<<"numeric", "category">>) EXCEPT !.zNorm = <<3, 1>>]}
    \X ({Salaries(v, w) : v, w \in {1, 9, 30}} \cup {Twice})
=============================================================================
