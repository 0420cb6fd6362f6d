-------------------------- MODULE AnomalyFunctions --------------------------
(***************************************************************************)
(* One call of an anomaly table function (src/src/anofox_metric.cpp,       *)
(* src/src/anofox_outlier_tree.cpp): its arguments are checked, the table  *)
(* is scanned on a sibling connection, and the clustering, the forest or   *)
(* the outlier tree runs on the rows that were kept.  The query may be     *)
(* interrupted at any time.                                                *)
(*                                                                         *)
(* A fraction is a pair <<n, d>>, NaN or Inf; Null is an argument that was *)
(* not given, or an SQL NULL in the table.  NaN in a point of dbscan       *)
(* stands for infinity as well.                                            *)
(***************************************************************************)
EXTENDS Integers, Sequences, SequencesExt, FiniteSetsExt

CONSTANTS
  Null, NaN, Inf, NegInf,
  Coefficients, MaxWeight, AveragePaths, Logarithms,
  Cases           \* pairs of a call and a table

(* The arguments are of the types that the functions are registered with,  *)
(* and so are the rows that dbscan and outlier_tree read; the logarithms   *)
(* of the forest are tabulated for as many rows as a table has.            *)
ASSUME CasesAssumption ==
  /\ AveragePaths \in Seq(Nat) /\ Logarithms \in Seq(Nat)
  /\ {Null, NaN, Inf, NegInf} \cap Int = {} /\ Null \notin {NaN, Inf, NegInf}
  /\ \A c \in Cases :
       /\ "fn" \in DOMAIN c[1] /\ c[1].fn \in {"dbscan", "forest", "tree"}
       /\ c[2] \in Seq(Range(c[2]))
       /\ c[1].fn = "dbscan" =>
            /\ {"columns", "types", "categories", "eps", "minPts"} \subseteq DOMAIN c[1]
            /\ c[1].columns \in Seq(Nat)
            /\ c[1].eps \in (Int \X (Nat \ {0})) \cup {Null, NaN, Inf}
            /\ c[1].minPts \in Int \cup {Null}
            /\ c[2] \in Seq([1 .. Len(c[1].columns) -> Int \cup {NaN, Null}])
       /\ c[1].fn = "forest" =>
            /\ {"columns", "types", "categories", "trees", "sampleSize", "contamination", "ndim",
                 "metric", "ntry", "weighted"} \subseteq DOMAIN c[1]
            /\ c[1].trees \in Int \cup {Null} /\ c[1].sampleSize \in Int \cup {Null}
            /\ c[1].contamination \in (Int \X (Nat \ {0})) \cup {Null, NaN, Inf}
            /\ Len(c[2]) <= Len(AveragePaths) /\ Len(c[2]) <= Len(Logarithms)
       /\ c[1].fn = "tree" =>
            /\ {"types", "maxDepth", "share", "minNumeric", "minCateg", "zNorm", "zOutlier"}
                 \subseteq DOMAIN c[1]
            /\ c[1].types \in Seq(STRING)
            /\ c[2] \in Seq([1 .. Len(c[1].types) -> Int \cup {NaN, Inf, NegInf, Null}])

VARIABLES
  given,          \* the arguments as written
  call,           \* the arguments with their defaults
  table,          \* the table: rows of the selected columns, the weight last
  scanned,        \* source_row
  rows,           \* the rows kept
  ids,            \* source_row_ids (and with them the values of id_column)
  stage,          \* "bind", "rejected", "scan", "run", "done" or "raised"
  interrupted,    \* whether the query was interrupted
  visited, label, cluster, count, queue, expanding, clusterId,
  step, sample, cumulative, nodes, pending, trees, scores, flags,
  groups, outliers, slots, evaluated, offered

D == INSTANCE Dbscan WITH NotFinite <- NaN
F == INSTANCE IsolationForest
T == INSTANCE OutlierTree

shared == <<given, call, table, scanned, rows, ids, interrupted>>
dbscanVars == <<visited, label, cluster, count, queue, expanding, clusterId>>
forestVars == <<step, sample, cumulative, nodes, pending, trees, scores, flags>>
treeVars == <<groups, outliers, slots, evaluated, offered>>
work == <<dbscanVars, forestVars, treeVars>>
vars == <<shared, stage, work>>

(***************************************************************************)
(* Binding.                                                                *)
(***************************************************************************)
Default(x, y) == IF x = Null THEN y ELSE x

OptionalInputs(c) ==
  CASE c.fn = "dbscan" ->
         [c EXCEPT !.eps = Default(@, <<1, 2>>), !.minPts = Default(@, 5)]
    [] c.fn = "forest" ->
         [c EXCEPT !.trees = Default(@, 100), !.sampleSize = Default(@, 256),
                   !.contamination = Default(@, <<1, 10>>), !.ndim = Default(@, 1),
                   !.metric = Default(@, "depth"), !.ntry = Default(@, 1)]
    [] c.fn = "tree" ->
         [c EXCEPT !.maxDepth = Default(@, 4), !.share = Default(@, <<1, 100>>),
                   !.minNumeric = Default(@, 25), !.minCateg = Default(@, 75),
                   !.zNorm = Default(@, <<267, 100>>), !.zOutlier = Default(@, <<8, 1>>)]

FiniteFraction(x) == x \notin {NaN, Inf}

\* max_perc_outliers and the two thresholds are compared only, so NaN passes, and Inf where
\* nothing bounds it from above.
AboveZero(x) == FiniteFraction(x) => x[1] > 0
AtMostOne(x) == x # Inf /\ (FiniteFraction(x) => x[1] <= x[2])

ParseDBSCANParameters(c) == FiniteFraction(c.eps) /\ c.eps[1] > 0 /\ c.minPts >= 1

SampleSizes == 1 .. 10000

ParseIsolationForestParameters(c) ==
  /\ c.trees \in 1 .. 500 /\ c.sampleSize \in SampleSizes
  /\ FiniteFraction(c.contamination)
  /\ c.contamination[1] >= 0 /\ 2 * c.contamination[1] <= c.contamination[2]
  /\ c.ndim \in 1 .. Len(c.types) /\ c.ntry >= 1
  /\ c.metric \in {"depth", "density", "adj_depth"}

ParseOutlierTreeParameters(c) ==
  /\ c.maxDepth \in 1 .. 1024 /\ c.minNumeric >= 1 /\ c.minCateg >= 1
  /\ AboveZero(c.share) /\ AtMostOne(c.share)
  /\ AboveZero(c.zOutlier) /\ AboveZero(c.zNorm)

\* Every column numeric, or categorical where the function takes categories, and none named twice.
ResolveFeatureColumns(c) ==
  /\ \A i \in DOMAIN c.types :
       c.types[i] \in {"numeric"} \cup (IF c.categories THEN {"category"} ELSE {})
  /\ IsInjective(c.columns)

Accepted(c) ==
  /\ CASE c.fn = "dbscan" -> ParseDBSCANParameters(c)
       [] c.fn = "forest" -> ParseIsolationForestParameters(c)
       [] c.fn = "tree"   -> ParseOutlierTreeParameters(c)
  /\ ResolveFeatureColumns(c)

Bind ==
  /\ stage = "bind"
  /\ LET c == OptionalInputs(given) IN
     /\ stage' = IF Accepted(c) THEN "scan" ELSE "rejected"
     /\ call' = c
  /\ UNCHANGED <<given, table, scanned, rows, ids, interrupted, work>>

(***************************************************************************)
(* Executing.                                                              *)
(***************************************************************************)
\* A row with a NULL in a selected column is skipped; in the forest, one with NaN in a feature too.
Skipped(row) ==
  \/ \E i \in DOMAIN row : row[i] = Null
  \/ call.fn = "forest" /\ \E f \in F!NumericFeatures : row[f] = NaN

(* Mutant: the rows kept are numbered, not the rows read. *)
ScanRowNumberingKept ==
  /\ stage = "scan" /\ scanned < Len(table) /\ ~interrupted
  /\ scanned' = scanned + 1
  /\ LET row == table[scanned + 1] IN
     IF Skipped(row)
     THEN UNCHANGED <<rows, ids>>
     ELSE rows' = Append(rows, row) /\ ids' = Append(ids, Len(ids) + 1)
  /\ UNCHANGED <<given, call, table, stage, interrupted, work>>

\* The loop over the chunks, which checks for an interrupt before each; a chunk is one row.
ScanRow ==
  /\ stage = "scan" /\ scanned < Len(table) /\ ~interrupted
  /\ scanned' = scanned + 1
  /\ LET row == table[scanned + 1] IN
     IF Skipped(row)
     THEN UNCHANGED <<rows, ids>>
     ELSE rows' = Append(rows, row) /\ ids' = Append(ids, scanned + 1)
  /\ UNCHANGED <<given, call, table, stage, interrupted, work>>

RaiseInScan ==
  /\ stage = "scan" /\ interrupted
  /\ stage' = "raised"
  /\ UNCHANGED <<shared, work>>

Fit ==
  /\ stage = "scan" /\ scanned = Len(table) /\ ~interrupted
  /\ stage' = "run"
  /\ \/ call.fn = "dbscan" /\ D!StartDbscan /\ UNCHANGED <<forestVars, treeVars>>
     \/ call.fn = "forest" /\ F!StartForest /\ UNCHANGED <<dbscanVars, treeVars>>
     \/ call.fn = "tree" /\ T!StartOutlierTree /\ UNCHANGED <<dbscanVars, forestVars>>
  /\ UNCHANGED shared

RunDbscan ==
  /\ stage = "run" /\ call.fn = "dbscan"
  /\ D!DbscanStep
  /\ UNCHANGED <<shared, forestVars, treeVars>>

RunForest ==
  /\ stage = "run" /\ call.fn = "forest"
  /\ F!ForestStep
  /\ UNCHANGED <<shared, dbscanVars, treeVars>>

RunOutlierTree ==
  /\ stage = "run" /\ call.fn = "tree"
  /\ T!OutlierTreeStep
  /\ UNCHANGED <<shared, dbscanVars, forestVars>>

\* The query is interrupted from outside.
Interrupt ==
  /\ stage \in {"scan", "run"} /\ ~interrupted
  /\ interrupted' = TRUE
  /\ UNCHANGED <<given, call, table, scanned, rows, ids, stage, work>>

(***************************************************************************)
(* The rows of the result, in the modes that return rows.                  *)
(***************************************************************************)
DbscanOutput ==
  [i \in DOMAIN rows |-> [row_id |-> ids[i], cluster_id |-> cluster[i], point_type |-> label[i],
                          neighbor_count |-> count[i], anomaly_score |-> D!AnomalyScore(i)]]

ForestOutput ==
  [i \in DOMAIN rows |-> [row_id |-> ids[i], anomaly_score |-> scores[i], is_anomaly |-> flags[i]]]

OutlierTreeOutput ==
  [k \in DOMAIN outliers |->
     LET f == outliers[k] IN
     [row_id |-> ids[f.row], column |-> f.target, outlier_value |-> rows[f.row][f.target]]]

Init ==
  /\ \E c \in Cases : given = c[1] /\ call = c[1] /\ table = c[2]
  /\ scanned = 0 /\ rows = <<>> /\ ids = <<>>
  /\ stage = "bind" /\ interrupted = FALSE
  /\ D!DbscanIdle /\ F!ForestIdle /\ T!TreeIdle

CallStep == Bind \/ ScanRow \/ RaiseInScan \/ Fit \/ RunDbscan \/ RunForest \/ RunOutlierTree

Next == CallStep \/ Interrupt

(***************************************************************************)
(* The call is one loop after another on one thread, so it goes on while   *)
(* it can.  A random target of exactly 0 is not drawn for ever.            *)
(***************************************************************************)
DrawAbove0 ==
  /\ stage = "run" /\ call.fn = "forest" /\ step = "draw"
  /\ \E t \in (1 .. MaxWeight) \cap F!Targets : F!Draw(t)
  /\ UNCHANGED <<shared, dbscanVars, treeVars>>

Spec == Init /\ [][Next]_vars

FairSpec == Spec /\ WF_vars(CallStep) /\ SF_vars(DrawAbove0)

(***************************************************************************)
(* Properties.                                                             *)
(***************************************************************************)
(* The clusters that the queue and the two neighbour searches arrive at    *)
(* are those of the definition, whatever the order: a border point taken   *)
(* for noise at first is in the first cluster that reaches it.  A point    *)
(* counts as one of its own min_pts, as the comments of anofox_dbscan.cpp  *)
(* at 140 and 214 have it; CoresAsDocumented is the reading of the docs.   *)
ClustersFollowDefinition ==
  stage = "done" /\ call.fn = "dbscan" =>
    /\ \A i \in DOMAIN rows : cluster[i] = D!ClusterByDefinition(i) /\ label[i] = D!LabelByDefinition(i)
    /\ D!DbscanSummary.noise = Cardinality({i \in DOMAIN rows : label[i] = "NOISE"})
    /\ D!DbscanSummary.clusters = Cardinality(D!FirstCores)

(* docs/api/08-anomaly-detection.md:372 and 404: the points reported as    *)
(* CORE are those with at least min_pts neighbours within eps, as the      *)
(* neighbor_count beside the label reports them.                           *)
CoresAsDocumented ==
  stage = "done" /\ call.fn = "dbscan" =>
    \A o \in Range(DbscanOutput) : o.point_type = "CORE" <=> o.neighbor_count >= call.minPts

(* A leaf says how many rows of the sample it holds: exactly those that    *)
(* the traversal which scores rows leads to it, within the depth limit.    *)
LeavesHoldWhatIsRouted ==
  \A k \in DOMAIN trees :
    LET tree == trees[k].nodes
        ends == [i \in trees[k].sample |-> F!Leaf(tree, F!Points[i])]
    IN  /\ \A i \in DOMAIN ends : ends[i].depth <= F!MaxDepth
        /\ \A n \in DOMAIN tree : tree[n].leaf =>
             tree[n].size = Cardinality({i \in DOMAIN ends : ends[i].node = n})

(* Sampling by weight takes as many different rows of positive weight as   *)
(* it is asked for, or all of them when there are fewer.                   *)
SampleIsFull ==
  call.fn = "forest" /\ stage \in {"run", "done"} =>
    LET weighed == {i \in DOMAIN F!Points : call.weighted => F!Positive(F!Weight(i))} IN
    \A k \in DOMAIN trees :
      /\ trees[k].sample \subseteq weighed
      /\ Cardinality(trees[k].sample) = Min({F!ActualSampleSize, Cardinality(weighed)})

(* Of the finite rows, contamination selects the highest scores: no more   *)
(* than its share unless all of these tie at the top, never all rows, and  *)
(* nobody is flagged before a row with a higher score.                     *)
FlagsFollowContamination ==
  stage = "done" /\ call.fn = "forest" =>
    LET finite  == {i \in DOMAIN rows : ~F!NonFinite(rows[i])}
        flagged == {i \in finite : flags[i]}
        top     == {i \in finite : \A j \in finite : scores[j] <= scores[i]}
    IN  /\ \A i \in flagged, j \in finite : scores[j] >= scores[i] => flags[j]
        /\ finite # {} => flagged # finite
        /\ \/ flagged = top
           \/ Cardinality(flagged) * call.contamination[2]
                <= call.contamination[1] * (Cardinality(finite) - 1) + call.contamination[2] - 1

(* What is reported under a row number is said of the row of the table     *)
(* with that number, also after rows that were skipped and around infinite *)
(* rows, which the forest never sees and which are always anomalies.       *)
RowIdsNameTheirRows ==
  stage = "done" =>
    /\ Range(ids) = {r \in DOMAIN table : ~Skipped(table[r])}
    /\ call.fn = "dbscan" => \A o \in Range(DbscanOutput) :
         o.neighbor_count = Cardinality({j \in DOMAIN rows : /\ ids[j] # o.row_id
                                                              /\ D!Near(table[o.row_id], rows[j])})
    /\ call.fn = "forest" => \A o \in Range(ForestOutput) :
         IF F!NonFinite(table[o.row_id])
         THEN o.is_anomaly /\ \A q \in Range(ForestOutput) : q.anomaly_score <= o.anomaly_score
         ELSE o.anomaly_score = F!ScoreMixed(table[o.row_id])
    /\ call.fn = "tree" => \A o \in Range(OutlierTreeOutput) :
         o.outlier_value = table[o.row_id][o.column]

(* The conditions in a finding's explanation hold for exactly the rows of  *)
(* the group it was compared with, which its row is one of.                *)
ConditionsDescribeTheGroup ==
  call.fn = "tree" =>
    \A k \in DOMAIN outliers :
      LET f     == outliers[k]
          group == {r \in DOMAIN rows : \A c \in Range(f.conditions) : T!Meets(r, c)}
          size  == Cardinality({r \in group : T!Numeric(f.target) => T!Finite(rows[r][f.target])})
      IN  f.row \in group /\ f.size = size

(* A row is reported once per column, by the finding with the lowest score *)
(* of those that were not cut off by a group's share.                      *)
ReportedOncePerColumn ==
  \A k \in DOMAIN outliers :
    LET f == outliers[k] IN
    /\ slots[<<f.row, f.target>>] = k
    /\ f \in offered
    /\ Cardinality({j \in DOMAIN outliers : /\ outliers[j].target = f.target
                                             /\ outliers[j].conditions = f.conditions})
         <= T!MaxOutliers(f.size)

(* Every call comes to an end: a result, a rejection or an error.          *)
CallEnds == <>(stage \in {"rejected", "done", "raised"})

(* docs/reference/troubleshooting.md:94: an interrupt stops the anomaly    *)
(* functions "while they fit or score".                                    *)
InterruptedCallEnds == interrupted ~> stage \in {"done", "raised"}

(* docs/api/08-anomaly-detection.md:552: "a flagged value is always        *)
(* outside its reported range".                                            *)
FlaggedOutsideRange ==
  call.fn = "tree" =>
    \A k \in DOMAIN outliers :
      LET f == outliers[k]
          v == rows[f.row][f.target]
      IN  T!Numeric(f.target) /\ T!Finite(v) =>
            ~T!AtLeast(call.zNorm, T!AbsZ(v, f.range[1], f.range[2]))
=============================================================================
