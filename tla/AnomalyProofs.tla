--------------------------- MODULE AnomalyProofs ----------------------------
(***************************************************************************)
(* Proofs about a call of an anomaly table function, AnomalyFunctions with *)
(* Dbscan, IsolationForest and OutlierTree, for all cases and all tables.  *)
(*                                                                         *)
(* Of dbscan the invariant says, for every point of the expansion, which   *)
(* points are settled and which wait in the queue; of outlier_tree, that   *)
(* the rows of every group that waits are exactly those that meet its      *)
(* conditions; of the scan, that the rows kept have the numbers they have  *)
(* in the table; of the forest, that the splits above every node, built or *)
(* waiting, lead exactly its rows of the sample to it.                     *)
(***************************************************************************)
EXTENDS AnomalyFunctions, FiniteSetTheorems, SequenceTheorems, TLAPS

(* A set of natural numbers has a least one.                               *)
LEMMA LeastNatural ==
  ASSUME NEW N \in SUBSET Nat, N # {}
  PROVE  \E m \in N : \A k \in N : m <= k
<1> DEFINE R == {e \in Nat \X Nat : e[1] < e[2]}
<1>1. IsWellFoundedOn(R, Nat)
  BY NatLessThanWellFounded DEF OpToRel
<1>2. PICK m \in N : \A k \in N : <<k, m>> \notin R
  BY <1>1, WFMin
<1>3. ASSUME NEW k \in N PROVE m <= k
  <2>1. m \in Nat /\ k \in Nat /\ <<k, m>> \in Nat \X Nat /\ <<k, m>>[1] = k /\ <<k, m>>[2] = m
    OBVIOUS
  <2>2. ~(k < m)
    BY <1>2, <2>1
  <2> QED
    BY <2>1, <2>2
<1> QED
  BY <1>3

(* A sum of one squared difference.                                        *)
LEMMA TotalOfOne ==
  ASSUME NEW d \in Seq(Int), Len(d) = 1
  PROVE  D!Total(d) = d[1]
<1> DEFINE IsSum(g) == g = [k \in 0..Len(d) |-> IF k = 0 THEN 0 ELSE g[k - 1] + d[k]]
           sum == CHOOSE g : IsSum(g)
<1>1. d[1] \in Int
  OBVIOUS
<1>2. IsSum([k \in 0..1 |-> IF k = 0 THEN 0 ELSE d[1]])
  BY <1>1
<1>3. IsSum(sum)
  BY <1>2
<1>5. D!Total(d) = sum[Len(d)]
  BY DEF D!Total
<1> HIDE DEF sum
<1>6. sum = [k \in 0..Len(d) |-> IF k = 0 THEN 0 ELSE sum[k - 1] + d[k]]
  BY <1>3
<1>7. 0 \in 0..Len(d) /\ 1 \in 0..Len(d)
  OBVIOUS
<1>8. \A k \in 0..Len(d) : sum[k] = IF k = 0 THEN 0 ELSE sum[k - 1] + d[k]
  BY <1>6
<1>9. sum[0] = 0
  BY <1>7, <1>8
<1>10. sum[1] = sum[1 - 1] + d[1]
  BY <1>7, <1>8
<1>4. sum[0] = 0 /\ sum[1] = sum[0] + d[1]
  BY <1>9, <1>10
<1> QED
  BY <1>1, <1>4, <1>5

(* A set of natural numbers has a least one, and Min is it.                *)
LEMMA MinIsLeast ==
  ASSUME NEW S \in SUBSET Nat, S # {}
  PROVE  Min(S) \in S /\ \A k \in S : Min(S) <= k
<1> QED
  BY LeastNatural DEF Min

Number(S, R, b) == Cardinality({a \in S : <<a, b>> \in R}) + 1

(* The elements of a finite set under a strict total order are numbered by *)
(* how many come before them, each number given once.                      *)
LEMMA NumberedInOrder ==
  ASSUME NEW S, IsFiniteSet(S), NEW R \in SUBSET (S \X S),
         \A a, b \in S : a = b \/ <<a, b>> \in R \/ <<b, a>> \in R,
         \A a, b \in S : <<a, b>> \in R => <<b, a>> \notin R,
         \A a, b, c \in S : <<a, b>> \in R /\ <<b, c>> \in R => <<a, c>> \in R
  PROVE  /\ Cardinality(S) \in Nat
         /\ \A b \in S : Number(S, R, b) \in 1..Cardinality(S)
         /\ \A b, c \in S : <<b, c>> \in R => Number(S, R, b) < Number(S, R, c)
         /\ \A k \in 1..Cardinality(S) : \E b \in S : Number(S, R, b) = k
<1> DEFINE n == Cardinality(S)
           Before(b) == {a \in S : <<a, b>> \in R}
<1>1. n \in Nat /\ IsFiniteSet(1..n) /\ Cardinality(1..n) = n
  <2>1. n \in Nat
    BY FS_CardinalityType
  <2> HIDE DEF n
  <2> QED
    BY <2>1, FS_Interval
<1>2. ASSUME NEW b \in S
      PROVE  IsFiniteSet(Before(b)) /\ Cardinality(Before(b)) \in Nat /\ Cardinality(Before(b)) + 1 \in 1..n
  <2>1. Before(b) \in SUBSET S /\ Before(b) # S
    OBVIOUS
  <2> HIDE DEF Before
  <2>2. IsFiniteSet(Before(b)) /\ Cardinality(Before(b)) <= n /\ n # Cardinality(Before(b))
    BY <2>1, FS_Subset
  <2>3. Cardinality(Before(b)) \in Nat
    BY <2>2, FS_CardinalityType
  <2> QED
    BY <1>1, <2>2, <2>3
<1>3. ASSUME NEW b \in S, NEW c \in S, <<b, c>> \in R
      PROVE  Cardinality(Before(b)) < Cardinality(Before(c))
  <2>1. Before(b) \in SUBSET Before(c) /\ b \in Before(c) /\ b \notin Before(b)
    BY <1>3
  <2> HIDE DEF Before
  <2>2. Cardinality(Before(b)) <= Cardinality(Before(c)) /\ Cardinality(Before(c)) # Cardinality(Before(b))
    BY <1>2, <2>1, FS_Subset
  <2> QED
    BY <1>2, <2>2
<1> DEFINE f == [b \in S |-> Cardinality(Before(b)) + 1]
<1> HIDE DEF Before, n
<1>4. f \in [S -> 1..n] /\ \A b \in S : f[b] = Cardinality(Before(b)) + 1
  BY <1>2
<1>5. \A b, c \in S : f[b] = f[c] => b = c
  <2>1. ASSUME NEW b \in S, NEW c \in S, f[b] = f[c], b # c
        PROVE  FALSE
    <3>1. CASE <<b, c>> \in R
      BY <1>2, <1>3, <1>4, <2>1, <3>1
    <3>2. CASE <<c, b>> \in R
      BY <1>2, <1>3, <1>4, <2>1, <3>2
    <3> QED
      BY <2>1, <3>1, <3>2
  <2> QED
    BY <2>1
<1> HIDE DEF f
<1>6. f \in Injection(S, 1..n)
  BY <1>4, <1>5 DEF Injection, IsInjective
<1>7. f \in Surjection(S, 1..n)
  BY <1>1, <1>6, FS_Injection DEF n
<1>8. \A k \in 1..n : \E b \in S : f[b] = k
  BY <1>7 DEF Surjection
<1>9. \A k \in 1..n : \E b \in S : Cardinality(Before(b)) + 1 = k
  BY <1>4, <1>8
<1>10. \A b \in S : Number(S, R, b) = Cardinality(Before(b)) + 1
  BY DEF Number, Before
<1>11. \A b, c \in S : <<b, c>> \in R => Number(S, R, b) < Number(S, R, c)
  BY <1>2, <1>3, <1>10
<1> QED
  BY <1>1, <1>2, <1>9, <1>10, <1>11 DEF n
-----------------------------------------------------------------------------
(* What the neighbour searches rely on.                                    *)
Clustering ==
  /\ call.eps \in Int \X (Nat \ {0})
  /\ \E w \in Nat : rows \in Seq([1..w -> Int \cup {NaN}])

(* The points are the numbers of the kept rows.                            *)
LEMMA PointsAreNumbered ==
  ASSUME Clustering
  PROVE  /\ D!Points = 1..Len(rows) /\ Len(rows) \in Nat
         /\ D!Points \in SUBSET Nat /\ IsFiniteSet(D!Points) /\ Cardinality(D!Points) = Len(rows)
<1>1. Len(rows) \in Nat /\ D!Points = 1..Len(rows)
  BY DEF Clustering, D!Points
<1>2. IsFiniteSet(1..Len(rows)) /\ Cardinality(1..Len(rows)) = Len(rows)
  BY <1>1, FS_Interval
<1> QED
  BY <1>1, <1>2

(* The operators that Dbscan extends are those that it is proved about.    *)
LEMMA SameCardinality ==
  \A S : D!Cardinality(S) = Cardinality(S)
<1> QED
  BY DEF D!Cardinality, Cardinality

(* The distance is the same both ways, and so is being within it.          *)
LEMMA WithinIsSymmetric ==
  ASSUME Clustering, NEW i \in D!Points, NEW j \in D!Points
  PROVE  D!Within(i, j) <=> D!Within(j, i)
<1> DEFINE p == rows[i]
           q == rows[j]
           square(a, b) == [k \in DOMAIN a |-> (a[k] - b[k]) * (a[k] - b[k])]
<1>1. PICK w \in Nat : rows \in Seq([1..w -> Int \cup {NaN}])
  BY DEF Clustering
<1>2. p \in [1..w -> Int \cup {NaN}] /\ q \in [1..w -> Int \cup {NaN}]
  BY <1>1 DEF D!Points
<1> HIDE DEF p, q
<1>3. ASSUME NaN \notin D!Range(p) \cup D!Range(q)
      PROVE  square(p, q) = square(q, p)
  <2>1. \A k \in 1..w : p[k] \in Int /\ q[k] \in Int
    BY <1>2, <1>3 DEF D!Range
  <2>2. \A k \in 1..w : (p[k] - q[k]) * (p[k] - q[k]) = (q[k] - p[k]) * (q[k] - p[k])
    <3>1. \A x, y \in Int : (x - y) * (x - y) = (y - x) * (y - x)
      OBVIOUS
    <3> QED
      BY <2>1, <3>1
  <2>3. DOMAIN p = 1..w /\ DOMAIN q = 1..w
    BY <1>2
  <2> QED
    BY <2>2, <2>3
<1>4. D!ComputeDistance(p, q) = D!ComputeDistance(q, p)
  <2>1. D!Range(p) \cup D!Range(q) = D!Range(q) \cup D!Range(p)
    OBVIOUS
  <2>2. CASE NaN \in D!Range(p) \cup D!Range(q)
    BY <2>1, <2>2 DEF D!ComputeDistance
  <2>3. CASE NaN \notin D!Range(p) \cup D!Range(q)
    <3>1. D!Total(square(p, q)) = D!Total(square(q, p))
      BY <1>3, <2>3
    <3> QED
      BY <2>1, <2>3, <3>1 DEF D!ComputeDistance
  <2> QED
    BY <2>2, <2>3
<1> QED
  BY <1>4 DEF D!Within, D!Near, p, q

(* In one dimension, points are within eps as their coordinates are.       *)
LEMMA WithinOnALine ==
  ASSUME Clustering, D!UseSorted1d, NEW i \in D!Points, NEW j \in D!Points
  PROVE  /\ rows[i][1] \in Int /\ rows[j][1] \in Int
         /\ D!Within(i, j) <=>
              (rows[i][1] - rows[j][1]) * (rows[i][1] - rows[j][1]) * call.eps[2] * call.eps[2]
                <= call.eps[1] * call.eps[1]
<1> DEFINE p == rows[i]
           q == rows[j]
           d == [k \in DOMAIN p |-> (p[k] - q[k]) * (p[k] - q[k])]
<1>1. PICK w \in Nat : rows \in Seq([1..w -> Int \cup {NaN}])
  BY DEF Clustering
<1>2. p \in [1..w -> Int \cup {NaN}] /\ q \in [1..w -> Int \cup {NaN}]
  BY <1>1 DEF D!Points
<1>3. Len(p) = 1 /\ p[1] # NaN /\ q[1] # NaN
  BY DEF D!UseSorted1d
<1> HIDE DEF p, q
<1>4. w = 1 /\ DOMAIN p = 1..1 /\ DOMAIN q = 1..1
  <2>1. p \in Seq(Int \cup {NaN}) /\ Len(p) = w
    BY <1>2
  <2> QED
    BY <1>2, <1>3, <2>1
<1>5. p[1] \in Int /\ q[1] \in Int /\ NaN \notin Int
  BY <1>2, <1>3, <1>4, CasesAssumption
<1>6. NaN \notin D!Range(p) \cup D!Range(q)
  BY <1>3, <1>4 DEF D!Range
<1>7. d \in Seq(Int) /\ Len(d) = 1 /\ d[1] = (p[1] - q[1]) * (p[1] - q[1])
  <2>1. d = [k \in 1..1 |-> (p[1] - q[1]) * (p[1] - q[1])]
    BY <1>4
  <2>2. (p[1] - q[1]) * (p[1] - q[1]) \in Int
    BY <1>5
  <2> QED
    BY <2>1, <2>2
<1>8. D!ComputeDistance(p, q) = (p[1] - q[1]) * (p[1] - q[1])
  <2>1. D!ComputeDistance(p, q) = D!Total(d)
    BY <1>6 DEF D!ComputeDistance
  <2> HIDE DEF d
  <2> QED
    BY <1>7, <2>1, TotalOfOne
<1>9. D!ComputeDistance(p, q) # NaN
  BY <1>5, <1>8
<1> QED
  BY <1>5, <1>8, <1>9 DEF D!Within, D!Near, p, q

(* A point between two that are within eps is within eps of both.          *)
LEMMA BetweenIsWithin ==
  ASSUME Clustering, D!UseSorted1d, NEW i \in D!Points, NEW j \in D!Points, NEW k \in D!Points,
         D!Within(i, j),
         \/ rows[i][1] <= rows[k][1] /\ rows[k][1] <= rows[j][1]
         \/ rows[j][1] <= rows[k][1] /\ rows[k][1] <= rows[i][1]
  PROVE  D!Within(i, k)
<1> DEFINE u == rows[i][1] - rows[k][1]
           v == rows[i][1] - rows[j][1]
           e == call.eps[2]
<1>1. rows[i][1] \in Int /\ rows[j][1] \in Int /\ rows[k][1] \in Int /\ e \in Nat /\ call.eps[1] \in Int
  BY WithinOnALine DEF Clustering
<1>2. u \in Int /\ v \in Int /\ ((0 <= u /\ u <= v) \/ (v <= u /\ u <= 0))
  <2>1. \A a, b, c \in Int : (a <= c /\ c <= b) \/ (b <= c /\ c <= a) =>
          (0 <= a - c /\ a - c <= a - b) \/ (a - b <= a - c /\ a - c <= 0)
    OBVIOUS
  <2> QED
    BY <1>1, <2>1
<1>3. v * v * e * e <= call.eps[1] * call.eps[1]
  BY WithinOnALine
<1>4. D!Within(i, k) <=> u * u * e * e <= call.eps[1] * call.eps[1]
  BY WithinOnALine
<1> HIDE DEF u, v, e
<1>5. u * u <= v * v /\ u * u \in Int /\ v * v \in Int
  BY <1>2
<1>6. \A a, b \in Int, c \in Nat : a <= b => a * c <= b * c /\ a * c \in Int /\ b * c \in Int
  OBVIOUS
<1>7. u * u * e <= v * v * e /\ u * u * e \in Int /\ v * v * e \in Int
  BY <1>1, <1>5, <1>6
<1>8. u * u * e * e <= v * v * e * e /\ u * u * e * e \in Int /\ v * v * e * e \in Int
  BY <1>1, <1>6, <1>7
<1>9. call.eps[1] * call.eps[1] \in Int
  BY <1>1
<1> QED
  BY <1>3, <1>4, <1>8, <1>9

(* The sort puts every point at a place of its own, and every place is     *)
(* taken; the coordinates ascend.                                          *)
LEMMA SortedPlaces ==
  ASSUME Clustering, D!UseSorted1d
  PROVE  /\ \A i \in D!Points : D!SortedPos(i) \in 1..Len(rows)
         /\ \A i, j \in D!Points : D!SortedPos(i) < D!SortedPos(j) =>
              i # j /\ rows[i][1] <= rows[j][1]
         /\ \A i, j \in D!Points : D!SortedPos(i) = D!SortedPos(j) => i = j
         /\ \A p \in 1..Len(rows) : \E i \in D!Points : D!SortedPos(i) = p
<1> DEFINE S == D!Points
           R == {e \in S \X S : D!Precedes(e[1], e[2])}
<1>1. IsFiniteSet(S) /\ Cardinality(S) = Len(rows) /\ S \in SUBSET Nat
  BY PointsAreNumbered
<1> DEFINE x == [i \in S |-> rows[i][1]]
<1>2. x \in [S -> Int] /\ \A i \in S : x[i] = rows[i][1]
  <2>1. \A i \in S : rows[i][1] \in Int
    BY WithinOnALine
  <2> QED
    BY <2>1
<1>3. \A i, j \in S : <<i, j>> \in R <=> D!Precedes(i, j)
  OBVIOUS
<1> HIDE DEF S, x
<1>14. \A i, j \in S : D!Precedes(i, j) <=> x[i] < x[j] \/ (x[i] = x[j] /\ i < j)
  BY <1>2 DEF D!Precedes
<1>15. \A i \in S : x[i] \in Int /\ i \in Nat
  BY <1>1, <1>2
<1>4. /\ \A i, j \in S : i = j \/ D!Precedes(i, j) \/ D!Precedes(j, i)
      /\ \A i, j \in S : D!Precedes(i, j) => ~D!Precedes(j, i)
      /\ \A i, j, k \in S : D!Precedes(i, j) /\ D!Precedes(j, k) => D!Precedes(i, k)
  <2>1. ASSUME NEW i \in S, NEW j \in S
        PROVE  (i = j \/ D!Precedes(i, j) \/ D!Precedes(j, i)) /\ (D!Precedes(i, j) => ~D!Precedes(j, i))
    BY <1>14, <1>15
  <2>2. ASSUME NEW i \in S, NEW j \in S, NEW k \in S, D!Precedes(i, j), D!Precedes(j, k)
        PROVE  D!Precedes(i, k)
    BY <1>14, <1>15, <2>2
  <2> QED
    BY <2>1, <2>2
<1>5. \A i, j \in S : D!Precedes(i, j) => x[i] <= x[j]
  BY <1>14, <1>15
<1> HIDE DEF R
<1>6. R \in SUBSET (S \X S)
  BY DEF R
<1>7. /\ Cardinality(S) \in Nat
      /\ \A b \in S : Number(S, R, b) \in 1..Cardinality(S)
      /\ \A b, c \in S : <<b, c>> \in R => Number(S, R, b) < Number(S, R, c)
      /\ \A k \in 1..Cardinality(S) : \E b \in S : Number(S, R, b) = k
  <2>1. /\ \A a, b \in S : a = b \/ <<a, b>> \in R \/ <<b, a>> \in R
        /\ \A a, b \in S : <<a, b>> \in R => <<b, a>> \notin R
        /\ \A a, b, c \in S : <<a, b>> \in R /\ <<b, c>> \in R => <<a, c>> \in R
    BY <1>3, <1>4
  <2> QED
    BY <1>1, <1>6, <2>1, NumberedInOrder
<1>8. \A b \in S : D!SortedPos(b) = Number(S, R, b)
  <2>1. \A b \in S : {a \in S : <<a, b>> \in R} = {a \in S : D!Precedes(a, b)}
    BY <1>3
  <2> QED
    BY <2>1, SameCardinality DEF D!SortedPos, S, Number
<1>9. \A i \in S : D!SortedPos(i) \in 1..Len(rows)
  BY <1>1, <1>7, <1>8
<1>10. \A i, j \in S : D!Precedes(i, j) => D!SortedPos(i) < D!SortedPos(j)
  BY <1>3, <1>7, <1>8
<1>11. \A i, j \in S : D!SortedPos(i) < D!SortedPos(j) => i # j /\ rows[i][1] <= rows[j][1]
  <2>1. \A i \in S : D!SortedPos(i) \in Nat
    BY <1>1, <1>7, <1>9
  <2>2. \A i, j \in S : D!SortedPos(i) < D!SortedPos(j) => i # j /\ x[i] <= x[j]
    BY <1>4, <1>5, <1>10, <2>1
  <2> QED
    BY <1>2, <2>2
<1>12. \A i, j \in S : D!SortedPos(i) = D!SortedPos(j) => i = j
  <2>1. \A i \in S : D!SortedPos(i) \in Nat
    BY <1>1, <1>7, <1>9
  <2> QED
    BY <1>4, <1>10, <2>1
<1>13. \A p \in 1..Len(rows) : \E i \in S : D!SortedPos(i) = p
  BY <1>1, <1>7, <1>8
<1> QED
  BY <1>9, <1>11, <1>12, <1>13 DEF S

(* The walk outward from a point's sorted place stops at the first point   *)
(* too far away, and has then seen all of its neighbours.                  *)
LEMMA WalkFindsNeighbours ==
  ASSUME Clustering, D!UseSorted1d, NEW i \in D!Points
  PROVE  D!WalkSorted(i) = {j \in D!Points \ {i} : D!Within(i, j)}
<1> DEFINE n == Len(rows)
           order == D!SortedOrder
           pos == D!SortedPos(i)
           near(p) == D!Within(i, order[p])
           Before == {q \in 1..pos - 1 : \A r \in q..pos - 1 : near(r)}
           After == {q \in pos + 1..Len(order) : \A r \in pos + 1..q : near(r)}
<1>1. n \in Nat /\ D!Points = 1..n
  BY PointsAreNumbered
<1>2. \A p \in 1..n : order[p] \in D!Points /\ D!SortedPos(order[p]) = p
  BY <1>1, SortedPlaces DEF D!SortedOrder
<1>3. order \in [1..n -> D!Points] /\ Len(order) = n
  <2>1. DOMAIN order = 1..n /\ order = [p \in 1..n |-> order[p]]
    BY <1>1 DEF D!SortedOrder
  <2> HIDE DEF order, n
  <2>2. order \in [1..n -> D!Points]
    BY <1>2, <2>1
  <2>3. order \in Seq(D!Points)
    BY <1>1, <2>2
  <2> QED
    BY <1>1, <2>2, <2>3
<1>4. D!WalkSorted(i) = {order[p] : p \in Before} \cup {order[p] : p \in After}
  BY DEF D!WalkSorted
<1>5. pos \in 1..n
  BY SortedPlaces
<1> HIDE DEF order, pos, n, near
<1>6. ASSUME NEW p \in 1..n, p # pos, near(p)
      PROVE  order[p] \in D!Points \ {i} /\ D!Within(i, order[p])
  BY <1>2, <1>6 DEF pos, near
<1>7. ASSUME NEW q \in Before
      PROVE  order[q] \in D!Points \ {i} /\ D!Within(i, order[q])
  <2>1. q \in 1..pos - 1 /\ q \in q..pos - 1 /\ q \in 1..n /\ q # pos
    BY <1>1, <1>5
  <2> QED
    BY <1>6, <2>1
<1>8. ASSUME NEW q \in After
      PROVE  order[q] \in D!Points \ {i} /\ D!Within(i, order[q])
  <2>1. q \in pos + 1..n /\ q \in pos + 1..q /\ q \in 1..n /\ q # pos
    BY <1>1, <1>3, <1>5
  <2> QED
    BY <1>6, <2>1
<1>9. ASSUME NEW j \in D!Points \ {i}, D!Within(i, j)
      PROVE  \E q \in Before \cup After : order[q] = j
  <2> DEFINE q == D!SortedPos(j)
  <2>1. q \in 1..n /\ q # pos /\ order[q] = j
    <3>1. q \in 1..n /\ q # pos
      BY SortedPlaces DEF n, pos
    <3>2. D!SortedPos(order[q]) = q
      BY <1>2, <3>1
    <3> QED
      BY <1>2, <3>1, <3>2, SortedPlaces
  <2>2. ASSUME NEW a \in D!Points, NEW b \in D!Points, D!SortedPos(a) <= D!SortedPos(b)
        PROVE  rows[a][1] <= rows[b][1]
    <3>1. D!SortedPos(a) \in Nat /\ D!SortedPos(b) \in Nat
      <4>1. D!SortedPos(a) \in 1..n /\ D!SortedPos(b) \in 1..n
        BY SortedPlaces DEF n
      <4> QED
        BY <1>1, <4>1
    <3>2. CASE D!SortedPos(a) = D!SortedPos(b)
      <4>1. a = b /\ rows[a][1] \in Int
        BY <3>2, SortedPlaces, WithinOnALine
      <4> QED
        BY <4>1
    <3>3. CASE D!SortedPos(a) < D!SortedPos(b)
      BY <3>3, SortedPlaces
    <3> QED
      BY <2>2, <3>1, <3>2, <3>3
  <2> HIDE DEF q
  <2>3. CASE q < pos
    <3>1. ASSUME NEW r \in q..pos - 1
          PROVE  near(r)
      <4>1. r \in 1..n /\ q <= r /\ r <= pos
        BY <1>1, <1>5, <2>1
      <4>2. order[r] \in D!Points /\ D!SortedPos(order[r]) = r
        BY <1>2, <4>1
      <4>3. rows[j][1] <= rows[order[r]][1] /\ rows[order[r]][1] <= rows[i][1]
        BY <2>2, <4>1, <4>2 DEF q, pos
      <4> QED
        BY <1>9, <4>2, <4>3, BetweenIsWithin DEF near
    <3>2. q \in 1..pos - 1
      BY <1>1, <1>5, <2>1, <2>3
    <3>3. q \in Before
      BY <3>1, <3>2
    <3> QED
      BY <2>1, <3>3
  <2>4. CASE pos < q
    <3>1. ASSUME NEW r \in pos + 1..q
          PROVE  near(r)
      <4>1. r \in 1..n /\ pos <= r /\ r <= q
        BY <1>1, <1>5, <2>1
      <4>2. order[r] \in D!Points /\ D!SortedPos(order[r]) = r
        BY <1>2, <4>1
      <4>3. rows[i][1] <= rows[order[r]][1] /\ rows[order[r]][1] <= rows[j][1]
        BY <2>2, <4>1, <4>2 DEF q, pos
      <4> QED
        BY <1>9, <4>2, <4>3, BetweenIsWithin DEF near
    <3>2. q \in pos + 1..Len(order)
      BY <1>1, <1>3, <1>5, <2>1, <2>4
    <3>3. q \in After
      BY <3>1, <3>2
    <3> QED
      BY <2>1, <3>3
  <2> QED
    BY <1>1, <1>5, <2>1, <2>3, <2>4
<1> HIDE DEF Before, After
<1> QED
  BY <1>4, <1>7, <1>8, <1>9

(* So both neighbour searches find a point's ball, without the point.      *)
LEMMA RegionIsBall ==
  ASSUME Clustering, NEW i \in D!Points
  PROVE  /\ D!RegionQuery(i) = D!Ball(i) \ {i}
         /\ D!Ball(i) \in SUBSET D!Points /\ i \in D!Ball(i)
         /\ D!IsCore(i) <=> i \in D!Cores
<1>1. D!RegionQuery(i) = {j \in D!Points \ {i} : D!Within(i, j)}
  BY WalkFindsNeighbours DEF D!RegionQuery, D!AllPairs
<1>2. D!RegionQuery(i) = D!Ball(i) \ {i} /\ D!Ball(i) \in SUBSET D!Points /\ i \in D!Ball(i)
  BY <1>1 DEF D!Ball
<1>3. IsFiniteSet(D!Ball(i)) /\ Cardinality(D!Ball(i)) \in Nat
  BY <1>2, PointsAreNumbered, FS_Subset, FS_CardinalityType
<1>4. Cardinality(D!Ball(i) \ {i}) = Cardinality(D!Ball(i)) - 1
  BY <1>2, <1>3, FS_RemoveElement
<1>5. Cardinality(D!RegionQuery(i)) + 1 = Cardinality(D!Ball(i))
  BY <1>2, <1>3, <1>4
<1> QED
  BY <1>2, <1>5, SameCardinality DEF D!IsCore, D!Cores
-----------------------------------------------------------------------------
(* The clusters of the definition: a core is in its component, together    *)
(* with all the cores near it, and a component is that of all its members. *)
LEMMA NeighboursAreMutual ==
  ASSUME Clustering, NEW i \in D!Points, NEW j \in D!Ball(i)
  PROVE  j \in D!Points /\ i \in D!Ball(j)
<1> QED
  BY WithinIsSymmetric DEF D!Ball

(* A component holds its core and all cores near its members.              *)
LEMMA ComponentIsClosed ==
  ASSUME Clustering, NEW i \in D!Cores
  PROVE  /\ i \in D!Component(i) /\ D!Component(i) \in SUBSET D!Cores
         /\ \A j \in D!Component(i) : D!Cores \cap D!Ball(j) \subseteq D!Component(i)
<1> DEFINE Closed(S) == \A j \in S : D!Cores \cap D!Ball(j) \subseteq S
<1>1. D!Component(i) = {j \in D!Cores : \A S \in SUBSET D!Cores : i \in S /\ Closed(S) => j \in S}
  <2> DEFINE near == [j \in D!Cores |-> D!Cores \cap D!Ball(j)]
  <2>1. \A j \in D!Cores : near[j] = D!Cores \cap D!Ball(j)
    OBVIOUS
  <2>2. D!Component(i) = {j \in D!Cores : \A S \in SUBSET D!Cores :
                             i \in S /\ (\A k \in S : near[k] \subseteq S) => j \in S}
    BY DEF D!Component
  <2> HIDE DEF near
  <2>3. \A S \in SUBSET D!Cores : (\A k \in S : near[k] \subseteq S) <=> Closed(S)
    BY <2>1
  <2> HIDE DEF Closed
  <2> QED
    BY <2>2, <2>3
<1>2. i \in D!Component(i) /\ D!Component(i) \in SUBSET D!Cores
  BY <1>1
<1>3. ASSUME NEW j \in D!Component(i), NEW k \in D!Cores \cap D!Ball(j)
      PROVE  k \in D!Component(i)
  <2>1. ASSUME NEW S \in SUBSET D!Cores, i \in S, Closed(S)
        PROVE  k \in S
    <3>1. j \in S
      BY <1>1, <2>1
    <3> QED
      BY <2>1, <3>1
  <2> HIDE DEF Closed
  <2> QED
    BY <1>1, <2>1
<1> QED
  BY <1>2, <1>3

(* It is inside every set of cores that has that and the core.             *)
LEMMA ComponentIsLeast ==
  ASSUME Clustering, NEW i \in D!Cores, NEW S \in SUBSET D!Cores, i \in S,
         \A j \in S : D!Cores \cap D!Ball(j) \subseteq S
  PROVE  D!Component(i) \subseteq S
<1> DEFINE near == [j \in D!Cores |-> D!Cores \cap D!Ball(j)]
<1>1. \A j \in S : near[j] \subseteq S
  OBVIOUS
<1>2. D!Component(i) = {j \in D!Cores : \A R \in SUBSET D!Cores :
                           i \in R /\ (\A k \in R : near[k] \subseteq R) => j \in R}
  BY DEF D!Component
<1> HIDE DEF near
<1> QED
  BY <1>1, <1>2

(* All members of a component have the same one.                           *)
LEMMA ComponentOfMember ==
  ASSUME Clustering, NEW i \in D!Cores, NEW j \in D!Component(i)
  PROVE  D!Component(j) = D!Component(i)
<1>1. j \in D!Cores /\ D!Cores \in SUBSET D!Points
  BY ComponentIsClosed DEF D!Cores
<1>2. D!Component(j) \subseteq D!Component(i)
  BY <1>1, ComponentIsClosed, ComponentIsLeast
<1>3. i \in D!Component(j)
  <2>1. SUFFICES ASSUME i \notin D!Component(j)
                 PROVE  FALSE
    OBVIOUS
  <2> DEFINE S == D!Component(i) \ D!Component(j)
  <2>2. i \in S /\ S \in SUBSET D!Cores /\ j \notin S
    BY <1>1, <2>1, ComponentIsClosed
  <2>3. ASSUME NEW k \in S, NEW m \in D!Cores \cap D!Ball(k)
        PROVE  m \in S
    <3>1. m \in D!Component(i) /\ k \in D!Cores
      BY ComponentIsClosed
    <3>2. k \in D!Ball(m)
      BY <1>1, <3>1, NeighboursAreMutual
    <3>3. m \notin D!Component(j)
      BY <1>1, <3>1, <3>2, ComponentIsClosed
    <3> QED
      BY <3>1, <3>3
  <2>4. D!Component(i) \subseteq S
    BY <2>2, <2>3, ComponentIsLeast
  <2> QED
    BY <2>2, <2>4
<1>4. D!Component(i) \subseteq D!Component(j)
  BY <1>1, <1>3, ComponentIsClosed, ComponentIsLeast
<1> QED
  BY <1>2, <1>4

(* Cores near each other are of one cluster.                               *)
LEMMA NearbyCoresShareComponent ==
  ASSUME Clustering, NEW i \in D!Cores, NEW j \in D!Cores \cap D!Ball(i)
  PROVE  D!ClusterOfCore(j) = D!ClusterOfCore(i)
<1>1. j \in D!Component(i)
  BY ComponentIsClosed
<1>2. D!Component(j) = D!Component(i)
  BY <1>1, ComponentOfMember
<1> QED
  BY <1>2 DEF D!ClusterOfCore

(* The least of a set, as Dbscan extends it and as this module does.       *)
LEMMA SameLeast ==
  \A S : D!Min(S) = Min(S)
<1> QED
  BY DEF D!Min, Min

(* Clusters are numbered by their first core points, without a gap.        *)
LEMMA ClusterNumbers ==
  ASSUME Clustering
  PROVE  /\ Cardinality(D!FirstCores) \in Nat
         /\ \A i \in D!Cores : D!ClusterOfCore(i) \in 0..Cardinality(D!FirstCores) - 1
         /\ \A i \in D!Cores : \E f \in D!FirstCores : f <= i /\ D!ClusterOfCore(f) = D!ClusterOfCore(i)
         /\ \A i, j \in D!Cores : D!ClusterOfCore(i) = D!ClusterOfCore(j) => D!Component(i) = D!Component(j)
         /\ \A f, g \in D!FirstCores : D!ClusterOfCore(f) < D!ClusterOfCore(g) => f < g
         /\ \A c \in 0..Cardinality(D!FirstCores) - 1 : \E f \in D!FirstCores : D!ClusterOfCore(f) = c
<1> DEFINE S == D!FirstCores
           R == {e \in S \X S : e[1] < e[2]}
           First(i) == Min(D!Component(i))
<1>1. S \in SUBSET D!Cores /\ D!Cores \in SUBSET D!Points /\ S \in SUBSET Nat /\ IsFiniteSet(S)
  <2>1. S \in SUBSET D!Points /\ D!Cores \in SUBSET D!Points /\ S \in SUBSET D!Cores
    BY DEF D!FirstCores, D!Cores
  <2> HIDE DEF S
  <2> QED
    BY <2>1, PointsAreNumbered, FS_Subset
<1>2. ASSUME NEW i \in D!Cores
      PROVE  /\ First(i) \in S /\ First(i) <= i
             /\ D!Component(First(i)) = D!Component(i)
             /\ D!ClusterOfCore(First(i)) = D!ClusterOfCore(i)
             /\ D!ClusterOfCore(i) = Cardinality({j \in S : j < First(i)})
  <2>1. D!Component(i) \in SUBSET Nat /\ i \in D!Component(i) /\ D!Component(i) \in SUBSET D!Cores
    BY <1>1, ComponentIsClosed, PointsAreNumbered
  <2>2. First(i) \in D!Component(i) /\ First(i) <= i
    BY <2>1, MinIsLeast
  <2>3. D!Component(First(i)) = D!Component(i)
    BY <2>2, ComponentOfMember
  <2>4. First(i) \in S
    BY <2>1, <2>2, <2>3, SameLeast DEF D!FirstCores
  <2>5. D!ClusterOfCore(i) = Cardinality({j \in S : j < First(i)})
    BY SameLeast, SameCardinality DEF D!ClusterOfCore
  <2>6. D!ClusterOfCore(First(i)) = D!ClusterOfCore(i)
    BY <2>3 DEF D!ClusterOfCore
  <2> QED
    BY <2>2, <2>3, <2>4, <2>5, <2>6
<1>3. \A f \in S : First(f) = f
  BY SameLeast DEF D!FirstCores
<1>4. \A f, g \in S : <<f, g>> \in R <=> f < g
  OBVIOUS
<1>5. R \in SUBSET (S \X S)
  OBVIOUS
<1> HIDE DEF S, R, First
<1>6. /\ Cardinality(S) \in Nat
      /\ \A b \in S : Number(S, R, b) \in 1..Cardinality(S)
      /\ \A b, c \in S : <<b, c>> \in R => Number(S, R, b) < Number(S, R, c)
      /\ \A k \in 1..Cardinality(S) : \E b \in S : Number(S, R, b) = k
  <2>1. \A a \in S : a \in Nat
    BY <1>1
  <2>2. \A a, b \in S : a = b \/ <<a, b>> \in R \/ <<b, a>> \in R
    <3>1. ASSUME NEW a \in S, NEW b \in S
          PROVE  a = b \/ a < b \/ b < a
      BY <2>1
    <3> QED
      BY <1>4, <3>1
  <2>3. \A a, b \in S : <<a, b>> \in R => <<b, a>> \notin R
    BY <1>4, <2>1
  <2>4. \A a, b, c \in S : <<a, b>> \in R /\ <<b, c>> \in R => <<a, c>> \in R
    BY <1>4, <2>1
  <2> QED
    BY <1>1, <1>5, <2>2, <2>3, <2>4, NumberedInOrder
<1>7. \A f \in S : Number(S, R, f) = D!ClusterOfCore(f) + 1 /\ D!ClusterOfCore(f) \in Nat
  <2>1. ASSUME NEW f \in S
        PROVE  Number(S, R, f) = D!ClusterOfCore(f) + 1 /\ D!ClusterOfCore(f) \in Nat
    <3>1. {a \in S : <<a, f>> \in R} = {j \in S : j < First(f)}
      BY <1>3, <1>4
    <3>2. D!ClusterOfCore(f) = Cardinality({j \in S : j < First(f)})
      BY <1>1, <1>2
    <3>3. {j \in S : j < First(f)} \in SUBSET S
      OBVIOUS
    <3>4. Cardinality({j \in S : j < First(f)}) \in Nat
      BY <1>1, <3>3, FS_Subset, FS_CardinalityType
    <3> QED
      BY <3>1, <3>2, <3>4 DEF Number
  <2> QED
    BY <2>1
<1>8. \A f \in S : D!ClusterOfCore(f) \in 0..Cardinality(S) - 1
  BY <1>6, <1>7
<1>9. \A f, g \in S : f < g => D!ClusterOfCore(f) < D!ClusterOfCore(g)
  <2>1. ASSUME NEW f \in S, NEW g \in S, f < g
        PROVE  D!ClusterOfCore(f) < D!ClusterOfCore(g)
    <3>1. Number(S, R, f) < Number(S, R, g)
      BY <1>4, <1>6, <2>1
    <3>2. /\ Number(S, R, f) = D!ClusterOfCore(f) + 1 /\ D!ClusterOfCore(f) \in Nat
          /\ Number(S, R, g) = D!ClusterOfCore(g) + 1 /\ D!ClusterOfCore(g) \in Nat
      BY <1>7
    <3> QED
      BY <3>1, <3>2
  <2> QED
    BY <2>1
<1>10. \A f, g \in S : D!ClusterOfCore(f) < D!ClusterOfCore(g) => f < g
  <2>1. ASSUME NEW f \in S, NEW g \in S, D!ClusterOfCore(f) < D!ClusterOfCore(g)
        PROVE  f < g
    <3>1. f \in Nat /\ g \in Nat /\ D!ClusterOfCore(f) \in Nat /\ D!ClusterOfCore(g) \in Nat
      BY <1>1, <1>7
    <3>2. g < f => D!ClusterOfCore(g) < D!ClusterOfCore(f)
      BY <1>9
    <3> QED
      BY <2>1, <3>1, <3>2
  <2> QED
    BY <2>1
<1>11. \A f, g \in S : D!ClusterOfCore(f) = D!ClusterOfCore(g) => f = g
  <2>1. ASSUME NEW f \in S, NEW g \in S, D!ClusterOfCore(f) = D!ClusterOfCore(g)
        PROVE  f = g
    <3>1. f \in Nat /\ g \in Nat /\ D!ClusterOfCore(f) \in Nat /\ D!ClusterOfCore(g) \in Nat
      BY <1>1, <1>7
    <3>2. (f < g => D!ClusterOfCore(f) < D!ClusterOfCore(g)) /\ (g < f => D!ClusterOfCore(g) < D!ClusterOfCore(f))
      BY <1>9
    <3> QED
      BY <2>1, <3>1, <3>2
  <2> QED
    BY <2>1
<1>12. \A c \in 0..Cardinality(S) - 1 : \E f \in S : D!ClusterOfCore(f) = c
  <2>1. ASSUME NEW c \in 0..Cardinality(S) - 1
        PROVE  \E f \in S : D!ClusterOfCore(f) = c
    <3>1. c + 1 \in 1..Cardinality(S) /\ c \in Nat
      BY <1>6
    <3>2. PICK f \in S : Number(S, R, f) = c + 1
      BY <1>6, <3>1
    <3> QED
      BY <1>7, <3>1, <3>2
  <2> QED
    BY <2>1
<1>13. \A i \in D!Cores : D!ClusterOfCore(i) \in 0..Cardinality(S) - 1
  BY <1>2, <1>8
<1>14. \A i \in D!Cores : \E f \in S : f <= i /\ D!ClusterOfCore(f) = D!ClusterOfCore(i)
  BY <1>2
<1>15. \A i, j \in D!Cores : D!ClusterOfCore(i) = D!ClusterOfCore(j) => D!Component(i) = D!Component(j)
  BY <1>2, <1>11
<1> QED
  BY <1>6, <1>10, <1>12, <1>13, <1>14, <1>15 DEF S
-----------------------------------------------------------------------------
(* The definition speaks of the rows and the arguments only, which Fit     *)
(* leaves alone.                                                           *)
LEMMA DefinitionIsStable ==
  ASSUME UNCHANGED <<rows, call>>
  PROVE  /\ Clustering' <=> Clustering
         /\ D!Points' = D!Points /\ D!Cores' = D!Cores
         /\ \A i : D!Ball(i)' = D!Ball(i)
         /\ \A i : D!ClusterOfCore(i)' = D!ClusterOfCore(i)
<1>1. D!Points' = D!Points /\ (Clustering' <=> Clustering)
  BY DEF D!Points, Clustering
<1>2. ASSUME NEW p, NEW q
      PROVE  D!Near(p, q)' <=> D!Near(p, q)
  BY DEF D!Near
<1>3. ASSUME NEW i, NEW j
      PROVE  D!Within(i, j)' <=> D!Within(i, j)
  BY <1>2 DEF D!Within, D!Near
<1>4. ASSUME NEW i
      PROVE  D!Ball(i)' = D!Ball(i)
  BY <1>1, <1>3 DEF D!Ball
<1>5. D!Cores' = D!Cores
  BY <1>1, <1>4 DEF D!Cores
<1>6. ASSUME NEW i
      PROVE  D!Component(i)' = D!Component(i)
  BY <1>4, <1>5 DEF D!Component
<1>7. D!FirstCores' = D!FirstCores
  BY <1>5, <1>6 DEF D!FirstCores
<1>8. ASSUME NEW i
      PROVE  D!ClusterOfCore(i)' = D!ClusterOfCore(i)
  BY <1>6, <1>7 DEF D!ClusterOfCore
<1> QED
  BY <1>1, <1>4, <1>5, <1>8
-----------------------------------------------------------------------------
(* The inductive invariant of Fit.  A point is settled when no later       *)
(* expansion can change it.  The neighbours of a visited core are settled, *)
(* or wait in the queue of its cluster's expansion; whatever waits there   *)
(* is near a visited core of that cluster.  So when the main loop visits   *)
(* the next point, the clusters before it are complete, with their borders.*)
Settled(p) == p \in visited /\ label[p] # "NOISE"

FitTypes ==
  /\ visited \in SUBSET D!Points /\ queue \in SUBSET D!Points
  /\ label \in [D!Points -> {"UNVISITED", "CORE", "NOISE", "BORDER"}]
  /\ cluster \in [D!Points -> Int]
  /\ expanding \in BOOLEAN /\ clusterId \in Nat
  /\ ~expanding => queue = {}

\* What a visited point is labelled, and the cluster it is in.
Fits(i, type, id) ==
  \/ i \in D!Cores /\ type = "CORE" /\ id = D!ClusterOfCore(i)
  \/ i \notin D!Cores /\ type = "NOISE" /\ id = -1
  \/ /\ i \notin D!Cores /\ type = "BORDER"
     /\ \E j \in D!Cores \cap D!Ball(i) :
          /\ id = D!ClusterOfCore(j)
          /\ \A k \in D!Cores \cap D!Ball(i) : D!ClusterOfCore(j) <= D!ClusterOfCore(k)

LabelsFit ==
  \A i \in D!Points :
    IF i \in visited THEN Fits(i, label[i], cluster[i]) ELSE label[i] = "UNVISITED"

QueueFits ==
  /\ \A j \in visited \cap D!Cores : \A p \in D!Ball(j) :
       Settled(p) \/ (p \in queue /\ D!ClusterOfCore(j) = clusterId)
  /\ \A p \in queue : \E j \in visited \cap D!Cores :
       p \in D!Ball(j) /\ D!ClusterOfCore(j) = clusterId

NumbersFit ==
  /\ \A j \in visited \cap D!Cores :
       D!ClusterOfCore(j) < clusterId \/ (expanding /\ D!ClusterOfCore(j) = clusterId)
  /\ \A j \in D!Cores : D!ClusterOfCore(j) < clusterId => j \in visited
  /\ expanding => \E j \in visited \cap D!Cores : D!ClusterOfCore(j) = clusterId

FitInv == FitTypes /\ LabelsFit /\ QueueFits /\ NumbersFit

(* Before the first point.                                                 *)
LEMMA FitStarts ==
  ASSUME Clustering, D!DbscanIdle, D!StartDbscan, UNCHANGED <<rows, call>>
  PROVE  FitInv'
<1>1. /\ visited' = {} /\ queue' = {} /\ expanding' = FALSE /\ clusterId' = 0
      /\ label' = [i \in D!Points |-> "UNVISITED"] /\ cluster' = [i \in D!Points |-> -1]
  BY DEF D!DbscanIdle, D!StartDbscan
<1>2. /\ D!Points' = D!Points /\ D!Cores' = D!Cores
      /\ \A i : D!Ball(i)' = D!Ball(i)
      /\ \A i : D!ClusterOfCore(i)' = D!ClusterOfCore(i)
  BY DefinitionIsStable
<1>3. FitTypes'
  <2>1. /\ label' \in [D!Points -> {"UNVISITED", "CORE", "NOISE", "BORDER"}]
        /\ cluster' \in [D!Points -> Int]
    BY <1>1
  <2> QED
    BY <1>1, <1>2, <2>1 DEF FitTypes
<1>4. LabelsFit'
  BY <1>1, <1>2 DEF LabelsFit
<1>5. QueueFits'
  BY <1>1, <1>2 DEF QueueFits
<1>6. NumbersFit'
  <2>1. \A j \in D!Cores : D!ClusterOfCore(j) \in Nat
    BY ClusterNumbers
  <2> QED
    BY <1>1, <1>2, <2>1 DEF NumbersFit
<1> QED
  BY <1>3, <1>4, <1>5, <1>6 DEF FitInv

(* Every cluster numbered below the next one is complete, so an unvisited  *)
(* point, or one taken for noise, is near no core of them.                 *)
LEMMA EarlierClustersAreSettled ==
  ASSUME Clustering, FitInv, NEW i \in D!Points, ~Settled(i), NEW k \in D!Cores \cap D!Ball(i)
  PROVE  clusterId <= D!ClusterOfCore(k)
<1>1. D!ClusterOfCore(k) \in Nat /\ clusterId \in Nat /\ k \in D!Points
  BY ClusterNumbers DEF FitInv, FitTypes, D!Cores
<1>2. i \in D!Ball(k)
  BY NeighboursAreMutual
<1>3. SUFFICES ASSUME D!ClusterOfCore(k) < clusterId
               PROVE  FALSE
  BY <1>1
<1>4. k \in visited
  BY <1>3 DEF FitInv, NumbersFit
<1>5. D!ClusterOfCore(k) = clusterId
  BY <1>2, <1>4 DEF FitInv, QueueFits
<1> QED
  BY <1>1, <1>3, <1>5

(* A point that the expansion takes out of its queue is in its cluster,    *)
(* as a core, or as a border point whose first cluster this is.            *)
LEMMA QueuedPoint ==
  ASSUME Clustering, FitInv, NEW i \in queue
  PROVE  /\ i \in D!Points /\ expanding
         /\ i \in D!Cores => D!ClusterOfCore(i) = clusterId
         /\ ~Settled(i) => \E j \in D!Cores \cap D!Ball(i) :
              /\ clusterId = D!ClusterOfCore(j)
              /\ \A k \in D!Cores \cap D!Ball(i) : D!ClusterOfCore(j) <= D!ClusterOfCore(k)
<1>1. i \in D!Points /\ expanding
  BY DEF FitInv, FitTypes
<1>2. PICK j \in visited \cap D!Cores : i \in D!Ball(j) /\ D!ClusterOfCore(j) = clusterId
  BY DEF FitInv, QueueFits
<1>3. j \in D!Points /\ j \in D!Ball(i)
  BY <1>2, NeighboursAreMutual DEF D!Cores
<1>4. i \in D!Cores => D!ClusterOfCore(i) = clusterId
  BY <1>2, NearbyCoresShareComponent
<1>5. ~Settled(i) => \A k \in D!Cores \cap D!Ball(i) : D!ClusterOfCore(j) <= D!ClusterOfCore(k)
  BY <1>1, <1>2, EarlierClustersAreSettled
<1> QED
  BY <1>1, <1>2, <1>3, <1>4, <1>5

(* A point that was not settled gets the label and the cluster it should.  *)
LEMMA AssignFits ==
  ASSUME Clustering, FitInv, UNCHANGED <<rows, call>>, NEW i \in D!Points, NEW type, NEW id,
         Fits(i, type, id), ~Settled(i),
         visited' = visited \cup {i},
         label' = [label EXCEPT ![i] = type], cluster' = [cluster EXCEPT ![i] = id]
  PROVE  /\ visited' \in SUBSET D!Points
         /\ label' \in [D!Points -> {"UNVISITED", "CORE", "NOISE", "BORDER"}]
         /\ cluster' \in [D!Points -> Int]
         /\ LabelsFit'
         /\ \A p \in D!Points : Settled(p) => Settled(p)'
         /\ type # "NOISE" => Settled(i)'
<1>1. /\ D!Points' = D!Points /\ D!Cores' = D!Cores
      /\ \A p : D!Ball(p)' = D!Ball(p)
      /\ \A p : D!ClusterOfCore(p)' = D!ClusterOfCore(p)
  BY DefinitionIsStable
<1>2. \A j \in D!Cores : D!ClusterOfCore(j) \in Int
  BY ClusterNumbers
<1>3. type \in {"CORE", "NOISE", "BORDER"} /\ id \in Int
  BY <1>2 DEF Fits
<1>4. /\ visited \in SUBSET D!Points
      /\ label \in [D!Points -> {"UNVISITED", "CORE", "NOISE", "BORDER"}]
      /\ cluster \in [D!Points -> Int]
  BY DEF FitInv, FitTypes
<1>5. /\ visited' \in SUBSET D!Points
      /\ label' \in [D!Points -> {"UNVISITED", "CORE", "NOISE", "BORDER"}]
      /\ cluster' \in [D!Points -> Int]
  BY <1>3, <1>4
<1>6. /\ label'[i] = type /\ cluster'[i] = id
      /\ \A p \in D!Points \ {i} : label'[p] = label[p] /\ cluster'[p] = cluster[p]
  BY <1>4
<1>7. \A p \in D!Points : \A t, c : Fits(p, t, c)' <=> Fits(p, t, c)
  BY <1>1 DEF Fits
<1>8. ASSUME NEW p \in D!Points
      PROVE  IF p \in visited' THEN Fits(p, label'[p], cluster'[p]) ELSE label'[p] = "UNVISITED"
  <2>1. CASE p = i
    BY <1>6, <2>1
  <2>2. CASE p # i
    BY <1>6, <2>2 DEF FitInv, LabelsFit
  <2> QED
    BY <2>1, <2>2
<1>9. LabelsFit'
  <2>1. ASSUME NEW p \in D!Points
        PROVE  IF p \in visited' THEN Fits(p, label[p], cluster[p])' ELSE label'[p] = "UNVISITED"
    BY <1>1, <1>8 DEF Fits
  <2> QED
    BY <1>1, <2>1 DEF LabelsFit
<1>10. \A p \in D!Points : Settled(p) => Settled(p)'
  BY <1>6 DEF Settled
<1>11. type # "NOISE" => Settled(i)'
  BY <1>6 DEF Settled
<1> QED
  BY <1>5, <1>9, <1>10, <1>11

(* The main loop meets a core: it is the first of the next cluster.        *)
LEMMA NextCoreOpensCluster ==
  ASSUME Clustering, FitInv, ~expanding, NEW i \in D!Points \ visited, i \in D!Cores,
         \A p \in D!Points \ visited : i <= p
  PROVE  D!ClusterOfCore(i) = clusterId
<1> DEFINE C(j) == D!ClusterOfCore(j)
           N == Cardinality(D!FirstCores)
<1>1. N \in Nat /\ C(i) \in 0..N - 1 /\ clusterId \in Nat
  BY ClusterNumbers DEF FitInv, FitTypes
<1>2. ~(C(i) < clusterId)
  BY DEF FitInv, NumbersFit
<1>3. ASSUME clusterId < C(i)
      PROVE  FALSE
  <2>1. PICK f \in D!FirstCores : f <= i /\ C(f) = C(i)
    BY ClusterNumbers
  <2>2. clusterId \in 0..N - 1
    BY <1>1, <1>3
  <2>3. PICK g \in D!FirstCores : C(g) = clusterId
    BY <2>2, ClusterNumbers
  <2>4. g < f
    BY <1>3, <2>1, <2>3, ClusterNumbers
  <2>5. g \in D!Cores /\ g \in D!Points /\ f \in D!Points /\ D!Points \in SUBSET Nat
    BY PointsAreNumbered DEF D!FirstCores, D!Cores
  <2>6. ~(i <= g)
    <3>1. g \in Nat /\ f \in Nat /\ i \in Nat
      BY <2>5
    <3> QED
      BY <2>1, <2>4, <3>1
  <2>7. g \in visited
    BY <2>5, <2>6
  <2>8. C(g) < clusterId
    BY <2>5, <2>7 DEF FitInv, NumbersFit
  <2> QED
    BY <1>1, <2>3, <2>8
<1> HIDE DEF C, N
<1>4. C(i) = clusterId
  BY <1>1, <1>2, <1>3
<1> QED
  BY <1>4 DEF C

(* The next point of the main loop is noise, or the first of a cluster.    *)
LEMMA VisitFits ==
  ASSUME Clustering, FitInv, D!Visit, UNCHANGED <<rows, call>>
  PROVE  FitInv'
<1>1. ~expanding /\ queue = {} /\ visited # D!Points /\ visited \in SUBSET D!Points
  BY DEF D!Visit, FitInv, FitTypes
<1>2. PICK i \in D!Points \ visited :
        i = Min(D!Points \ visited) /\ \A p \in D!Points \ visited : i <= p
  BY <1>1, PointsAreNumbered, MinIsLeast
<1>3. /\ D!Points' = D!Points /\ D!Cores' = D!Cores
      /\ \A p : D!Ball(p)' = D!Ball(p)
      /\ \A p : D!ClusterOfCore(p)' = D!ClusterOfCore(p)
  BY DefinitionIsStable
<1>4. /\ clusterId' = clusterId /\ clusterId \in Nat
      /\ IF D!IsCore(i)
         THEN D!Mark(i, "CORE", clusterId) /\ queue' = D!RegionQuery(i) /\ expanding' = TRUE
         ELSE D!Mark(i, "NOISE", -1) /\ queue' = queue /\ expanding' = expanding
  BY <1>2, SameLeast DEF D!Visit, FitInv, FitTypes
<1>5. ~Settled(i) /\ i \in D!Points
  BY <1>2 DEF Settled
<1>6. CASE i \in D!Cores
  <2>1. D!IsCore(i) /\ D!RegionQuery(i) = D!Ball(i) \ {i} /\ D!Ball(i) \in SUBSET D!Points /\ i \in D!Ball(i)
    BY <1>5, <1>6, RegionIsBall
  <2>2. D!ClusterOfCore(i) = clusterId
    BY <1>1, <1>2, <1>6, NextCoreOpensCluster
  <2>3. /\ visited' = visited \cup {i} /\ queue' = D!Ball(i) \ {i} /\ expanding' = TRUE
        /\ label' = [label EXCEPT ![i] = "CORE"] /\ cluster' = [cluster EXCEPT ![i] = clusterId]
    BY <1>4, <2>1 DEF D!Mark
  <2>4. Fits(i, "CORE", clusterId)
    BY <1>6, <2>2 DEF Fits
  <2>5. /\ visited' \in SUBSET D!Points
        /\ label' \in [D!Points -> {"UNVISITED", "CORE", "NOISE", "BORDER"}]
        /\ cluster' \in [D!Points -> Int]
        /\ LabelsFit'
        /\ \A p \in D!Points : Settled(p) => Settled(p)'
        /\ Settled(i)'
    <3>1. "CORE" # "NOISE"
      OBVIOUS
    <3> DEFINE type == "CORE"
    <3> HIDE DEF type
    <3>2. Fits(i, type, clusterId) /\ label' = [label EXCEPT ![i] = type] /\ type # "NOISE"
      BY <2>3, <2>4, <3>1 DEF type
    <3> QED
      BY <1>5, <2>3, <3>2, AssignFits
  <2>6. FitTypes'
    BY <1>3, <1>4, <2>1, <2>3, <2>5 DEF FitTypes
  <2>7. QueueFits'
    <3>1. ASSUME NEW j \in visited' \cap D!Cores, NEW p \in D!Ball(j)
          PROVE  Settled(p)' \/ (p \in queue' /\ D!ClusterOfCore(j) = clusterId)
      <4>1. CASE j = i
        <5>1. p \in D!Ball(i) /\ D!ClusterOfCore(j) = clusterId
          BY <2>2, <4>1
        <5>2. p = i \/ p \in queue'
          BY <2>3, <5>1
        <5> QED
          BY <2>5, <5>1, <5>2
      <4>2. CASE j # i
        <5>1. j \in visited \cap D!Cores
          BY <2>3, <4>2
        <5>2. Settled(p) /\ p \in D!Points
          BY <1>1, <5>1, RegionIsBall DEF FitInv, QueueFits, D!Cores
        <5> QED
          BY <2>5, <5>2
      <4> QED
        BY <4>1, <4>2
    <3>2. ASSUME NEW p \in queue'
          PROVE  \E j \in visited' \cap D!Cores : p \in D!Ball(j) /\ D!ClusterOfCore(j) = clusterId
      BY <1>6, <2>2, <2>3
    <3> QED
      BY <1>3, <1>4, <3>1, <3>2 DEF QueueFits
  <2>8. NumbersFit'
    BY <1>1, <1>3, <1>4, <1>6, <2>2, <2>3 DEF FitInv, NumbersFit
  <2> QED
    BY <2>5, <2>6, <2>7, <2>8 DEF FitInv
<1>7. CASE i \notin D!Cores
  <2>1. ~D!IsCore(i)
    BY <1>5, <1>7, RegionIsBall
  <2> DEFINE none == -1
  <2>2. /\ visited' = visited \cup {i} /\ queue' = {} /\ expanding' = FALSE
        /\ label' = [label EXCEPT ![i] = "NOISE"] /\ cluster' = [cluster EXCEPT ![i] = none]
    BY <1>1, <1>4, <2>1 DEF D!Mark, FitInv, FitTypes
  <2>3. Fits(i, "NOISE", none)
    BY <1>7 DEF Fits
  <2> HIDE DEF none
  <2>4. /\ visited' \in SUBSET D!Points
        /\ label' \in [D!Points -> {"UNVISITED", "CORE", "NOISE", "BORDER"}]
        /\ cluster' \in [D!Points -> Int]
        /\ LabelsFit'
        /\ \A p \in D!Points : Settled(p) => Settled(p)'
    BY <1>5, <2>2, <2>3, AssignFits
  <2>5. FitTypes'
    BY <1>3, <1>4, <2>2, <2>4 DEF FitTypes
  <2>6. visited' \cap D!Cores = visited \cap D!Cores
    BY <1>7, <2>2
  <2>7. QueueFits'
    <3>1. ASSUME NEW j \in visited \cap D!Cores, NEW p \in D!Ball(j)
          PROVE  Settled(p)'
      <4>1. Settled(p)
        BY <1>1 DEF FitInv, QueueFits
      <4>2. p \in D!Points
        BY <4>1, <1>1 DEF Settled
      <4> QED
        BY <2>4, <4>1, <4>2
    <3> QED
      BY <1>3, <2>2, <2>6, <3>1 DEF QueueFits
  <2>8. NumbersFit'
    BY <1>1, <1>3, <1>4, <2>2, <2>6 DEF FitInv, NumbersFit
  <2> QED
    BY <2>4, <2>5, <2>7, <2>8 DEF FitInv
<1> QED
  BY <1>6, <1>7

(* A point that joins the running cluster.                                 *)
LEMMA ExpandFits ==
  ASSUME Clustering, FitInv, D!Expand, UNCHANGED <<rows, call>>
  PROVE  FitInv'
<1>1. PICK i \in queue \ visited :
        IF D!IsCore(i)
        THEN D!Mark(i, "CORE", clusterId) /\ queue' = (queue \cup D!RegionQuery(i)) \ {i}
        ELSE D!Mark(i, "BORDER", clusterId) /\ queue' = queue \ {i}
  BY DEF D!Expand
<1>2. /\ D!Points' = D!Points /\ D!Cores' = D!Cores
      /\ \A p : D!Ball(p)' = D!Ball(p)
      /\ \A p : D!ClusterOfCore(p)' = D!ClusterOfCore(p)
  BY DefinitionIsStable
<1>3. /\ i \in D!Points /\ expanding
      /\ i \in D!Cores => D!ClusterOfCore(i) = clusterId
      /\ ~Settled(i) => \E j \in D!Cores \cap D!Ball(i) :
           /\ clusterId = D!ClusterOfCore(j)
           /\ \A k \in D!Cores \cap D!Ball(i) : D!ClusterOfCore(j) <= D!ClusterOfCore(k)
  BY <1>1, QueuedPoint
<1>4. ~Settled(i) /\ i \notin visited
  BY <1>1 DEF Settled
<1>5. /\ clusterId' = clusterId /\ expanding' = expanding /\ expanding = TRUE /\ clusterId \in Nat
      /\ queue \in SUBSET D!Points
  BY <1>3 DEF D!Expand, FitInv, FitTypes
<1>6. PICK type \in {"CORE", "BORDER"} :
        /\ visited' = visited \cup {i}
        /\ label' = [label EXCEPT ![i] = type] /\ cluster' = [cluster EXCEPT ![i] = clusterId]
        /\ Fits(i, type, clusterId)
  <2>1. CASE i \in D!Cores
    <3>1. D!IsCore(i)
      BY <1>3, <2>1, RegionIsBall
    <3>2. Fits(i, "CORE", clusterId)
      BY <1>3, <2>1 DEF Fits
    <3> QED
      BY <1>1, <3>1, <3>2 DEF D!Mark
  <2>2. CASE i \notin D!Cores
    <3>1. ~D!IsCore(i)
      BY <1>3, <2>2, RegionIsBall
    <3>2. Fits(i, "BORDER", clusterId)
      BY <1>3, <1>4, <2>2 DEF Fits
    <3> QED
      BY <1>1, <3>1, <3>2 DEF D!Mark
  <2> QED
    BY <2>1, <2>2
<1>7. /\ visited' \in SUBSET D!Points
      /\ label' \in [D!Points -> {"UNVISITED", "CORE", "NOISE", "BORDER"}]
      /\ cluster' \in [D!Points -> Int]
      /\ LabelsFit'
      /\ \A p \in D!Points : Settled(p) => Settled(p)'
      /\ Settled(i)'
  <2>1. type # "NOISE"
    OBVIOUS
  <2> QED
    BY <1>3, <1>4, <1>6, <2>1, AssignFits
<1>8. /\ D!Ball(i) \in SUBSET D!Points
      /\ i \in D!Cores => queue' = (queue \cup D!Ball(i)) \ {i}
      /\ i \notin D!Cores => queue' = queue \ {i}
  BY <1>1, <1>3, RegionIsBall
<1>9. FitTypes'
  BY <1>2, <1>5, <1>7, <1>8 DEF FitTypes
<1>10. QueueFits'
  <2>1. ASSUME NEW j \in visited' \cap D!Cores, NEW p \in D!Ball(j)
        PROVE  Settled(p)' \/ (p \in queue' /\ D!ClusterOfCore(j) = clusterId)
    <3>1. CASE p = i
      BY <1>7, <3>1
    <3>2. CASE p # i /\ j = i
      <4>1. p \in D!Ball(i) /\ D!ClusterOfCore(j) = clusterId /\ i \in D!Cores
        BY <1>3, <2>1, <3>2
      <4> QED
        BY <1>8, <3>2, <4>1
    <3>3. CASE p # i /\ j # i
      <4>1. j \in visited \cap D!Cores
        BY <1>6, <3>3
      <4>2. p \in D!Points
        BY <4>1, RegionIsBall DEF D!Cores
      <4>3. Settled(p) \/ (p \in queue /\ D!ClusterOfCore(j) = clusterId)
        BY <4>1 DEF FitInv, QueueFits
      <4>4. p \in queue => p \in queue'
        BY <1>8, <3>3
      <4> QED
        BY <1>7, <4>2, <4>3, <4>4
    <3> QED
      BY <3>1, <3>2, <3>3
  <2>2. ASSUME NEW p \in queue'
        PROVE  \E j \in visited' \cap D!Cores : p \in D!Ball(j) /\ D!ClusterOfCore(j) = clusterId
    <3>1. CASE p \in queue
      <4>1. \E j \in visited \cap D!Cores : p \in D!Ball(j) /\ D!ClusterOfCore(j) = clusterId
        BY <3>1 DEF FitInv, QueueFits
      <4> QED
        BY <1>6, <4>1
    <3>2. CASE p \notin queue
      <4>1. i \in D!Cores /\ p \in D!Ball(i)
        BY <1>8, <3>2
      <4> QED
        BY <1>3, <1>6, <4>1
    <3> QED
      BY <3>1, <3>2
  <2> QED
    BY <1>2, <1>5, <2>1, <2>2 DEF QueueFits
<1>11. NumbersFit'
  BY <1>2, <1>3, <1>5, <1>6 DEF FitInv, NumbersFit
<1> QED
  BY <1>7, <1>9, <1>10, <1>11 DEF FitInv

(* A point that was visited before: if it was taken for noise, this is the *)
(* first cluster with a core near it.                                      *)
LEMMA PromoteFits ==
  ASSUME Clustering, FitInv, D!Promote, UNCHANGED <<rows, call>>
  PROVE  FitInv'
<1>1. PICK i \in queue \cap visited :
        /\ queue' = queue \ {i}
        /\ IF label[i] = "NOISE"
           THEN label' = [label EXCEPT ![i] = "BORDER"] /\ cluster' = [cluster EXCEPT ![i] = clusterId]
           ELSE label' = label /\ cluster' = cluster
  BY DEF D!Promote
<1>2. /\ D!Points' = D!Points /\ D!Cores' = D!Cores
      /\ \A p : D!Ball(p)' = D!Ball(p)
      /\ \A p : D!ClusterOfCore(p)' = D!ClusterOfCore(p)
  BY DefinitionIsStable
<1>3. /\ i \in D!Points /\ expanding
      /\ ~Settled(i) => \E j \in D!Cores \cap D!Ball(i) :
           /\ clusterId = D!ClusterOfCore(j)
           /\ \A k \in D!Cores \cap D!Ball(i) : D!ClusterOfCore(j) <= D!ClusterOfCore(k)
  BY <1>1, QueuedPoint
<1>4. /\ clusterId' = clusterId /\ expanding' = expanding /\ visited' = visited
      /\ expanding = TRUE /\ clusterId \in Nat
      /\ queue \in SUBSET D!Points
  BY <1>3 DEF D!Promote, FitInv, FitTypes
<1>5. /\ visited' \in SUBSET D!Points
      /\ label' \in [D!Points -> {"UNVISITED", "CORE", "NOISE", "BORDER"}]
      /\ cluster' \in [D!Points -> Int]
      /\ LabelsFit'
      /\ \A p \in D!Points : Settled(p) => Settled(p)'
      /\ Settled(i)'
  <2>1. CASE label[i] = "NOISE"
    <3>1. ~Settled(i) /\ i \notin D!Cores
      <4>1. Fits(i, label[i], cluster[i])
        BY <1>1, <1>3 DEF FitInv, LabelsFit
      <4> QED
        BY <2>1, <4>1 DEF Settled, Fits
    <3> DEFINE type == "BORDER"
    <3>2. label' = [label EXCEPT ![i] = type] /\ cluster' = [cluster EXCEPT ![i] = clusterId]
      BY <1>1, <2>1
    <3>3. Fits(i, type, clusterId) /\ type # "NOISE"
      BY <1>3, <3>1 DEF Fits
    <3>4. visited' = visited \cup {i}
      BY <1>1, <1>4
    <3> HIDE DEF type
    <3> QED
      BY <1>3, <3>1, <3>2, <3>3, <3>4, AssignFits
  <2>2. CASE label[i] # "NOISE"
    <3>1. label' = label /\ cluster' = cluster /\ visited' = visited
      BY <1>1, <1>4, <2>2
    <3>2. /\ visited \in SUBSET D!Points
          /\ label \in [D!Points -> {"UNVISITED", "CORE", "NOISE", "BORDER"}]
          /\ cluster \in [D!Points -> Int]
      BY DEF FitInv, FitTypes
    <3>3. LabelsFit'
      BY <1>2, <3>1 DEF FitInv, LabelsFit, Fits
    <3>4. \A p : Settled(p)' <=> Settled(p)
      BY <3>1 DEF Settled
    <3>5. Settled(i)
      BY <1>1, <2>2 DEF Settled
    <3> QED
      BY <3>1, <3>2, <3>3, <3>4, <3>5
  <2> QED
    BY <2>1, <2>2
<1>6. FitTypes'
  BY <1>1, <1>2, <1>4, <1>5 DEF FitTypes
<1>7. QueueFits'
  <2>1. ASSUME NEW j \in visited \cap D!Cores, NEW p \in D!Ball(j)
        PROVE  Settled(p)' \/ (p \in queue' /\ D!ClusterOfCore(j) = clusterId)
    <3>1. Settled(p) \/ (p \in queue /\ D!ClusterOfCore(j) = clusterId)
      BY DEF FitInv, QueueFits
    <3>2. p \in D!Points
      BY RegionIsBall DEF D!Cores
    <3>3. p # i /\ p \in queue => p \in queue'
      BY <1>1
    <3> QED
      BY <1>5, <3>1, <3>2, <3>3
  <2>2. ASSUME NEW p \in queue'
        PROVE  \E j \in visited \cap D!Cores : p \in D!Ball(j) /\ D!ClusterOfCore(j) = clusterId
    BY <1>1 DEF FitInv, QueueFits
  <2> QED
    BY <1>2, <1>4, <2>1, <2>2 DEF QueueFits
<1>8. NumbersFit'
  BY <1>2, <1>4 DEF FitInv, NumbersFit
<1> QED
  BY <1>5, <1>6, <1>7, <1>8 DEF FitInv

(* An expansion that has run out of points has visited its whole component.*)
LEMMA CloseFits ==
  ASSUME Clustering, FitInv, D!CloseCluster, UNCHANGED <<rows, call>>
  PROVE  FitInv'
<1>1. /\ expanding /\ queue = {} /\ clusterId' = clusterId + 1 /\ expanding' = FALSE /\ clusterId \in Nat
      /\ visited' = visited /\ label' = label /\ cluster' = cluster /\ queue' = queue
  BY DEF D!CloseCluster, FitInv, FitTypes
<1>2. /\ D!Points' = D!Points /\ D!Cores' = D!Cores
      /\ \A p : D!Ball(p)' = D!Ball(p)
      /\ \A p : D!ClusterOfCore(p)' = D!ClusterOfCore(p)
  BY DefinitionIsStable
<1>3. \A p : Settled(p)' <=> Settled(p)
  BY <1>1 DEF Settled
<1>4. ASSUME NEW j \in visited \cap D!Cores, NEW p \in D!Ball(j)
      PROVE  Settled(p)
  BY <1>1 DEF FitInv, QueueFits
<1>5. PICK f \in visited \cap D!Cores : D!ClusterOfCore(f) = clusterId
  BY <1>1 DEF FitInv, NumbersFit
<1>6. D!Component(f) \subseteq visited
  <2> DEFINE S == D!Component(f) \cap visited
  <2>1. S \in SUBSET D!Cores /\ f \in S
    BY ComponentIsClosed
  <2>2. ASSUME NEW j \in S, NEW k \in D!Cores \cap D!Ball(j)
        PROVE  k \in S
    BY <1>4, ComponentIsClosed DEF Settled
  <2>3. D!Component(f) \subseteq S
    BY <2>1, <2>2, ComponentIsLeast
  <2> QED
    BY <2>3
<1>7. ASSUME NEW k \in D!Cores, D!ClusterOfCore(k) < clusterId + 1
      PROVE  k \in visited
  <2>1. D!ClusterOfCore(k) \in Nat
    BY ClusterNumbers
  <2>2. CASE D!ClusterOfCore(k) < clusterId
    BY <2>2 DEF FitInv, NumbersFit
  <2>3. CASE D!ClusterOfCore(k) = clusterId
    <3>1. D!Component(k) = D!Component(f)
      BY <1>5, <2>3, ClusterNumbers
    <3> QED
      BY <1>6, <3>1, ComponentIsClosed
  <2> QED
    BY <1>1, <1>7, <2>1, <2>2, <2>3
<1>8. ASSUME NEW j \in visited \cap D!Cores
      PROVE  D!ClusterOfCore(j) < clusterId + 1
  <2>1. D!ClusterOfCore(j) \in Nat
    BY ClusterNumbers
  <2>2. D!ClusterOfCore(j) < clusterId \/ D!ClusterOfCore(j) = clusterId
    BY DEF FitInv, NumbersFit
  <2> QED
    BY <1>1, <2>1, <2>2
<1>9. FitTypes'
  <2>1. /\ visited \in SUBSET D!Points /\ cluster \in [D!Points -> Int]
        /\ label \in [D!Points -> {"UNVISITED", "CORE", "NOISE", "BORDER"}]
    BY DEF FitInv, FitTypes
  <2>2. clusterId' \in Nat
    BY <1>1
  <2> QED
    BY <1>1, <1>2, <2>1, <2>2 DEF FitTypes
<1>10. LabelsFit'
  BY <1>1, <1>2 DEF FitInv, LabelsFit, Fits
<1>11. QueueFits'
  BY <1>1, <1>2, <1>3, <1>4 DEF QueueFits
<1>12. NumbersFit'
  BY <1>1, <1>2, <1>7, <1>8 DEF NumbersFit
<1> QED
  BY <1>9, <1>10, <1>11, <1>12 DEF FitInv

(* A step that leaves the clustering alone.                                *)
LEMMA FitStutters ==
  ASSUME FitInv, UNCHANGED <<rows, call, dbscanVars>>
  PROVE  FitInv'
<1>1. /\ D!Points' = D!Points /\ D!Cores' = D!Cores
      /\ \A p : D!Ball(p)' = D!Ball(p)
      /\ \A p : D!ClusterOfCore(p)' = D!ClusterOfCore(p)
  BY DefinitionIsStable
<1>2. /\ visited' = visited /\ label' = label /\ cluster' = cluster /\ queue' = queue
      /\ expanding' = expanding /\ clusterId' = clusterId
  BY DEF dbscanVars
<1>3. FitTypes'
  BY <1>1, <1>2 DEF FitInv, FitTypes
<1>4. LabelsFit'
  BY <1>1, <1>2 DEF FitInv, LabelsFit, Fits
<1>5. QueueFits'
  BY <1>1, <1>2 DEF FitInv, QueueFits, Settled
<1>6. NumbersFit'
  BY <1>1, <1>2 DEF FitInv, NumbersFit
<1> QED
  BY <1>3, <1>4, <1>5, <1>6 DEF FitInv
-----------------------------------------------------------------------------
(* The greatest of a set, as Dbscan extends it and as this module does.    *)
LEMMA SameGreatest ==
  \A S : D!Max(S) = Max(S)
<1> QED
  BY DEF D!Max, Max

(* What the invariant says when every point has been visited.              *)
LEMMA FinishedFit ==
  ASSUME Clustering, FitInv, visited = D!Points, ~expanding
  PROVE  /\ \A i \in D!Points : cluster[i] = D!ClusterByDefinition(i) /\ label[i] = D!LabelByDefinition(i)
         /\ D!GetNoiseCount = Cardinality({i \in D!Points : label[i] = "NOISE"})
         /\ D!GetClusterCount = Cardinality(D!FirstCores)
<1> DEFINE N == Cardinality(D!FirstCores)
<1>1. /\ N \in Nat
      /\ \A i \in D!Cores : D!ClusterOfCore(i) \in 0..N - 1
      /\ \A c \in 0..N - 1 : \E f \in D!FirstCores : D!ClusterOfCore(f) = c
  BY ClusterNumbers
<1>2. /\ D!FirstCores \in SUBSET D!Cores /\ D!Cores \in SUBSET D!Points
      /\ \A i \in D!Points : Fits(i, label[i], cluster[i])
      /\ queue = {}
  BY DEF D!FirstCores, D!Cores, FitInv, LabelsFit, FitTypes
<1>3. ASSUME NEW i \in D!Points, NEW j \in D!Cores \cap D!Ball(i)
      PROVE  label[i] # "NOISE"
  <2>1. i \in D!Ball(j)
    BY NeighboursAreMutual
  <2> QED
    BY <1>2, <2>1 DEF FitInv, QueueFits, Settled
<1>4. ASSUME NEW i \in D!Points
      PROVE  cluster[i] = D!ClusterByDefinition(i) /\ label[i] = D!LabelByDefinition(i)
  <2>1. CASE i \in D!Cores
    <3>1. i \in D!Cores \cap D!Ball(i)
      BY <2>1, RegionIsBall
    <3>2. label[i] = "CORE" /\ cluster[i] = D!ClusterOfCore(i)
      BY <1>2, <2>1 DEF Fits
    <3> QED
      BY <2>1, <3>1, <3>2 DEF D!ClusterByDefinition, D!LabelByDefinition
  <2>2. CASE i \notin D!Cores /\ D!Cores \cap D!Ball(i) = {}
    <3>1. label[i] = "NOISE" /\ cluster[i] = -1
      BY <1>2, <2>2 DEF Fits
    <3> QED
      BY <2>2, <3>1 DEF D!ClusterByDefinition, D!LabelByDefinition
  <2>3. CASE i \notin D!Cores /\ D!Cores \cap D!Ball(i) # {}
    <3>1. label[i] # "NOISE"
      BY <1>3, <2>3
    <3>2. label[i] = "BORDER"
      BY <1>2, <2>3, <3>1 DEF Fits
    <3>3. PICK j \in D!Cores \cap D!Ball(i) :
            /\ cluster[i] = D!ClusterOfCore(j)
            /\ \A k \in D!Cores \cap D!Ball(i) : D!ClusterOfCore(j) <= D!ClusterOfCore(k)
      BY <1>2, <2>3, <3>2 DEF Fits
    <3> DEFINE S == {D!ClusterOfCore(k) : k \in D!Cores \cap D!Ball(i)}
    <3>4. S \in SUBSET Nat /\ cluster[i] \in S /\ \A c \in S : cluster[i] <= c
      BY <1>1, <3>3
    <3>5. D!ClusterByDefinition(i) = Min(S)
      BY <2>3, SameLeast DEF D!ClusterByDefinition
    <3> HIDE DEF S
    <3>6. Min(S) \in S /\ Min(S) <= cluster[i]
      BY <3>4, MinIsLeast
    <3>7. Min(S) = cluster[i]
      <4>1. Min(S) \in Nat /\ cluster[i] \in Nat /\ cluster[i] <= Min(S)
        BY <3>4, <3>6
      <4> QED
        BY <3>6, <4>1
    <3>8. D!LabelByDefinition(i) = "BORDER"
      BY <2>3 DEF D!LabelByDefinition
    <3> QED
      BY <3>2, <3>5, <3>7, <3>8
  <2> QED
    BY <2>1, <2>2, <2>3
<1>5. \A i \in D!Points : cluster[i] \in Int /\ (cluster[i] = -1 <=> label[i] = "NOISE")
  <2>1. ASSUME NEW i \in D!Points
        PROVE  cluster[i] \in Int /\ (cluster[i] = -1 <=> label[i] = "NOISE")
    <3>1. CASE \E j \in D!Cores : cluster[i] = D!ClusterOfCore(j) /\ label[i] # "NOISE"
      BY <1>1, <3>1
    <3>2. CASE label[i] = "NOISE" /\ cluster[i] = -1
      BY <3>2
    <3> QED
      BY <1>2, <3>1, <3>2 DEF Fits
  <2> QED
    BY <2>1
<1>6. D!GetNoiseCount = Cardinality({i \in D!Points : label[i] = "NOISE"})
  <2>1. {i \in D!Points : cluster[i] = -1} = {i \in D!Points : label[i] = "NOISE"}
    BY <1>5
  <2> QED
    BY <2>1, SameCardinality DEF D!GetNoiseCount
<1>7. D!GetClusterCount = N
  <2> DEFINE S == {cluster[i] : i \in D!Points} \cup {-1}
  <2>1. ASSUME NEW i \in D!Points
        PROVE  cluster[i] \in Int /\ cluster[i] <= N - 1
    <3>1. CASE \E j \in D!Cores : cluster[i] = D!ClusterOfCore(j)
      BY <1>1, <3>1
    <3>2. CASE cluster[i] = -1
      BY <1>1, <3>2
    <3> QED
      BY <1>2, <3>1, <3>2 DEF Fits
  <2>2. S \in SUBSET Int /\ \A c \in S : c <= N - 1
    BY <1>1, <2>1
  <2>3. N - 1 \in S
    <3>1. CASE N = 0
      BY <3>1
    <3>2. CASE N # 0
      <4>1. N - 1 \in 0..N - 1
        BY <1>1, <3>2
      <4>2. PICK f \in D!FirstCores : D!ClusterOfCore(f) = N - 1
        BY <1>1, <4>1
      <4>3. f \in D!Points /\ cluster[f] = N - 1
        BY <1>2, <4>2 DEF Fits
      <4> QED
        BY <4>3
    <3> QED
      BY <3>1, <3>2
  <2>4. D!GetClusterCount = Max(S) + 1
    BY SameGreatest DEF D!GetClusterCount
  <2> HIDE DEF S, N
  <2>5. Max(S) \in S /\ \A c \in S : Max(S) >= c
    <3>1. \A c \in S : N - 1 >= c
      BY <1>1, <2>2
    <3> QED
      BY <2>3, <3>1 DEF Max
  <2>6. Max(S) = N - 1
    <3>1. Max(S) \in Int /\ N - 1 \in Int /\ Max(S) <= N - 1 /\ Max(S) >= N - 1
      BY <1>1, <2>2, <2>3, <2>5
    <3> QED
      BY <3>1
  <2> QED
    BY <1>1, <2>4, <2>6
<1> QED
  BY <1>4, <1>6, <1>7
-----------------------------------------------------------------------------
(* The call around Fit: the scan keeps points with a coordinate for every  *)
(* column, and the arguments were checked before it.                       *)
ClusteringInv ==
  /\ rows \in Seq([1..Len(given.columns) -> Int \cup {NaN}])
  /\ stage = "bind" => call = given
  /\ stage \in {"scan", "run", "done"} => call.eps \in Int \X (Nat \ {0})
  /\ stage \in {"bind", "scan"} => D!DbscanIdle
  /\ stage \in {"run", "done"} => FitInv
  /\ stage = "done" => visited = D!Points /\ ~expanding

CallInv ==
  /\ \E c \in Cases : given = c[1] /\ table = c[2]
  /\ scanned \in Nat
  /\ call.fn = given.fn
  /\ given.fn = "dbscan" => ClusteringInv

(* The types that the arguments of an accepted case have.                  *)
LEMMA GivenTypes ==
  ASSUME CallInv
  PROVE  /\ "fn" \in DOMAIN given /\ given.fn \in {"dbscan", "forest", "tree"}
         /\ given.fn = "dbscan" =>
              /\ {"columns", "eps", "minPts"} \subseteq DOMAIN given
              /\ Len(given.columns) \in Nat
              /\ given.eps \in (Int \X (Nat \ {0})) \cup {Null, NaN, Inf}
              /\ table \in Seq([1..Len(given.columns) -> Int \cup {NaN, Null}])
<1>1. PICK c \in Cases : given = c[1] /\ table = c[2]
  BY DEF CallInv
<1>2. /\ "fn" \in DOMAIN c[1] /\ c[1].fn \in {"dbscan", "forest", "tree"}
      /\ c[1].fn = "dbscan" =>
           /\ {"columns", "types", "categories", "eps", "minPts"} \subseteq DOMAIN c[1]
           /\ c[1].columns \in Seq(Nat)
           /\ c[1].eps \in (Int \X (Nat \ {0})) \cup {Null, NaN, Inf}
           /\ c[2] \in Seq([1..Len(c[1].columns) -> Int \cup {NaN, Null}])
  BY CasesAssumption
<1> QED
  BY <1>1, <1>2

(* From the end of binding on, a call of dbscan is a clustering.           *)
LEMMA CallIsClustering ==
  ASSUME CallInv, call.fn = "dbscan", stage \in {"scan", "run", "done"}
  PROVE  Clustering
<1>1. given.fn = "dbscan" /\ ClusteringInv
  BY DEF CallInv
<1> QED
  BY <1>1, GivenTypes DEF ClusteringInv, Clustering

(* No call has begun.                                                      *)
LEMMA InitCall ==
  Init => CallInv
<1>1. SUFFICES ASSUME Init
               PROVE  CallInv
  OBVIOUS
<1>2. <<>> \in Seq([1..Len(given.columns) -> Int \cup {NaN}])
  OBVIOUS
<1> QED
  BY <1>1, <1>2 DEF Init, CallInv, ClusteringInv

(* Binding replaces the arguments that were not given, and rejects an      *)
(* infinite or missing eps.                                                *)
LEMMA BindKeepsCall ==
  ASSUME CallInv, Bind
  PROVE  CallInv'
<1>1. /\ given' = given /\ table' = table /\ scanned' = scanned /\ rows' = rows
      /\ call' = OptionalInputs(given)
      /\ stage = "bind" /\ stage' = IF Accepted(call') THEN "scan" ELSE "rejected"
      /\ UNCHANGED dbscanVars
  BY DEF Bind, work
<1>2. call'.fn = given.fn
  BY <1>1, GivenTypes DEF OptionalInputs
<1>3. ASSUME given.fn = "dbscan"
      PROVE  ClusteringInv'
  <2>1. call'.eps = Default(given.eps, <<1, 2>>)
    BY <1>1, <1>3, GivenTypes DEF OptionalInputs
  <2>2. stage' = "scan" => call'.eps \in Int \X (Nat \ {0})
    <3>1. SUFFICES ASSUME stage' = "scan"
                   PROVE  call'.eps \in Int \X (Nat \ {0})
      OBVIOUS
    <3>2. Accepted(call')
      BY <1>1, <3>1
    <3>3. call'.eps \notin {NaN, Inf}
      BY <1>2, <1>3, <3>2 DEF Accepted, ParseDBSCANParameters, FiniteFraction
    <3>4. <<1, 2>> \in Int \X (Nat \ {0})
      OBVIOUS
    <3> QED
      BY <1>3, <2>1, <3>3, <3>4, GivenTypes DEF Default
  <2>3. D!DbscanIdle'
    BY <1>1, <1>3 DEF CallInv, ClusteringInv, D!DbscanIdle, dbscanVars
  <2> QED
    BY <1>1, <1>3, <2>2, <2>3 DEF CallInv, ClusteringInv
<1> QED
  BY <1>1, <1>2, <1>3 DEF CallInv

(* A row that is kept has no NULL, so its columns are numbers or NaN.      *)
LEMMA ScanKeepsCall ==
  ASSUME CallInv, ScanRow
  PROVE  CallInv'
<1>1. /\ given' = given /\ table' = table /\ call' = call /\ scanned' = scanned + 1
      /\ stage = "scan" /\ stage' = "scan" /\ scanned < Len(table) /\ scanned \in Nat
      /\ UNCHANGED dbscanVars
      /\ IF Skipped(table[scanned + 1]) THEN rows' = rows ELSE rows' = Append(rows, table[scanned + 1])
  BY DEF ScanRow, work, CallInv
<1>2. ASSUME given.fn = "dbscan"
      PROVE  ClusteringInv'
  <2> DEFINE w == Len(given.columns)
             row == table[scanned + 1]
  <2>1. /\ rows \in Seq([1..w -> Int \cup {NaN}])
        /\ call.eps \in Int \X (Nat \ {0})
        /\ D!DbscanIdle
    BY <1>1, <1>2 DEF CallInv, ClusteringInv
  <2>2. row \in [1..w -> Int \cup {NaN, Null}]
    <3>1. table \in Seq([1..w -> Int \cup {NaN, Null}])
      BY <1>2, GivenTypes
    <3> HIDE DEF w
    <3>2. scanned + 1 \in 1..Len(table)
      BY <1>1, <3>1
    <3> QED
      BY <3>1, <3>2
  <2>3. ~Skipped(row) => row \in [1..w -> Int \cup {NaN}]
    <3>1. ~Skipped(row) => \A i \in DOMAIN row : row[i] # Null
      BY DEF Skipped
    <3> HIDE DEF row, w
    <3> QED
      BY <2>2, <3>1
  <2>4. rows' \in Seq([1..w -> Int \cup {NaN}])
    <3> HIDE DEF w
    <3> QED
      BY <1>1, <2>1, <2>3
  <2>5. D!DbscanIdle'
    BY <1>1, <2>1 DEF D!DbscanIdle, dbscanVars
  <2> QED
    BY <1>1, <2>1, <2>4, <2>5 DEF ClusteringInv
<1> QED
  BY <1>1, <1>2 DEF CallInv

(* The start of the fit, of the function that was called.                  *)
LEMMA FitKeepsCall ==
  ASSUME CallInv, Fit
  PROVE  CallInv'
<1>1. /\ given' = given /\ table' = table /\ call' = call /\ scanned' = scanned /\ rows' = rows
      /\ stage = "scan" /\ stage' = "run"
      /\ call.fn = "dbscan" => D!StartDbscan
  BY DEF Fit, shared
<1>2. ASSUME given.fn = "dbscan"
      PROVE  ClusteringInv'
  <2>1. /\ rows \in Seq([1..Len(given.columns) -> Int \cup {NaN}])
        /\ call.eps \in Int \X (Nat \ {0})
        /\ D!DbscanIdle /\ call.fn = "dbscan"
    BY <1>1, <1>2 DEF CallInv, ClusteringInv
  <2>2. FitInv'
    BY <1>1, <2>1, CallIsClustering, FitStarts
  <2> QED
    BY <1>1, <2>1, <2>2 DEF ClusteringInv
<1> QED
  BY <1>1, <1>2 DEF CallInv

(* The steps of the clustering, and its end with every point visited.      *)
LEMMA RunKeepsCall ==
  ASSUME CallInv, RunDbscan
  PROVE  CallInv'
<1>1. /\ given' = given /\ table' = table /\ call' = call /\ scanned' = scanned /\ rows' = rows
      /\ stage = "run" /\ call.fn = "dbscan" /\ D!DbscanStep
  BY DEF RunDbscan, shared
<1>2. /\ given.fn = "dbscan" /\ FitInv /\ Clustering
      /\ rows \in Seq([1..Len(given.columns) -> Int \cup {NaN}])
      /\ call.eps \in Int \X (Nat \ {0})
  BY <1>1, CallIsClustering DEF CallInv, ClusteringInv
<1>3. UNCHANGED <<rows, call>> /\ D!Points' = D!Points
  BY <1>1 DEF D!Points
<1>4. FitInv' /\ stage' \in {"run", "done", "raised"} /\ (stage' = "done" => visited' = D!Points /\ ~expanding')
  <2>1. CASE D!Visit
    BY <1>1, <1>2, <1>3, <2>1, VisitFits DEF D!Visit
  <2>2. CASE D!Expand
    BY <1>1, <1>2, <1>3, <2>2, ExpandFits DEF D!Expand
  <2>3. CASE D!Promote
    BY <1>1, <1>2, <1>3, <2>3, PromoteFits DEF D!Promote
  <2>4. CASE D!CloseCluster
    BY <1>1, <1>2, <1>3, <2>4, CloseFits DEF D!CloseCluster
  <2>5. CASE D!FinishDbscan
    <3>1. UNCHANGED dbscanVars /\ stage' = "done" /\ visited = D!Points /\ ~expanding
      BY <2>5 DEF D!FinishDbscan, D!dbscanVars, dbscanVars
    <3>2. FitInv'
      BY <1>2, <1>3, <3>1, FitStutters
    <3> QED
      BY <3>1, <3>2 DEF dbscanVars
  <2>6. CASE D!RaiseInDbscan
    <3>1. UNCHANGED dbscanVars /\ stage' = "raised"
      BY <2>6 DEF D!RaiseInDbscan, D!dbscanVars, dbscanVars
    <3>2. FitInv'
      BY <1>2, <1>3, <3>1, FitStutters
    <3> QED
      BY <3>1, <3>2
  <2> QED
    BY <1>1, <2>1, <2>2, <2>3, <2>4, <2>5, <2>6 DEF D!DbscanStep
<1>5. ClusteringInv'
  BY <1>1, <1>2, <1>3, <1>4 DEF ClusteringInv
<1> QED
  BY <1>1, <1>5 DEF CallInv

(* The steps of the other functions, errors and interrupts touch no        *)
(* clustering.                                                             *)
LEMMA OtherStepsKeepCall ==
  ASSUME CallInv, RaiseInScan \/ RunForest \/ RunOutlierTree \/ Interrupt \/ UNCHANGED vars
  PROVE  CallInv'
<1>1. /\ given' = given /\ table' = table /\ call' = call /\ scanned' = scanned /\ rows' = rows
      /\ \/ call.fn # "dbscan"
         \/ UNCHANGED dbscanVars /\ (stage' = stage \/ stage' = "raised")
  BY DEF RaiseInScan, RunForest, RunOutlierTree, Interrupt, vars, shared, work
<1>2. ASSUME given.fn = "dbscan"
      PROVE  ClusteringInv'
  <2>1. UNCHANGED dbscanVars /\ (stage' = stage \/ stage' = "raised") /\ ClusteringInv
    BY <1>1, <1>2 DEF CallInv
  <2>2. FitInv => FitInv'
    BY <1>1, <2>1, FitStutters
  <2>3. D!DbscanIdle => D!DbscanIdle'
    BY <2>1 DEF D!DbscanIdle, dbscanVars
  <2>4. D!Points' = D!Points /\ visited' = visited /\ expanding' = expanding
    BY <1>1, <2>1 DEF D!Points, dbscanVars
  <2> QED
    BY <1>1, <2>1, <2>2, <2>3, <2>4 DEF ClusteringInv
<1> QED
  BY <1>1, <1>2 DEF CallInv

(* In every call, at every point of the expansion.                         *)
THEOREM CallInvariant ==
  Spec => []CallInv
<1>1. CallInv /\ [Next]_vars => CallInv'
  <2>1. SUFFICES ASSUME CallInv, [Next]_vars
                 PROVE  CallInv'
    OBVIOUS
  <2> QED
    BY <2>1, BindKeepsCall, ScanKeepsCall, FitKeepsCall, RunKeepsCall, OtherStepsKeepCall
       DEF Next, CallStep
<1> QED
  BY <1>1, InitCall, PTL DEF Spec

(* Whatever the table, the order in which points leave the queue and the   *)
(* neighbour search that is used, a clustering that ends has the clusters, *)
(* the labels and the counts of the definition.                            *)
THEOREM ClustersAreThoseOfTheDefinition ==
  Spec => []ClustersFollowDefinition
<1>1. CallInv => ClustersFollowDefinition
  <2>1. SUFFICES ASSUME CallInv, stage = "done", call.fn = "dbscan"
                 PROVE  /\ \A i \in DOMAIN rows : /\ cluster[i] = D!ClusterByDefinition(i)
                                                   /\ label[i] = D!LabelByDefinition(i)
                        /\ D!DbscanSummary.noise = Cardinality({i \in DOMAIN rows : label[i] = "NOISE"})
                        /\ D!DbscanSummary.clusters = Cardinality(D!FirstCores)
    BY DEF ClustersFollowDefinition
  <2>2. Clustering /\ FitInv /\ visited = D!Points /\ ~expanding
    BY <2>1, CallIsClustering DEF CallInv, ClusteringInv
  <2>3. D!DbscanSummary.noise = D!GetNoiseCount /\ D!DbscanSummary.clusters = D!GetClusterCount
    BY DEF D!DbscanSummary
  <2>4. D!Points = DOMAIN rows
    BY DEF D!Points
  <2> QED
    BY <2>2, <2>3, <2>4, FinishedFit
<1> QED
  BY <1>1, CallInvariant, PTL

(* A sequence, and what the operators on sequences make of its elements.   *)
IsSeq(s) == s \in Seq(Range(s))

(* A sequence over any set is one over its own elements.                   *)
LEMMA SeqOfItsRange ==
  ASSUME NEW S, NEW s \in Seq(S)
  PROVE  IsSeq(s) /\ Range(s) \subseteq S
<1>1. DOMAIN s = 1..Len(s) /\ Len(s) \in Nat /\ s = [i \in 1..Len(s) |-> s[i]]
  OBVIOUS
<1>2. Range(s) \subseteq S /\ \A i \in 1..Len(s) : s[i] \in Range(s)
  BY <1>1 DEF Range
<1> HIDE DEF Range
<1>3. [i \in 1..Len(s) |-> s[i]] \in Seq(Range(s))
  BY <1>1, <1>2
<1> QED
  BY <1>1, <1>2, <1>3 DEF IsSeq

(* Appending, concatenating and taking apart.                              *)
LEMMA RangeOfParts ==
  ASSUME NEW s, IsSeq(s)
  PROVE  /\ \A x : IsSeq(Append(s, x)) /\ Range(Append(s, x)) = Range(s) \cup {x}
         /\ s # <<>> => /\ Head(s) \in Range(s)
                        /\ IsSeq(Tail(s)) /\ Range(Tail(s)) \subseteq Range(s)
         /\ \A t : IsSeq(t) => IsSeq(s \o t) /\ Range(s \o t) \subseteq Range(s) \cup Range(t)
<1>1. ASSUME NEW x
      PROVE  IsSeq(Append(s, x)) /\ Range(Append(s, x)) = Range(s) \cup {x}
  <2> DEFINE S == Range(s) \cup {x}
  <2>1. s \in Seq(S) /\ x \in S
    <3>1. Range(s) \subseteq S
      OBVIOUS
    <3> QED
      BY <3>1, SeqMonotonic DEF IsSeq
  <2> HIDE DEF S
  <2>2. Append(s, x) \in Seq(S)
    BY <2>1
  <2>3. /\ Len(Append(s, x)) = Len(s) + 1 /\ Len(s) \in Nat
        /\ \A i \in 1..Len(s) : Append(s, x)[i] = s[i]
        /\ Append(s, x)[Len(s) + 1] = x
        /\ DOMAIN Append(s, x) = 1..Len(s) + 1 /\ DOMAIN s = 1..Len(s)
    BY <2>1
  <2>4. \A y \in S : y \in Range(Append(s, x))
    <3>1. ASSUME NEW y \in Range(s)
          PROVE  y \in Range(Append(s, x))
      <4>1. PICK i \in 1..Len(s) : s[i] = y
        BY <2>3 DEF Range
      <4>2. i \in DOMAIN Append(s, x) /\ Append(s, x)[i] = y
        BY <2>3, <4>1
      <4> QED
        BY <4>2 DEF Range
    <3>2. x \in Range(Append(s, x))
      <4>1. Len(s) + 1 \in DOMAIN Append(s, x)
        BY <2>3
      <4> QED
        BY <2>3, <4>1 DEF Range
    <3> QED
      BY <3>1, <3>2 DEF S
  <2> QED
    BY <2>2, <2>4, SeqOfItsRange DEF S
<1>2. ASSUME s # <<>>
      PROVE  /\ Head(s) \in Range(s)
             /\ IsSeq(Tail(s)) /\ Range(Tail(s)) \subseteq Range(s)
  BY <1>2, HeadTailProperties, SeqOfItsRange DEF IsSeq
<1>3. ASSUME NEW t, IsSeq(t)
      PROVE  IsSeq(s \o t) /\ Range(s \o t) \subseteq Range(s) \cup Range(t)
  <2> DEFINE S == Range(s) \cup Range(t)
  <2>1. s \in Seq(S) /\ t \in Seq(S)
    <3>1. Range(s) \subseteq S /\ Range(t) \subseteq S
      OBVIOUS
    <3> QED
      BY <1>3, <3>1, SeqMonotonic DEF IsSeq
  <2> HIDE DEF S
  <2> QED
    BY <2>1, ConcatProperties, SeqOfItsRange DEF S
<1> QED
  BY <1>1, <1>2, <1>3

(* Replacing an element.                                                   *)
LEMMA RangeOfExcept ==
  ASSUME NEW s, IsSeq(s), NEW k, NEW x
  PROVE  /\ IsSeq([s EXCEPT ![k] = x])
         /\ Range([s EXCEPT ![k] = x]) \subseteq Range(s) \cup {x}
<1> DEFINE S == Range(s) \cup {x}
           t == [s EXCEPT ![k] = x]
<1>1. s \in Seq(S) /\ x \in S
  <2>1. Range(s) \subseteq S
    OBVIOUS
  <2> QED
    BY <2>1, SeqMonotonic DEF IsSeq
<1> HIDE DEF S
<1>2. Len(s) \in Nat /\ s \in [1..Len(s) -> S]
  BY <1>1
<1>3. t \in [1..Len(s) -> S]
  BY <1>1, <1>2
<1>4. t \in Seq(S)
  BY <1>2, <1>3, SeqDef
<1> QED
  BY <1>4, SeqOfItsRange DEF S

(* The empty sequence and those of one element.                            *)
LEMMA RangeOfShort ==
  /\ IsSeq(<<>>) /\ Range(<<>>) = {}
  /\ \A x : IsSeq(<<x>>) /\ Range(<<x>>) = {x}
<1>1. \A S : <<>> \in Seq(S)
  BY EmptySeq
<1>2. IsSeq(<<>>) /\ Range(<<>>) = {}
  <2>1. DOMAIN <<>> = {}
    OBVIOUS
  <2>2. Range(<<>>) = {}
    BY <2>1 DEF Range
  <2> QED
    BY <1>1, <2>2 DEF IsSeq
<1>3. ASSUME NEW x PROVE IsSeq(<<x>>) /\ Range(<<x>>) = {x}
  <2>1. <<x>> \in Seq({x}) /\ DOMAIN <<x>> = {1} /\ <<x>>[1] = x
    OBVIOUS
  <2>2. x \in Range(<<x>>)
    BY <2>1 DEF Range
  <2>3. IsSeq(<<x>>) /\ Range(<<x>>) \subseteq {x}
    BY <2>1, SeqOfItsRange
  <2> QED
    BY <2>2, <2>3
<1> QED
  BY <1>2, <1>3

(* Of the values of finitely many rows there is a k-th in ascending order. *)
LEMMA KthValue ==
  ASSUME NEW S \in SUBSET Nat, IsFiniteSet(S), NEW val \in [S -> Int],
         NEW k \in 1..Cardinality(S)
  PROVE  \E v \in {val[r] : r \in S} : /\ Cardinality({r \in S : val[r] < v}) < k
                                       /\ k <= Cardinality({r \in S : val[r] <= v})
<1> DEFINE R == {e \in S \X S : val[e[1]] < val[e[2]] \/ (val[e[1]] = val[e[2]] /\ e[1] < e[2])}
           Less(v) == {r \in S : val[r] < v}
           UpTo(v) == {r \in S : val[r] <= v}
<1>1. \A a, b \in S : <<a, b>> \in R <=> val[a] < val[b] \/ (val[a] = val[b] /\ a < b)
  OBVIOUS
<1>2. R \in SUBSET (S \X S)
  OBVIOUS
<1> HIDE DEF R
<1>3. \A a \in S : val[a] \in Int /\ a \in Nat
  OBVIOUS
<1>4. PICK b \in S : Number(S, R, b) = k
  <2>1. \A a, b \in S : a = b \/ <<a, b>> \in R \/ <<b, a>> \in R
    <3>1. ASSUME NEW a \in S, NEW b \in S
          PROVE  a = b \/ <<a, b>> \in R \/ <<b, a>> \in R
      <4>1. val[a] < val[b] \/ val[b] < val[a] \/ (val[a] = val[b] /\ (a < b \/ b < a \/ a = b))
        BY <1>3
      <4> QED
        BY <1>1, <4>1
    <3> QED
      BY <3>1
  <2>2. \A a, b \in S : <<a, b>> \in R => <<b, a>> \notin R
    BY <1>1, <1>3
  <2>3. \A a, b, c \in S : <<a, b>> \in R /\ <<b, c>> \in R => <<a, c>> \in R
    BY <1>1, <1>3
  <2>4. \A j \in 1..Cardinality(S) : \E b \in S : Number(S, R, b) = j
    BY <1>2, <2>1, <2>2, <2>3, NumberedInOrder
  <2> QED
    BY <2>4
<1> DEFINE B == {a \in S : <<a, b>> \in R}
           v == val[b]
<1>5. v \in Int /\ \A r \in S : (r \in B => r \in UpTo(v)) /\ (r \in Less(v) => r \in B)
  BY <1>1, <1>3
<1>6. B \in SUBSET S /\ b \in UpTo(v) /\ b \notin B /\ UpTo(v) \in SUBSET S /\ Less(v) \in SUBSET S
  BY <1>1, <1>3
<1>7. k = Cardinality(B) + 1
  BY <1>4 DEF Number
<1> HIDE DEF B, v, Less, UpTo
<1>8. B \cup {b} \subseteq UpTo(v) /\ Less(v) \subseteq B
  BY <1>5, <1>6
<1>9. IsFiniteSet(B) /\ IsFiniteSet(UpTo(v)) /\ IsFiniteSet(Less(v)) /\ IsFiniteSet(B \cup {b})
  BY <1>6, FS_Subset, FS_AddElement
<1>10. Cardinality(B) \in Nat /\ Cardinality(UpTo(v)) \in Nat /\ Cardinality(Less(v)) \in Nat
  BY <1>9, FS_CardinalityType
<1>11. Cardinality(B \cup {b}) = Cardinality(B) + 1
  BY <1>6, <1>9, FS_AddElement
<1>12. Cardinality(B \cup {b}) <= Cardinality(UpTo(v)) /\ Cardinality(Less(v)) <= Cardinality(B)
  BY <1>8, <1>9, FS_Subset
<1>13. Cardinality(Less(v)) < k /\ k <= Cardinality(UpTo(v))
  BY <1>7, <1>10, <1>11, <1>12
<1> QED
  BY <1>13 DEF v, Less, UpTo

(* What the outlier tree relies on, and the conditions that it splits by.  *)
Splitting == rows \in Seq([T!Columns -> Int \cup {NaN, Inf, NegInf}])

SplitCondition(c) ==
  /\ DOMAIN c = {"column", "op", "value"}
  /\ c.column \in T!Columns
  /\ \/ c.op = "<=" /\ T!Numeric(c.column) /\ c.value \in Int
     \/ c.op = "in" /\ ~T!Numeric(c.column)

(* The size of a set, as OutlierTree extends it and as this module does.   *)
LEMMA SameCardinalityInTree ==
  \A S : T!Cardinality(S) = Cardinality(S)
<1> QED
  BY DEF T!Cardinality, Cardinality

(* The scanned rows are finitely many.                                     *)
LEMMA RowsAreNumbered ==
  ASSUME Splitting
  PROVE  DOMAIN rows = 1..Len(rows) /\ Len(rows) \in Nat /\ IsFiniteSet(DOMAIN rows)
<1>1. DOMAIN rows = 1..Len(rows) /\ Len(rows) \in Nat
  BY DEF Splitting
<1> QED
  BY <1>1, FS_Interval

(* What is neither NaN nor infinite is an integer.                         *)
LEMMA FiniteValues ==
  ASSUME Splitting, NEW col \in T!Columns, NEW r \in DOMAIN rows, T!Finite(rows[r][col])
  PROVE  rows[r][col] \in Int
<1>1. r \in 1..Len(rows)
  BY RowsAreNumbered
<1>2. rows[r] \in [T!Columns -> Int \cup {NaN, Inf, NegInf}]
  BY <1>1 DEF Splitting
<1>3. rows[r][col] \in Int \cup {NaN, Inf, NegInf}
  BY <1>2
<1> QED
  BY <1>3 DEF T!Finite

(* The middle of two values is between two places of the sort.             *)
LEMMA SplitConditions ==
  ASSUME Splitting, NEW g, g.rows \subseteq DOMAIN rows, NEW c \in T!Splits(g)
  PROVE  SplitCondition(c)
<1>1. PICK col \in T!Columns : c \in IF T!Numeric(col) THEN T!FindNumericSplits(g, col)
                                                       ELSE T!FindCategoricalSplits(g, col)
  BY DEF T!Splits
<1>2. CASE ~T!Numeric(col)
  <2>1. c \in T!FindCategoricalSplits(g, col)
    BY <1>1, <1>2
  <2>2. \E v : c = [column |-> col, op |-> "in", value |-> v]
    BY <2>1 DEF T!FindCategoricalSplits
  <2> QED
    BY <1>2, <2>2 DEF SplitCondition
<1>3. CASE T!Numeric(col)
  <2> DEFINE S == T!FiniteRows(col, g.rows)
             s == T!Sorted(S, LAMBDA r : rows[r][col])
             n == Cardinality(S)
             val == [r \in S |-> rows[r][col]]
             at(q) == (q * Len(s)) \div 4
  <2>1. S \in SUBSET DOMAIN rows /\ \A r \in S : T!Finite(rows[r][col])
    BY DEF T!FiniteRows
  <2>2. S \in SUBSET Nat /\ IsFiniteSet(S) /\ val \in [S -> Int]
    <3>1. \A r \in S : rows[r][col] \in Int
      BY <2>1, FiniteValues
    <3> HIDE DEF S
    <3>2. \A r \in DOMAIN rows : r \in Nat
      BY RowsAreNumbered
    <3> QED
      BY <2>1, <3>1, <3>2, RowsAreNumbered, FS_Subset
  <2>3. n \in Nat
    BY <2>2, FS_CardinalityType
  <2>4. s = [k \in 1..T!Cardinality(S) |->
               CHOOSE v \in {rows[r][col] : r \in S} :
                 /\ T!Cardinality({r \in S : rows[r][col] < v}) < k
                 /\ k <= T!Cardinality({r \in S : rows[r][col] <= v})]
    BY DEF T!Sorted
  <2>10. T!Cardinality(S) = n
    BY SameCardinalityInTree
  <2> HIDE DEF s, S
  <2>5. ASSUME NEW k \in 1..n
        PROVE  s[k] \in Int
    <3> DEFINE IsKth(v) == /\ T!Cardinality({r \in S : rows[r][col] < v}) < k
                           /\ k <= T!Cardinality({r \in S : rows[r][col] <= v})
    <3>1. s[k] = CHOOSE v \in {rows[r][col] : r \in S} : IsKth(v)
      BY <2>4, <2>10
    <3>2. \E v \in {rows[r][col] : r \in S} : IsKth(v)
      <4>1. PICK v \in {val[r] : r \in S} : /\ Cardinality({r \in S : val[r] < v}) < k
                                            /\ k <= Cardinality({r \in S : val[r] <= v})
        BY <2>2, KthValue
      <4>2. \A r \in S : val[r] = rows[r][col]
        OBVIOUS
      <4>3. /\ {r \in S : val[r] < v} = {r \in S : rows[r][col] < v}
            /\ {r \in S : val[r] <= v} = {r \in S : rows[r][col] <= v}
            /\ v \in {rows[r][col] : r \in S}
        BY <4>2
      <4>4. IsKth(v)
        BY <4>1, <4>3, SameCardinalityInTree
      <4> QED
        BY <4>3, <4>4
    <3> HIDE DEF IsKth
    <3>3. s[k] \in {rows[r][col] : r \in S}
      BY <3>1, <3>2
    <3> QED
      BY <2>2, <3>3
  <2>6. Len(s) = n
    BY <2>3, <2>4, <2>10
  <2>7. PICK q \in 1..3 : at(q) > 0 /\ c = [column |-> col, op |-> "<=", value |-> s[at(q)] + s[at(q) + 1]]
    <3>1. c \in T!FindNumericSplits(g, col)
      BY <1>1, <1>3
    <3> QED
      BY <3>1 DEF T!FindNumericSplits, s, S
  <2>8. at(q) \in 1..n /\ at(q) + 1 \in 1..n
    <3>1. at(q) = (q * n) \div 4
      BY <2>6
    <3>2. CASE q = 1
      <4>1. at(q) = n \div 4
        BY <2>3, <3>1, <3>2
      <4> QED
        BY <2>3, <2>7, <4>1
    <3>3. CASE q = 2
      <4>1. at(q) = (2 * n) \div 4
        BY <3>1, <3>3
      <4> QED
        BY <2>3, <2>7, <4>1
    <3>4. CASE q = 3
      <4>1. at(q) = (3 * n) \div 4
        BY <3>1, <3>4
      <4> QED
        BY <2>3, <2>7, <4>1
    <3> QED
      BY <3>2, <3>3, <3>4
  <2>9. s[at(q)] + s[at(q) + 1] \in Int
    <3> HIDE DEF at
    <3> QED
      BY <2>5, <2>8
  <2> QED
    BY <1>3, <2>7, <2>9 DEF SplitCondition
<1> QED
  BY <1>2, <1>3

(* The rows that meet the conditions of a finding, and what the model says *)
(* of a group and of a finding.                                            *)
Group(conditions) == {r \in DOMAIN rows : \A c \in Range(conditions) : T!Meets(r, c)}

GroupFits(g) ==
  /\ DOMAIN g = {"target", "rows", "conditions", "depth"}
  /\ IsSeq(g.conditions)
  /\ g.rows = Group(g.conditions)

FindingFits(f) ==
  /\ f.row \in Group(f.conditions)
  /\ f.size = Cardinality({r \in Group(f.conditions) :
                             T!Numeric(f.target) => T!Finite(rows[r][f.target])})

(* The second branch is the first one's condition turned around.           *)
LEMMA PartsMeetConditions ==
  ASSUME Splitting, NEW S, S \subseteq DOMAIN rows, NEW c, SplitCondition(c)
  PROVE  /\ T!PartitionRows(S, c).left = {r \in S : T!Meets(r, c)}
         /\ T!PartitionRows(S, c).right = {r \in S : T!Meets(r, T!Inverted(c))}
<1> DEFINE valid == {r \in S : T!Numeric(c.column) => T!Finite(rows[r][c.column])}
           left == {r \in valid : T!Meets(r, c)}
<1>1. T!PartitionRows(S, c).left = left /\ T!PartitionRows(S, c).right = valid \ left
  BY DEF T!PartitionRows
<1>2. CASE c.op = "<="
  <2>1. T!Numeric(c.column) /\ c.value \in Int /\ c.column \in T!Columns
    BY <1>2 DEF SplitCondition
  <2>2. /\ T!Inverted(c).op = ">" /\ T!Inverted(c).column = c.column
        /\ T!Inverted(c).value = c.value
    BY <1>2 DEF T!Inverted, SplitCondition
  <2>3. ASSUME NEW r \in S
        PROVE  /\ T!Meets(r, c) <=> T!Finite(rows[r][c.column]) /\ 2 * rows[r][c.column] <= c.value
               /\ T!Meets(r, T!Inverted(c)) <=>
                    T!Finite(rows[r][c.column]) /\ 2 * rows[r][c.column] > c.value
               /\ T!Finite(rows[r][c.column]) => rows[r][c.column] \in Int
    <3>1. T!Meets(r, c) <=> T!Finite(rows[r][c.column]) /\ 2 * rows[r][c.column] <= c.value
      BY <1>2 DEF T!Meets
    <3>2. T!Meets(r, T!Inverted(c)) <=>
            T!Finite(rows[r][c.column]) /\ 2 * rows[r][c.column] > c.value
      BY <2>2 DEF T!Meets
    <3>3. T!Finite(rows[r][c.column]) => rows[r][c.column] \in Int
      BY <2>1, FiniteValues
    <3> QED
      BY <3>1, <3>2, <3>3
  <2>4. ASSUME NEW r \in S
        PROVE  /\ r \in left <=> T!Meets(r, c)
               /\ r \in valid \ left <=> T!Meets(r, T!Inverted(c))
    BY <2>1, <2>3
  <2> HIDE DEF left, valid
  <2>5. left \subseteq S /\ valid \ left \subseteq S
    BY DEF left, valid
  <2> QED
    BY <1>1, <2>4, <2>5
<1>3. CASE c.op = "in"
  <2>1. ~T!Numeric(c.column)
    BY <1>3 DEF SplitCondition
  <2>2. /\ T!Inverted(c).op = "not_in" /\ T!Inverted(c).column = c.column
        /\ T!Inverted(c).value = c.value
    BY <1>3 DEF T!Inverted, SplitCondition
  <2>3. ASSUME NEW r \in S
        PROVE  /\ T!Meets(r, c) <=> rows[r][c.column] = c.value
               /\ T!Meets(r, T!Inverted(c)) <=> rows[r][c.column] # c.value
    BY <1>3, <2>2 DEF T!Meets
  <2> QED
    BY <1>1, <2>1, <2>3
<1> QED
  BY <1>2, <1>3 DEF SplitCondition

(* A group is split into groups whose rows are exactly those that meet     *)
(* their conditions.                                                       *)
LEMMA BranchesFit ==
  ASSUME Splitting, NEW g, GroupFits(g), NEW c \in T!Splits(g)
  PROVE  IsSeq(T!Branches(g, c)) /\ \A b \in Range(T!Branches(g, c)) : GroupFits(b)
<1> DEFINE part == T!PartitionRows(g.rows, c)
           child(S, d) == [g EXCEPT !.rows = S, !.conditions = Append(@, d), !.depth = @ + 1]
           branch(S, d) == IF Cardinality(S) < T!MinSize(g.target) THEN <<>> ELSE <<child(S, d)>>
<1>1. g.rows \subseteq DOMAIN rows /\ g.rows = Group(g.conditions) /\ IsSeq(g.conditions)
      /\ DOMAIN g = {"target", "rows", "conditions", "depth"}
  BY DEF GroupFits, Group
<1>2. SplitCondition(c)
  BY <1>1, SplitConditions
<1>3. /\ part.left = {r \in g.rows : T!Meets(r, c)}
      /\ part.right = {r \in g.rows : T!Meets(r, T!Inverted(c))}
  BY <1>1, <1>2, PartsMeetConditions
<1>4. ASSUME NEW d, NEW S, S = {r \in g.rows : T!Meets(r, d)}
      PROVE  IsSeq(branch(S, d)) /\ \A b \in Range(branch(S, d)) : GroupFits(b)
  <2>1. /\ DOMAIN child(S, d) = DOMAIN g
        /\ child(S, d).rows = S
        /\ child(S, d).conditions = Append(g.conditions, d)
    BY <1>1
  <2>2. IsSeq(child(S, d).conditions) /\ Range(child(S, d).conditions) = Range(g.conditions) \cup {d}
    BY <1>1, <2>1, RangeOfParts
  <2> HIDE DEF child
  <2>3. S = Group(child(S, d).conditions)
    BY <1>1, <1>4, <2>2 DEF Group
  <2>4. GroupFits(child(S, d))
    BY <1>1, <2>1, <2>2, <2>3 DEF GroupFits
  <2>5. \A b \in Range(branch(S, d)) : b = child(S, d)
    BY RangeOfShort
  <2> QED
    BY <2>4, <2>5, RangeOfShort
<1>5. T!Branches(g, c) = branch(part.left, c) \o branch(part.right, T!Inverted(c))
  BY SameCardinalityInTree DEF T!Branches
<1> HIDE DEF branch, part
<1>7. /\ IsSeq(branch(part.left, c))
      /\ IsSeq(branch(part.right, T!Inverted(c)))
  BY <1>3, <1>4
<1>6. /\ IsSeq(T!Branches(g, c))
      /\ Range(T!Branches(g, c)) \subseteq Range(branch(part.left, c)) \cup Range(branch(part.right, T!Inverted(c)))
  BY <1>5, <1>7, RangeOfParts
<1> QED
  BY <1>3, <1>4, <1>6

(* A finding names the group it was compared with, and there are finitely  *)
(* many.                                                                   *)
LEMMA CandidatesFit ==
  ASSUME Splitting, NEW g, GroupFits(g)
  PROVE  IsFiniteSet(T!Candidates(g)) /\ \A f \in T!Candidates(g) : FindingFits(f)
<1>1. g.rows \in SUBSET DOMAIN rows /\ g.rows = Group(g.conditions) /\ IsFiniteSet(g.rows)
  <2>1. g.rows \in SUBSET DOMAIN rows /\ g.rows = Group(g.conditions)
    BY DEF GroupFits, Group
  <2> QED
    BY <2>1, RowsAreNumbered, FS_Subset
<1>2. T!GroupSize(g) = Cardinality({r \in g.rows : T!Numeric(g.target) => T!Finite(rows[r][g.target])})
  <2>1. T!GroupSize(g) = Cardinality(IF T!Numeric(g.target) THEN T!FiniteRows(g.target, g.rows) ELSE g.rows)
    BY SameCardinalityInTree DEF T!GroupSize
  <2>2. CASE T!Numeric(g.target)
    <3>1. T!FiniteRows(g.target, g.rows)
            = {r \in g.rows : T!Numeric(g.target) => T!Finite(rows[r][g.target])}
      BY <2>2 DEF T!FiniteRows
    <3> QED
      BY <2>1, <2>2, <3>1
  <2>3. CASE ~T!Numeric(g.target)
    <3>1. g.rows = {r \in g.rows : T!Numeric(g.target) => T!Finite(rows[r][g.target])}
      BY <2>3
    <3> QED
      BY <2>1, <2>3, <3>1
  <2> QED
    BY <2>2, <2>3
<1> DEFINE finding(r, rarity, range) ==
             [row |-> r, target |-> g.target, conditions |-> g.conditions, size |-> T!GroupSize(g),
              rarity |-> rarity, range |-> range]
           findings(R, rarity, range) == {finding(r, rarity[r], range) : r \in R}
<1>3. ASSUME NEW R \in SUBSET g.rows, NEW rarity, NEW range
      PROVE  /\ IsFiniteSet(findings(R, rarity, range))
             /\ \A f \in findings(R, rarity, range) : FindingFits(f)
  <2> DEFINE C == findings(R, rarity, range)
  <2> DEFINE fd == [r \in R |-> finding(r, rarity[r], range)]
  <2>1. fd \in Surjection(R, C)
    <3>1. fd \in [R -> C]
      OBVIOUS
    <3>2. \A f \in C : \E r \in R : fd[r] = f
      OBVIOUS
    <3> HIDE DEF fd
    <3> QED
      BY <3>1, <3>2 DEF Surjection
  <2>2. IsFiniteSet(C)
    <3>1. IsFiniteSet(R)
      BY <1>1, FS_Subset
    <3> HIDE DEF fd
    <3> QED
      BY <2>1, <3>1, FS_Surjection
  <2>3. ASSUME NEW f \in C
        PROVE  FindingFits(f)
    <3>1. f.row \in g.rows /\ f.target = g.target /\ f.conditions = g.conditions /\ f.size = T!GroupSize(g)
      OBVIOUS
    <3> QED
      BY <1>1, <1>2, <3>1 DEF FindingFits
  <2> QED
    BY <2>2, <2>3
<1>4. ASSUME NEW range
      PROVE  IsFiniteSet(T!FarFrom(range, g)) /\ \A f \in T!FarFrom(range, g) : FindingFits(f)
  <2> DEFINE rarity == [r \in g.rows |-> T!AbsZ(rows[r][g.target], range[1], range[2])]
             far == {r \in g.rows : rows[r][g.target] # NaN
                                    /\ T!AtLeast(T!AbsZ(rows[r][g.target], range[1], range[2]), call.zOutlier)}
             R == {q \in far : T!Cardinality({p \in far : rows[p][g.target] = rows[q][g.target]})
                                 <= T!MaxOutliers(T!GroupSize(g))}
  <2>1. T!FarFrom(range, g)
          = {finding(r, T!AbsZ(rows[r][g.target], range[1], range[2]), range) : r \in R}
    BY DEF T!FarFrom
  <2>2. \A r \in R : rarity[r] = T!AbsZ(rows[r][g.target], range[1], range[2])
    OBVIOUS
  <2>3. R \in SUBSET g.rows
    OBVIOUS
  <2> HIDE DEF R, rarity
  <2>4. T!FarFrom(range, g) = findings(R, rarity, range)
    BY <2>1, <2>2
  <2> HIDE DEF findings
  <2> QED
    BY <1>3, <2>3, <2>4
<1>5. CASE T!Candidates(g) = {}
  BY <1>5, FS_EmptySet
<1>6. CASE T!Candidates(g) = T!NumericCandidates(g)
  <2>1. T!NumericCandidates(g)
          = UNION {T!FarFrom(range, g) : range \in {<<T!Median(g.target, g.rows), T!Spread(g.target, g.rows)>>}}
    BY DEF T!NumericCandidates
  <2>2. PICK range : T!NumericCandidates(g) = T!FarFrom(range, g)
    BY <2>1
  <2> QED
    BY <1>4, <1>6, <2>2
<1>7. CASE T!Candidates(g) = T!CategoricalCandidates(g)
  <2> DEFINE n == T!GroupSize(g)
             alike(r) == T!Cardinality({q \in g.rows : rows[q][g.target] = rows[r][g.target]})
             rare(r) == n * call.zOutlier[2] * call.zOutlier[2] > alike(r) * call.zOutlier[1] * call.zOutlier[1]
             rarity == [r \in g.rows |-> <<n, alike(r)>>]
             R == {q \in g.rows : rare(q)}
  <2>1. T!CategoricalCandidates(g)
          = {finding(r, <<n, alike(r)>>, <<>>) : r \in R}
    BY DEF T!CategoricalCandidates
  <2>2. \A r \in R : rarity[r] = <<n, alike(r)>>
    OBVIOUS
  <2>3. R \in SUBSET g.rows
    OBVIOUS
  <2> HIDE DEF R, rarity, alike
  <2>4. T!CategoricalCandidates(g) = findings(R, rarity, <<>>)
    BY <2>1, <2>2
  <2> HIDE DEF findings
  <2> QED
    BY <1>3, <1>7, <2>3, <2>4
<1> QED
  BY <1>5, <1>6, <1>7 DEF T!Candidates

(* The sort loses no candidate and makes none up.                          *)
LEMMA OrdersAreOfCandidates ==
  ASSUME NEW g, NEW C, IsFiniteSet(C), NEW o \in T!FlagOrders(g, C)
  PROVE  Len(o) \in Nat /\ \A k \in 1..Len(o) : o[k] \in C
<1>1. o \in T!MostExtremeFirst(C)
  BY DEF T!FlagOrders
<1>2. o \in [1..T!Cardinality(C) -> C]
  BY <1>1 DEF T!MostExtremeFirst
<1>3. o \in [1..Cardinality(C) -> C] /\ Cardinality(C) \in Nat
  BY <1>2, SameCardinalityInTree, FS_CardinalityType
<1>4. Len(o) = Cardinality(C)
  BY <1>3
<1> QED
  BY <1>3, <1>4

FoundFit(found) ==
  /\ DOMAIN found = {"outliers", "slots", "count"}
  /\ IsSeq(found.outliers)
  /\ \A f \in Range(found.outliers) : FindingFits(f)

(* A finding is added, or replaces another one in its slot.                *)
LEMMA AddOrReplaceFits ==
  ASSUME NEW found, FoundFit(found), NEW f, FindingFits(f)
  PROVE  FoundFit(T!AddOrReplace(found, f))
<1> DEFINE key == <<f.row, f.target>>
           k == found.slots[key]
           slotted == [j \in DOMAIN found.slots \cup {key} |->
                         IF j = key THEN Len(found.outliers) + 1 ELSE found.slots[j]]
           added == [outliers |-> Append(found.outliers, f), count |-> found.count + 1, slots |-> slotted]
           replaced == [found EXCEPT !.outliers[k] = f, !.count = @ + 1]
<1>1. T!AddOrReplace(found, f) \in {added, found, replaced}
  BY DEF T!AddOrReplace
<1>2. IsSeq(found.outliers) /\ \A h \in Range(found.outliers) : FindingFits(h)
  BY DEF FoundFit
<1>3. FoundFit(added)
  <2>1. added.outliers = Append(found.outliers, f) /\ DOMAIN added = {"outliers", "slots", "count"}
    OBVIOUS
  <2> HIDE DEF added
  <2> QED
    BY <1>2, <2>1, RangeOfParts DEF FoundFit
<1>4. FoundFit(replaced)
  <2>1. replaced.outliers = [found.outliers EXCEPT ![k] = f] /\ DOMAIN replaced = {"outliers", "slots", "count"}
    BY DEF FoundFit
  <2> HIDE DEF replaced, k
  <2> DEFINE old == found.outliers
             new == [old EXCEPT ![k] = f]
  <2>3. replaced.outliers = new /\ IsSeq(old)
    BY <1>2, <2>1
  <2> HIDE DEF old
  <2>4. IsSeq(new) /\ Range(new) \subseteq Range(old) \cup {f}
    BY <2>3, RangeOfExcept
  <2> HIDE DEF new
  <2>2. /\ IsSeq(replaced.outliers)
        /\ Range(replaced.outliers) \subseteq Range(found.outliers) \cup {f}
    BY <2>3, <2>4 DEF old
  <2> QED
    BY <1>2, <2>1, <2>2 DEF FoundFit
<1> QED
  BY <1>1, <1>3, <1>4

(* What FlagUpTo leaves are findings that were there, and candidates.      *)
LEMMA FlagsFit ==
  ASSUME NEW most, NEW o, Len(o) \in Nat, \A k \in 1..Len(o) : FindingFits(o[k]),
         IsSeq(outliers), \A f \in Range(outliers) : FindingFits(f)
  PROVE  FoundFit(T!FlagUpTo(most, o))
<1> DEFINE start == [outliers |-> outliers, slots |-> slots, count |-> 0]
           next(found, k) == IF found.count >= most THEN found ELSE T!AddOrReplace(found, o[k])
           Runs(g, n) == g = [k \in 0..n |-> IF k = 0 THEN start
                                             ELSE IF g[k - 1].count >= most THEN g[k - 1]
                                             ELSE T!AddOrReplace(g[k - 1], o[k])]
           found == CHOOSE g : Runs(g, Len(o))
<1>1. FoundFit(start)
  BY DEF FoundFit
<1>2. T!FlagUpTo(most, o) = found[Len(o)]
  BY DEF T!FlagUpTo
<1> HIDE DEF start
<1>3. ASSUME NEW g, NEW n \in Nat, Runs(g, n)
      PROVE  g[0] = start /\ \A k \in 1..n : g[k] = next(g[k - 1], k)
  <2>1. \A k \in 0..n : g[k] = IF k = 0 THEN start
                               ELSE IF g[k - 1].count >= most THEN g[k - 1]
                               ELSE T!AddOrReplace(g[k - 1], o[k])
    BY <1>3
  <2> HIDE DEF Runs
  <2>2. 0 \in 0..n
    OBVIOUS
  <2>3. g[0] = start
    BY <2>1, <2>2
  <2>4. ASSUME NEW k \in 1..n
        PROVE  g[k] = next(g[k - 1], k)
    <3>1. k \in 0..n /\ k # 0
      OBVIOUS
    <3> QED
      BY <2>1, <3>1
  <2> QED
    BY <2>3, <2>4
<1>4. ASSUME NEW n \in Nat
      PROVE  \E g : Runs(g, n)
  <2> DEFINE N == {m \in Nat : ~\E g : Runs(g, m)}
  <2>1. SUFFICES ASSUME N # {} PROVE FALSE
    BY <2>1
  <2>2. PICK m \in N : \A k \in N : m <= k
    BY <2>1, LeastNatural
  <2>3. m # 0
    <3>1. Runs([k \in 0..0 |-> start], 0)
      OBVIOUS
    <3> HIDE DEF Runs
    <3> QED
      BY <3>1
  <2>4. m - 1 \in Nat /\ m - 1 \notin N
    <3> HIDE DEF Runs
    <3>1. m \in Nat
      OBVIOUS
    <3>2. \A k \in N : k \in Nat
      OBVIOUS
    <3> HIDE DEF N
    <3> QED
      BY <2>2, <2>3, <3>1, <3>2
  <2>5. PICK h : Runs(h, m - 1)
    BY <2>4
  <2> DEFINE g == [k \in 0..m |-> IF k < m THEN h[k] ELSE next(h[m - 1], m)]
  <2>6. h[0] = start /\ \A k \in 1..m - 1 : h[k] = next(h[k - 1], k)
    BY <1>3, <2>4, <2>5
  <2> HIDE DEF next
  <2>7. \A k \in 0..m : g[k] = IF k < m THEN h[k] ELSE next(h[m - 1], m)
    OBVIOUS
  <2>8. g[0] = start
    BY <2>3, <2>4, <2>6, <2>7
  <2>9. \A k \in 1..m : g[k] = next(g[k - 1], k)
    <3>1. ASSUME NEW k \in 1..m
          PROVE  g[k] = next(g[k - 1], k)
      <4>1. g[k - 1] = h[k - 1]
        BY <2>4, <2>7
      <4>2. CASE k = m
        BY <2>7, <4>1, <4>2
      <4>3. CASE k # m
        <5>1. k \in 1..m - 1 /\ k < m /\ k \in 0..m
          BY <2>4, <4>3
        <5> QED
          BY <2>6, <2>7, <4>1, <5>1
      <4> QED
        BY <4>2, <4>3
    <3> QED
      BY <3>1
  <2>10. g = [k \in 0..m |-> g[k]]
    OBVIOUS
  <2> HIDE DEF g
  <2>11. \A k \in 0..m : g[k] = IF k = 0 THEN start ELSE next(g[k - 1], k)
    BY <2>8, <2>9
  <2>12. Runs(g, m)
    BY <2>10, <2>11 DEF next
  <2> QED
    BY <2>2, <2>12
<1>5. Runs(found, Len(o))
  <2> HIDE DEF Runs
  <2> QED
    BY <1>4
<1>6. found[0] = start /\ \A k \in 1..Len(o) : found[k] = next(found[k - 1], k)
  BY <1>3, <1>5
<1> HIDE DEF found
<1>7. \A k \in 0..Len(o) : FoundFit(found[k])
  <2> DEFINE N == {k \in 0..Len(o) : ~FoundFit(found[k])}
  <2>1. SUFFICES ASSUME N # {} PROVE FALSE
    OBVIOUS
  <2>2. PICK m \in N : \A k \in N : m <= k
    <3>1. N \in SUBSET Nat
      OBVIOUS
    <3> QED
      BY <2>1, <3>1, LeastNatural
  <2>3. m # 0
    BY <1>1, <1>6, <2>2
  <2>4. m \in 1..Len(o) /\ m - 1 \in 0..Len(o) /\ m - 1 \notin N
    BY <2>2, <2>3
  <2>5. FoundFit(found[m - 1]) /\ FindingFits(o[m])
    BY <2>4
  <2>6. FoundFit(next(found[m - 1], m))
    BY <2>5, AddOrReplaceFits
  <2> QED
    BY <1>6, <2>2, <2>4, <2>6
<1> QED
  BY <1>2, <1>7

TreeFits ==
  /\ IsSeq(groups) /\ \A g \in Range(groups) : GroupFits(g)
  /\ IsSeq(outliers) /\ \A f \in Range(outliers) : FindingFits(f)

(* What is said of groups and findings is said of rows and arguments only, *)
(* which no step of the tree changes.                                      *)
LEMMA FitsAreStable ==
  ASSUME UNCHANGED <<rows, call>>
  PROVE  /\ \A g : GroupFits(g)' <=> GroupFits(g)
         /\ \A f : FindingFits(f)' <=> FindingFits(f)
<1>1. \A conditions : Group(conditions)' = Group(conditions)
  BY DEF Group, T!Meets, T!Finite
<1>2. \A g : GroupFits(g)' <=> GroupFits(g)
  BY <1>1 DEF GroupFits, IsSeq
<1>3. ASSUME NEW f
      PROVE  FindingFits(f)' <=> FindingFits(f)
  <2>1. Group(f.conditions)' = Group(f.conditions)
    BY <1>1
  <2>2. {r \in Group(f.conditions)' : T!Numeric(f.target)' => T!Finite(rows[r][f.target])'}
          = {r \in Group(f.conditions) : T!Numeric(f.target) => T!Finite(rows[r][f.target])}
    BY <2>1 DEF T!Numeric, T!Finite
  <2> QED
    BY <2>1, <2>2 DEF FindingFits
<1> QED
  BY <1>2, <1>3

(* A step that leaves the groups and the findings alone.                   *)
LEMMA TreeStutters ==
  ASSUME TreeFits, UNCHANGED <<rows, call, groups, outliers>>
  PROVE  TreeFits'
<1>1. /\ \A g : GroupFits(g)' <=> GroupFits(g)
      /\ \A f : FindingFits(f)' <=> FindingFits(f)
  BY FitsAreStable
<1> QED
  BY <1>1 DEF TreeFits, IsSeq

(* The first groups are all rows, for one column after the other.          *)
LEMMA StartFits ==
  ASSUME T!TreeIdle, T!StartOutlierTree, UNCHANGED <<rows, call>>,
         NEW n \in Nat, T!Columns = 1..n
  PROVE  TreeFits'
<1> DEFINE all == [t \in T!Columns |-> [target |-> t, rows |-> DOMAIN rows, conditions |-> <<>>, depth |-> 0]]
<1>1. outliers' = <<>> /\ groups' \in {<<>>, all}
  BY DEF T!TreeIdle, T!StartOutlierTree
<1>2. /\ \A g : GroupFits(g)' <=> GroupFits(g)
      /\ \A f : FindingFits(f)' <=> FindingFits(f)
  BY FitsAreStable
<1>3. IsSeq(all) /\ \A g \in Range(all) : GroupFits(g)
  <2>1. IsSeq(all)
    <3>1. \A t \in 1..n : all[t] \in Range(all)
      BY DEF Range
    <3>2. all = [t \in 1..n |-> all[t]]
      OBVIOUS
    <3> HIDE DEF all
    <3>3. [t \in 1..n |-> all[t]] \in Seq(Range(all))
      BY <3>1
    <3> QED
      BY <3>2, <3>3 DEF IsSeq
  <2>2. ASSUME NEW t \in 1..n
        PROVE  GroupFits(all[t])
    <3>1. /\ DOMAIN all[t] = {"target", "rows", "conditions", "depth"}
          /\ all[t].conditions = <<>> /\ all[t].rows = DOMAIN rows
      OBVIOUS
    <3> HIDE DEF all
    <3>2. Group(<<>>) = DOMAIN rows
      BY RangeOfShort DEF Group
    <3> QED
      BY <3>1, <3>2, RangeOfShort DEF GroupFits
  <2>3. \A g \in Range(all) : \E t \in 1..n : g = all[t]
    BY DEF Range
  <2> QED
    BY <2>1, <2>2, <2>3
<1> HIDE DEF all
<1>4. /\ IsSeq(groups') /\ \A g \in Range(groups') : GroupFits(g)
      /\ IsSeq(outliers') /\ \A f \in Range(outliers') : FindingFits(f)
  BY <1>1, <1>3, RangeOfShort
<1> QED
  BY <1>2, <1>4 DEF TreeFits, IsSeq

(* One group evaluated: its candidates are findings of it, its branches    *)
(* fit.                                                                    *)
LEMMA EvaluateFits ==
  ASSUME Splitting, TreeFits, T!EvaluateGroup, UNCHANGED <<rows, call>>
  PROVE  TreeFits'
<1> DEFINE g == Head(groups)
<1>1. /\ groups # <<>> /\ IsSeq(groups) /\ IsSeq(outliers)
      /\ \A f \in Range(outliers) : FindingFits(f)
      /\ \A h \in Range(groups) : GroupFits(h)
  BY DEF T!EvaluateGroup, TreeFits
<1>2. GroupFits(g) /\ IsSeq(Tail(groups)) /\ \A h \in Range(Tail(groups)) : GroupFits(h)
  BY <1>1, RangeOfParts
<1>3. /\ groups' = Tail(groups) \/ \E c \in T!Splits(g) : groups' = T!Branches(g, c) \o Tail(groups)
      /\ \/ outliers' = outliers
         \/ \E order \in T!FlagOrders(g, T!Candidates(g)) :
              outliers' = T!FlagUpTo(T!MaxOutliers(T!GroupSize(g)), order).outliers
  BY DEF T!EvaluateGroup
<1>4. \A h : (GroupFits(h)' <=> GroupFits(h)) /\ (FindingFits(h)' <=> FindingFits(h))
  BY FitsAreStable
<1> HIDE DEF g
<1>5. IsSeq(groups') /\ \A h \in Range(groups') : GroupFits(h)
  <2>1. CASE groups' = Tail(groups)
    BY <1>2, <2>1
  <2>2. ASSUME NEW c \in T!Splits(g), groups' = T!Branches(g, c) \o Tail(groups)
        PROVE  IsSeq(groups') /\ \A h \in Range(groups') : GroupFits(h)
    <3>1. IsSeq(T!Branches(g, c)) /\ \A b \in Range(T!Branches(g, c)) : GroupFits(b)
      BY <1>2, BranchesFit
    <3>2. IsSeq(groups') /\ Range(groups') \subseteq Range(T!Branches(g, c)) \cup Range(Tail(groups))
      BY <1>2, <2>2, <3>1, RangeOfParts
    <3> QED
      BY <1>2, <3>1, <3>2
  <2> QED
    BY <1>3, <2>1, <2>2
<1>6. IsSeq(outliers') /\ \A f \in Range(outliers') : FindingFits(f)
  <2>1. CASE outliers' = outliers
    BY <1>1, <2>1
  <2>2. ASSUME NEW order \in T!FlagOrders(g, T!Candidates(g)),
               outliers' = T!FlagUpTo(T!MaxOutliers(T!GroupSize(g)), order).outliers
        PROVE  IsSeq(outliers') /\ \A f \in Range(outliers') : FindingFits(f)
    <3>1. IsFiniteSet(T!Candidates(g)) /\ \A f \in T!Candidates(g) : FindingFits(f)
      BY <1>2, CandidatesFit
    <3>2. Len(order) \in Nat /\ \A k \in 1..Len(order) : order[k] \in T!Candidates(g)
      BY <3>1, OrdersAreOfCandidates
    <3>3. FoundFit(T!FlagUpTo(T!MaxOutliers(T!GroupSize(g)), order))
      BY <1>1, <3>1, <3>2, FlagsFit
    <3> QED
      BY <2>2, <3>3 DEF FoundFit
  <2> QED
    BY <1>3, <2>1, <2>2
<1> QED
  BY <1>4, <1>5, <1>6 DEF TreeFits, IsSeq
-----------------------------------------------------------------------------
(* The call around FitPredict.                                             *)
TreeInv ==
  given.fn = "tree" =>
    /\ call.types = given.types
    /\ rows \in Seq([1..Len(given.types) -> Int \cup {NaN, Inf, NegInf}])
    /\ stage \in {"bind", "scan"} => T!TreeIdle
    /\ TreeFits

(* The types that the arguments of a call of outlier_tree have.            *)
LEMMA TreeTypes ==
  ASSUME CallInv, given.fn = "tree"
  PROVE  /\ "types" \in DOMAIN given
         /\ given.types \in Seq(STRING)
         /\ table \in Seq([1..Len(given.types) -> Int \cup {NaN, Inf, NegInf, Null}])
<1>1. PICK c \in Cases : given = c[1] /\ table = c[2]
  BY DEF CallInv
<1>2. c[1].fn = "tree" =>
        /\ {"types", "maxDepth", "share", "minNumeric", "minCateg", "zNorm", "zOutlier"} \subseteq DOMAIN c[1]
        /\ c[1].types \in Seq(STRING)
        /\ c[2] \in Seq([1 .. Len(c[1].types) -> Int \cup {NaN, Inf, NegInf, Null}])
  BY CasesAssumption
<1> QED
  BY <1>1, <1>2

(* In such a call the rows kept have numbers, NaN and infinities only.     *)
LEMMA CallIsSplitting ==
  ASSUME CallInv, TreeInv, given.fn = "tree"
  PROVE  Splitting /\ T!Columns = 1..Len(given.types) /\ Len(given.types) \in Nat
<1>1. T!Columns = 1..Len(given.types) /\ Len(given.types) \in Nat
  BY TreeTypes DEF TreeInv, T!Columns
<1> QED
  BY <1>1 DEF TreeInv, Splitting

(* Before the fit there is no group and no finding.                        *)
LEMMA IdleFits ==
  ASSUME T!TreeIdle
  PROVE  TreeFits
<1>1. groups = <<>> /\ outliers = <<>>
  BY DEF T!TreeIdle
<1> QED
  BY <1>1, RangeOfShort DEF TreeFits

(* Nor is there after a step that leaves the tree alone.                   *)
LEMMA IdleStaysFit ==
  ASSUME T!TreeIdle, UNCHANGED treeVars
  PROVE  T!TreeIdle' /\ TreeFits'
<1>1. T!TreeIdle' /\ groups' = <<>> /\ outliers' = <<>>
  BY DEF T!TreeIdle, treeVars
<1> QED
  BY <1>1, RangeOfShort DEF TreeFits, IsSeq

(* No call has begun.                                                      *)
LEMMA InitTree ==
  Init => TreeInv
<1>1. SUFFICES ASSUME Init
               PROVE  TreeInv
  OBVIOUS
<1>2. <<>> \in Seq([1..Len(given.types) -> Int \cup {NaN, Inf, NegInf}])
  OBVIOUS
<1>3. T!TreeIdle /\ rows = <<>> /\ call = given
  BY <1>1 DEF Init
<1> QED
  BY <1>2, <1>3, IdleFits DEF TreeInv

(* Binding leaves the types of the columns as they are.                    *)
LEMMA BindKeepsTree ==
  ASSUME CallInv, TreeInv, Bind
  PROVE  TreeInv'
<1>1. /\ given' = given /\ rows' = rows /\ call' = OptionalInputs(given)
      /\ stage = "bind" /\ UNCHANGED treeVars
  BY DEF Bind, work
<1>2. SUFFICES ASSUME given.fn = "tree"
               PROVE  TreeInv'
  BY <1>1 DEF TreeInv
<1>3. call'.types = given.types
  BY <1>1, <1>2, TreeTypes DEF OptionalInputs
<1>4. T!TreeIdle' /\ TreeFits'
  BY <1>1, <1>2, IdleStaysFit DEF TreeInv
<1> QED
  BY <1>1, <1>2, <1>3, <1>4 DEF TreeInv

(* A row that is kept has no NULL.                                         *)
LEMMA ScanKeepsTree ==
  ASSUME CallInv, TreeInv, ScanRow
  PROVE  TreeInv'
<1>1. /\ given' = given /\ call' = call /\ scanned < Len(table) /\ scanned \in Nat
      /\ stage = "scan" /\ stage' = "scan" /\ UNCHANGED treeVars
      /\ IF Skipped(table[scanned + 1]) THEN rows' = rows ELSE rows' = Append(rows, table[scanned + 1])
  BY DEF ScanRow, work, CallInv
<1>2. SUFFICES ASSUME given.fn = "tree"
               PROVE  TreeInv'
  BY <1>1 DEF TreeInv
<1> DEFINE w == Len(given.types)
           row == table[scanned + 1]
<1>3. row \in [1..w -> Int \cup {NaN, Inf, NegInf, Null}]
  <2>1. table \in Seq([1..w -> Int \cup {NaN, Inf, NegInf, Null}])
    BY <1>2, TreeTypes
  <2> HIDE DEF w
  <2>2. scanned + 1 \in 1..Len(table)
    BY <1>1, <2>1
  <2> QED
    BY <2>1, <2>2
<1>4. ~Skipped(row) => row \in [1..w -> Int \cup {NaN, Inf, NegInf}]
  <2>1. ~Skipped(row) => \A i \in DOMAIN row : row[i] # Null
    BY DEF Skipped
  <2> HIDE DEF row, w
  <2> QED
    BY <1>3, <2>1
<1>5. rows' \in Seq([1..w -> Int \cup {NaN, Inf, NegInf}])
  <2>1. rows \in Seq([1..w -> Int \cup {NaN, Inf, NegInf}])
    BY <1>2 DEF TreeInv
  <2> HIDE DEF w
  <2> QED
    BY <1>1, <1>4, <2>1
<1>6. T!TreeIdle' /\ TreeFits'
  BY <1>1, <1>2, IdleStaysFit DEF TreeInv
<1>7. call'.types = given'.types
  BY <1>1, <1>2 DEF TreeInv
<1> QED
  BY <1>1, <1>5, <1>6, <1>7 DEF TreeInv

(* The start of the fit, of the function that was called.                  *)
LEMMA FitKeepsTree ==
  ASSUME CallInv, TreeInv, Fit
  PROVE  TreeInv'
<1>1. /\ given' = given /\ call' = call /\ rows' = rows /\ stage = "scan" /\ stage' = "run"
      /\ call.fn = "tree" => T!StartOutlierTree
  BY DEF Fit, shared
<1>2. SUFFICES ASSUME given.fn = "tree"
               PROVE  TreeInv'
  BY <1>1 DEF TreeInv
<1>3. T!TreeIdle /\ T!StartOutlierTree
  BY <1>1, <1>2 DEF TreeInv, CallInv
<1>4. TreeFits'
  BY <1>1, <1>2, <1>3, CallIsSplitting, StartFits
<1> QED
  BY <1>1, <1>2, <1>4 DEF TreeInv

(* The evaluation of a group, and the end.                                 *)
LEMMA RunKeepsTree ==
  ASSUME CallInv, TreeInv, RunOutlierTree
  PROVE  TreeInv'
<1>1. /\ given' = given /\ call' = call /\ rows' = rows /\ stage = "run" /\ call.fn = "tree"
      /\ T!OutlierTreeStep
  BY DEF RunOutlierTree, shared
<1>2. given.fn = "tree" /\ TreeFits /\ Splitting
  BY <1>1, CallIsSplitting DEF CallInv, TreeInv
<1>3. TreeFits' /\ stage' \in {"run", "done"}
  <2>1. CASE T!EvaluateGroup
    BY <1>1, <1>2, <2>1, EvaluateFits DEF T!EvaluateGroup
  <2>2. CASE T!FinishOutlierTree
    <3>1. UNCHANGED <<groups, outliers>> /\ stage' = "done"
      BY <2>2 DEF T!FinishOutlierTree, T!treeVars
    <3> QED
      BY <1>1, <1>2, <3>1, TreeStutters
  <2> QED
    BY <1>1, <2>1, <2>2 DEF T!OutlierTreeStep
<1> QED
  BY <1>1, <1>2, <1>3 DEF TreeInv

(* The steps of the other functions, errors and interrupts touch no tree.  *)
LEMMA OtherStepsKeepTree ==
  ASSUME CallInv, TreeInv, RaiseInScan \/ RunDbscan \/ RunForest \/ Interrupt \/ UNCHANGED vars
  PROVE  TreeInv'
<1>1. /\ given' = given /\ call' = call /\ rows' = rows
      /\ \/ call.fn # "tree"
         \/ UNCHANGED treeVars /\ (stage' = stage \/ stage' = "raised")
  BY DEF RaiseInScan, RunDbscan, RunForest, Interrupt, vars, shared, work
<1>2. SUFFICES ASSUME given.fn = "tree"
               PROVE  TreeInv'
  BY <1>1 DEF TreeInv
<1>3. UNCHANGED treeVars /\ (stage' = stage \/ stage' = "raised")
  BY <1>1, <1>2 DEF CallInv
<1>4. TreeFits'
  BY <1>1, <1>2, <1>3, TreeStutters DEF TreeInv, treeVars
<1>5. T!TreeIdle => T!TreeIdle'
  BY <1>3 DEF T!TreeIdle, treeVars
<1> QED
  BY <1>1, <1>2, <1>3, <1>4, <1>5 DEF TreeInv

(* In every call of outlier_tree, waiting groups and findings fit at every *)
(* step of FitPredict.                                                     *)
THEOREM TreeInvariant ==
  Spec => [](CallInv /\ TreeInv)
<1>1. CallInv /\ TreeInv /\ [Next]_vars => TreeInv'
  <2>1. SUFFICES ASSUME CallInv, TreeInv, [Next]_vars
                 PROVE  TreeInv'
    OBVIOUS
  <2> QED
    BY <2>1, BindKeepsTree, ScanKeepsTree, FitKeepsTree, RunKeepsTree, OtherStepsKeepTree
       DEF Next, CallStep
<1> QED
  BY <1>1, InitTree, CallInvariant, PTL DEF Spec

(* Whatever the table, the splits that are chosen and the order of ties.   *)
THEOREM ConditionsAreTheGroup ==
  Spec => []ConditionsDescribeTheGroup
<1>1. CallInv /\ TreeInv => ConditionsDescribeTheGroup
  <2>1. SUFFICES ASSUME CallInv, TreeInv, call.fn = "tree", NEW k \in DOMAIN outliers
                 PROVE  LET f     == outliers[k]
                            group == {r \in DOMAIN rows : \A c \in Range(f.conditions) : T!Meets(r, c)}
                            size  == Cardinality({r \in group : T!Numeric(f.target) => T!Finite(rows[r][f.target])})
                        IN  f.row \in group /\ f.size = size
    BY DEF ConditionsDescribeTheGroup
  <2>2. FindingFits(outliers[k])
    <3>1. outliers[k] \in Range(outliers)
      BY DEF Range
    <3> QED
      BY <2>1, <3>1 DEF CallInv, TreeInv, TreeFits
  <2> QED
    BY <2>2 DEF FindingFits, Group
<1> QED
  BY <1>1, TreeInvariant, PTL

(* The scan: the rows kept are those of the table that their numbers name. *)
KeptRows == {r \in DOMAIN table : ~Skipped(table[r])}

RowsInv ==
  /\ scanned \in 0..Len(table)
  /\ ids \in Seq(Nat)
  /\ rows = [i \in DOMAIN ids |-> table[ids[i]]]
  /\ \A i, j \in DOMAIN ids : i < j => ids[i] < ids[j]
  /\ Range(ids) = KeptRows \cap 1..scanned
  /\ stage = "bind" => scanned = 0
  /\ stage \in {"run", "done"} => scanned = Len(table)

(* The table is a sequence of rows.                                        *)
LEMMA TableIsSeq ==
  ASSUME CallInv
  PROVE  IsSeq(table) /\ Len(table) \in Nat /\ DOMAIN table = 1..Len(table)
<1>1. IsSeq(table)
  BY CasesAssumption DEF CallInv, IsSeq
<1> QED
  BY <1>1 DEF IsSeq

(* No row has been scanned.                                                *)
LEMMA InitRows ==
  Init => RowsInv
<1>1. SUFFICES ASSUME Init
               PROVE  RowsInv
  OBVIOUS
<1>2. scanned = 0 /\ rows = <<>> /\ ids = <<>> /\ stage = "bind" /\ CallInv
  BY <1>1, InitCall DEF Init
<1>3. 0 \in 0..Len(table) /\ KeptRows \cap 1..0 = {}
  BY <1>2, TableIsSeq
<1>4. <<>> \in Seq(Nat) /\ DOMAIN <<>> = {} /\ <<>> = [i \in DOMAIN <<>> |-> table[<<>>[i]]]
  OBVIOUS
<1> QED
  BY <1>2, <1>3, <1>4, RangeOfShort DEF RowsInv

(* The next row is kept with its number, or skipped.                       *)
LEMMA ScanKeepsRows ==
  ASSUME CallInv, RowsInv, ScanRow
  PROVE  RowsInv'
<1> DEFINE row == table[scanned + 1]
<1>1. /\ scanned' = scanned + 1 /\ table' = table /\ call' = call
      /\ stage = "scan" /\ stage' = "scan" /\ scanned < Len(table)
      /\ \/ Skipped(row) /\ rows' = rows /\ ids' = ids
         \/ ~Skipped(row) /\ rows' = Append(rows, row) /\ ids' = Append(ids, scanned + 1)
  BY DEF ScanRow
<1>2. KeptRows' = KeptRows
  BY <1>1 DEF KeptRows, Skipped, F!NumericFeatures, F!Features
<1>3. /\ scanned \in Nat /\ scanned + 1 \in 0..Len(table)
      /\ ids \in Seq(Nat) /\ rows = [i \in DOMAIN ids |-> table[ids[i]]]
      /\ \A i, j \in DOMAIN ids : i < j => ids[i] < ids[j]
      /\ Range(ids) = KeptRows \cap 1..scanned
  BY <1>1, TableIsSeq DEF RowsInv
<1>4. 1..(scanned + 1) = 1..scanned \cup {scanned + 1} /\ scanned + 1 \in DOMAIN table
  BY <1>1, <1>3, TableIsSeq
<1>8. scanned + 1 \in KeptRows <=> ~Skipped(row)
  BY <1>4 DEF KeptRows
<1>5. KeptRows \cap 1..(scanned + 1)
        = (KeptRows \cap 1..scanned) \cup (IF Skipped(row) THEN {} ELSE {scanned + 1})
  BY <1>4, <1>8
<1>6. CASE Skipped(row)
  <2>1. ids' = ids /\ rows' = rows
    BY <1>1, <1>6
  <2>2. Range(ids') = KeptRows \cap 1..(scanned + 1)
    BY <1>3, <1>5, <1>6, <2>1
  <2> QED
    BY <1>1, <1>2, <1>3, <2>1, <2>2 DEF RowsInv
<1>7. CASE ~Skipped(row)
  <2> DEFINE n == Len(ids)
  <2>1. ids' = Append(ids, scanned + 1) /\ rows' = Append(rows, row)
    BY <1>1, <1>7
  <2>2. /\ n \in Nat /\ DOMAIN ids = 1..n /\ DOMAIN ids' = 1..n + 1 /\ ids' \in Seq(Nat)
        /\ ids'[n + 1] = scanned + 1 /\ \A i \in 1..n : ids'[i] = ids[i]
    BY <1>3, <2>1
  <2>3. Range(ids') = Range(ids) \cup {scanned + 1}
    <3>1. IsSeq(ids)
      BY <1>3, SeqOfItsRange
    <3> QED
      BY <2>1, <3>1, RangeOfParts
  <2>4. Range(ids') = KeptRows \cap 1..(scanned + 1)
    BY <1>3, <1>5, <1>7, <2>3
  <2>5. \A i \in 1..n : ids[i] \in 1..scanned
    <3>1. \A i \in 1..n : ids[i] \in Range(ids)
      BY <2>2 DEF Range
    <3> QED
      BY <1>3, <3>1
  <2>6. \A i, j \in DOMAIN ids' : i < j => ids'[i] < ids'[j]
    <3>1. ASSUME NEW i \in 1..n + 1, NEW j \in 1..n + 1, i < j
          PROVE  ids'[i] < ids'[j]
      <4>1. i \in 1..n
        BY <2>2, <3>1
      <4>2. CASE j = n + 1
        <5>1. ids[i] \in 1..scanned /\ ids'[i] = ids[i] /\ ids'[j] = scanned + 1
          BY <2>2, <2>5, <4>1, <4>2
        <5> QED
          BY <1>3, <5>1
      <4>3. CASE j # n + 1
        <5>1. j \in 1..n
          BY <2>2, <4>3
        <5> QED
          BY <1>3, <2>2, <3>1, <4>1, <5>1
      <4> QED
        BY <4>2, <4>3
    <3> QED
      BY <2>2, <3>1
  <2>7. rows' = [i \in DOMAIN ids' |-> table'[ids'[i]]]
    <3> DEFINE kept == [i \in 1..n |-> table[ids[i]]]
    <3>1. rows = kept /\ Len(kept) = n /\ kept \in Seq(Range(kept))
      <4>1. rows = kept
        BY <1>3, <2>2
      <4>2. \A i \in 1..n : kept[i] \in Range(kept)
        BY DEF Range
      <4>3. kept = [i \in 1..n |-> kept[i]] /\ DOMAIN kept = 1..n
        OBVIOUS
      <4> HIDE DEF kept
      <4>4. [i \in 1..n |-> kept[i]] \in Seq(Range(kept))
        BY <2>2, <4>2
      <4> QED
        BY <2>2, <4>1, <4>3, <4>4
    <3>2. \A i \in 1..n : kept[i] = table[ids[i]]
      OBVIOUS
    <3> HIDE DEF kept, row
    <3>3. /\ DOMAIN Append(kept, row) = 1..n + 1 /\ Append(kept, row)[n + 1] = row
          /\ \A i \in 1..n : Append(kept, row)[i] = kept[i]
          /\ Append(kept, row) = [i \in 1..n + 1 |-> Append(kept, row)[i]]
      <4> DEFINE S == Range(kept) \cup {row}
      <4>1. kept \in Seq(S) /\ row \in S
        <5>1. Range(kept) \subseteq S
          OBVIOUS
        <5> QED
          BY <3>1, <5>1, SeqMonotonic
      <4> HIDE DEF S
      <4>2. Append(kept, row) \in Seq(S) /\ Len(Append(kept, row)) = n + 1
        BY <3>1, <4>1, AppendProperties
      <4>3. /\ \A i \in 1..n : Append(kept, row)[i] = kept[i]
            /\ Append(kept, row)[n + 1] = row
        BY <2>2, <3>1, <4>1, AppendProperties
      <4>4. Append(kept, row) \in [1..n + 1 -> S]
        BY <4>2, LenProperties
      <4> QED
        BY <4>3, <4>4
    <3>4. \A i \in 1..n + 1 : Append(kept, row)[i] = table'[ids'[i]]
      <4>1. ASSUME NEW i \in 1..n + 1
            PROVE  Append(kept, row)[i] = table'[ids'[i]]
        <5>1. CASE i = n + 1
          BY <1>1, <2>2, <3>3, <5>1 DEF row
        <5>2. CASE i # n + 1
          <6>1. i \in 1..n
            BY <2>2, <5>2
          <6> QED
            BY <1>1, <2>2, <3>2, <3>3, <6>1
        <5> QED
          BY <5>1, <5>2
      <4> QED
        BY <4>1
    <3> QED
      BY <2>1, <2>2, <3>1, <3>3, <3>4
  <2> QED
    BY <1>1, <1>2, <1>3, <2>2, <2>4, <2>6, <2>7 DEF RowsInv
<1> QED
  BY <1>6, <1>7

(* Only the scan touches the rows and their numbers.                       *)
LEMMA OtherStepsKeepRows ==
  ASSUME CallInv, RowsInv,
         Bind \/ RaiseInScan \/ Fit \/ RunDbscan \/ RunForest \/ RunOutlierTree \/ Interrupt \/ UNCHANGED vars
  PROVE  RowsInv'
<1>1. /\ table' = table /\ scanned' = scanned /\ rows' = rows /\ ids' = ids
      /\ scanned = 0 \/ call' = call
      /\ stage' = "bind" => stage = "bind"
      /\ stage' \in {"run", "done"} => stage \in {"run", "done"} \/ scanned = Len(table)
  <2>1. CASE Bind
    BY <2>1 DEF Bind, RowsInv
  <2>2. CASE RaiseInScan \/ Fit \/ Interrupt \/ UNCHANGED vars
    BY <2>2 DEF RaiseInScan, Fit, Interrupt, vars, shared
  <2>3. CASE RunDbscan \/ RunForest \/ RunOutlierTree
    <3>1. UNCHANGED shared /\ stage = "run"
      BY <2>3 DEF RunDbscan, RunForest, RunOutlierTree
    <3>2. stage' # "bind"
      <4>1. CASE RunDbscan
        BY <4>1 DEF RunDbscan, D!DbscanStep, D!Visit, D!Expand, D!Promote, D!CloseCluster, D!FinishDbscan, D!RaiseInDbscan
      <4>2. CASE RunForest
        BY <4>2 DEF RunForest, F!ForestStep, F!StartTree, F!Draw, F!BuildLeaf, F!BuildSplit, F!FinishTree, F!ScoreRows, F!RaiseInForest
      <4>3. CASE RunOutlierTree
        BY <4>3 DEF RunOutlierTree, T!OutlierTreeStep, T!EvaluateGroup, T!FinishOutlierTree
      <4> QED
        BY <2>3, <4>1, <4>2, <4>3
    <3> QED
      BY <3>1, <3>2 DEF shared
  <2> QED
    BY <2>1, <2>2, <2>3
<1>2. KeptRows' \cap 1..scanned = KeptRows \cap 1..scanned
  <2>1. CASE scanned = 0
    <3>1. 1..0 = {}
      OBVIOUS
    <3> QED
      BY <2>1, <3>1
  <2>2. CASE call' = call
    BY <1>1, <2>2 DEF KeptRows, Skipped, F!NumericFeatures, F!Features
  <2> QED
    BY <1>1, <2>1, <2>2
<1> QED
  BY <1>1, <1>2 DEF RowsInv

(* Of a clustering, that a point that was visited knows its neighbours; of *)
(* a forest, that it calls every infinite row an anomaly.                  *)
CountsFit ==
  /\ DOMAIN count = D!Points
  /\ \A i \in visited : count[i] = Cardinality(D!Ball(i) \ {i})

FlagsFitRows ==
  DOMAIN flags = DOMAIN rows /\ \A i \in DOMAIN rows : F!NonFinite(rows[i]) => flags[i]

ReportsInv ==
  /\ call.fn = "dbscan" /\ stage \in {"run", "done"} => CountsFit
  /\ call.fn = "forest" /\ stage = "done" => FlagsFitRows

(* A visited point gets the number of its neighbours.                      *)
LEMMA MarkCounts ==
  ASSUME Clustering, CountsFit, visited \in SUBSET D!Points, UNCHANGED <<rows, call>>,
         NEW i \in D!Points, NEW type, NEW id, D!Mark(i, type, id)
  PROVE  CountsFit'
<1>1. /\ visited' = visited \cup {i}
      /\ count' = [count EXCEPT ![i] = Cardinality(D!Ball(i) \ {i})]
  BY RegionIsBall, SameCardinality DEF D!Mark
<1>2. D!Points' = D!Points /\ \A p : D!Ball(p)' = D!Ball(p)
  BY DefinitionIsStable
<1>3. DOMAIN count' = D!Points
  BY <1>1 DEF CountsFit
<1>4. ASSUME NEW j \in visited'
      PROVE  count'[j] = Cardinality(D!Ball(j) \ {j})
  BY <1>1 DEF CountsFit
<1> QED
  BY <1>2, <1>3, <1>4 DEF CountsFit

(* A step that leaves the points and the counts alone.                     *)
LEMMA CountsStutter ==
  ASSUME CountsFit, UNCHANGED <<rows, call, visited, count>>
  PROVE  CountsFit'
<1>1. D!Points' = D!Points /\ \A p : D!Ball(p)' = D!Ball(p)
  BY DefinitionIsStable
<1> QED
  BY <1>1 DEF CountsFit

(* Every step of the clustering that visits a point marks it.              *)
LEMMA DbscanCounts ==
  ASSUME CallInv, ReportsInv, RunDbscan
  PROVE  ReportsInv'
<1>1. /\ call' = call /\ rows' = rows
      /\ stage = "run" /\ call.fn = "dbscan" /\ D!DbscanStep
  BY DEF RunDbscan, shared
<1>2. Clustering /\ CountsFit /\ visited \in SUBSET D!Points /\ queue \in SUBSET D!Points
  BY <1>1, CallIsClustering DEF CallInv, ClusteringInv, ReportsInv, FitInv, FitTypes
<1>3. D!Points \in SUBSET Nat
  BY <1>2, PointsAreNumbered
<1>4. CASE D!Visit
  <2> DEFINE i == D!Min(D!Points \ visited)
  <2>1. i \in D!Points
    BY <1>2, <1>3, <1>4, SameLeast, MinIsLeast DEF D!Visit
  <2>2. \E type, id : D!Mark(i, type, id)
    BY <1>4 DEF D!Visit
  <2>3. PICK j : j = i
    OBVIOUS
  <2>4. j \in D!Points /\ \E type, id : D!Mark(j, type, id)
    BY <2>1, <2>2, <2>3 DEF D!Mark
  <2> QED
    BY <1>1, <1>2, <2>4, MarkCounts DEF ReportsInv
<1>5. CASE D!Expand
  <2>1. PICK i \in queue \ visited : \E type, id : D!Mark(i, type, id)
    BY <1>5 DEF D!Expand
  <2> QED
    BY <1>1, <1>2, <2>1, MarkCounts DEF ReportsInv
<1>6. CASE D!Promote \/ D!CloseCluster \/ D!FinishDbscan \/ D!RaiseInDbscan
  <2>1. visited' = visited /\ count' = count
    BY <1>6 DEF D!Promote, D!CloseCluster, D!FinishDbscan, D!RaiseInDbscan, D!dbscanVars
  <2> QED
    BY <1>1, <1>2, <2>1, CountsStutter DEF ReportsInv
<1> QED
  BY <1>1, <1>4, <1>5, <1>6 DEF D!DbscanStep

(* The threshold is not asked about rows that are not finite.              *)
LEMMA ForestFlags ==
  ASSUME CallInv, ReportsInv, RunForest
  PROVE  ReportsInv'
<1>1. call' = call /\ rows' = rows /\ stage = "run" /\ call.fn = "forest" /\ F!ForestStep
  BY DEF RunForest, shared
<1>2. CASE F!ScoreRows
  <2>1. PICK finite : F!Finish(finite)
    BY <1>2 DEF F!ScoreRows
  <2>2. \E score : flags' = [i \in DOMAIN rows |-> F!NonFinite(rows[i]) \/ score[i]]
    <3>1. PICK threshold, f : flags' = [i \in DOMAIN rows |-> F!NonFinite(rows[i]) \/ f[i]]
      <4> DEFINE score(i) == IF F!NonFinite(rows[i]) THEN F!AnomalyScore ELSE finite[F!Position(i)]
      <4>1. PICK threshold : flags' = [i \in DOMAIN rows |-> F!NonFinite(rows[i])
                                                              \/ F!IsAnomaly(score(i), threshold)]
        BY <2>1 DEF F!Finish
      <4> DEFINE f == [i \in DOMAIN rows |-> F!IsAnomaly(score(i), threshold)]
      <4>2. \A i \in DOMAIN rows : f[i] = F!IsAnomaly(score(i), threshold)
        OBVIOUS
      <4> HIDE DEF f, score
      <4>3. flags' = [i \in DOMAIN rows |-> F!NonFinite(rows[i]) \/ f[i]]
        BY <4>1, <4>2
      <4> QED
        BY <4>3
    <3> QED
      BY <3>1
  <2>3. \A r : F!NonFinite(r)' <=> F!NonFinite(r)
    BY <1>1 DEF F!NonFinite, F!NumericFeatures, F!Features
  <2>4. FlagsFitRows'
    <3>1. DOMAIN flags' = DOMAIN rows /\ \A i \in DOMAIN rows : F!NonFinite(rows[i]) => flags'[i]
      BY <2>2
    <3>2. \A i : F!NonFinite(rows[i])' <=> F!NonFinite(rows[i])
      BY <1>1 DEF F!NonFinite, F!NumericFeatures, F!Features
    <3> QED
      BY <1>1, <3>1, <3>2 DEF FlagsFitRows
  <2> QED
    BY <1>1, <2>4 DEF ReportsInv
<1>3. CASE ~F!ScoreRows
  <2>1. stage' # "done"
    BY <1>1, <1>3 DEF F!ForestStep, F!StartTree, F!Draw, F!BuildLeaf, F!BuildSplit, F!FinishTree, F!RaiseInForest
  <2> QED
    BY <1>1, <2>1 DEF ReportsInv
<1> QED
  BY <1>2, <1>3

(* The steps before the fit, and those of the other functions.             *)
LEMMA OtherStepsReport ==
  ASSUME CallInv, ReportsInv,
         Bind \/ ScanRow \/ RaiseInScan \/ Fit \/ RunOutlierTree \/ Interrupt \/ UNCHANGED vars
  PROVE  ReportsInv'
<1>1. CASE Bind \/ ScanRow \/ RaiseInScan
  BY <1>1 DEF Bind, ScanRow, RaiseInScan, ReportsInv
<1>2. CASE Fit
  <2>1. /\ stage' = "run" /\ stage = "scan" /\ call' = call /\ rows' = rows
        /\ call.fn = "dbscan" => D!StartDbscan
    BY <1>2 DEF Fit, shared
  <2>2. SUFFICES ASSUME call.fn = "dbscan"
                 PROVE  CountsFit'
    BY <2>1 DEF ReportsInv
  <2>3. D!DbscanIdle /\ D!StartDbscan
    BY <2>1, <2>2 DEF CallInv, ClusteringInv
  <2>4. visited' = {} /\ DOMAIN count' = D!Points /\ D!Points' = D!Points
    BY <2>1, <2>3 DEF D!DbscanIdle, D!StartDbscan, D!Points
  <2> QED
    BY <2>4 DEF CountsFit
<1>3. CASE RunOutlierTree
  BY <1>3 DEF RunOutlierTree, shared, ReportsInv
<1>4. CASE Interrupt \/ UNCHANGED vars
  <2>1. call' = call /\ rows' = rows /\ stage' = stage /\ visited' = visited /\ count' = count /\ flags' = flags
    BY <1>4 DEF Interrupt, vars, shared, work, dbscanVars, forestVars
  <2>2. CountsFit => CountsFit'
    BY <2>1, CountsStutter
  <2>3. FlagsFitRows => FlagsFitRows'
    <3>1. \A i : F!NonFinite(rows[i])' <=> F!NonFinite(rows[i])
      BY <2>1 DEF F!NonFinite, F!NumericFeatures, F!Features
    <3> QED
      BY <2>1, <3>1 DEF FlagsFitRows
  <2> QED
    BY <2>1, <2>2, <2>3 DEF ReportsInv
<1> QED
  BY <1>1, <1>2, <1>3, <1>4

(* The part of RowIdsNameTheirRows that does not speak of the forest's     *)
(* scores: the row numbers are those of the rows that were not skipped,    *)
(* and what is said under a number is said of that row of the table.       *)
RowIdsAreRight ==
  stage = "done" =>
    /\ Range(ids) = {r \in DOMAIN table : ~Skipped(table[r])}
    /\ call.fn = "dbscan" => \A o \in Range(DbscanOutput) :
         o.neighbor_count = Cardinality({j \in DOMAIN rows : /\ ids[j] # o.row_id
                                                              /\ D!Near(table[o.row_id], rows[j])})
    /\ call.fn = "forest" => \A o \in Range(ForestOutput) :
         F!NonFinite(table[o.row_id]) => o.is_anomaly
    /\ call.fn = "tree" => \A o \in Range(OutlierTreeOutput) :
         o.outlier_value = table[o.row_id][o.column]

(* In every call that ends, also after skipped rows and around infinite    *)
(* ones.                                                                   *)
THEOREM RowIdsOfEveryCall ==
  Spec => []RowIdsAreRight
<1>1. RowsInv /\ CallInv /\ [Next]_vars => RowsInv'
  <2>1. SUFFICES ASSUME RowsInv, CallInv, [Next]_vars
                 PROVE  RowsInv'
    OBVIOUS
  <2> QED
    BY <2>1, ScanKeepsRows, OtherStepsKeepRows DEF Next, CallStep
<1>2. ReportsInv /\ CallInv /\ [Next]_vars => ReportsInv'
  <2>1. SUFFICES ASSUME ReportsInv, CallInv, [Next]_vars
                 PROVE  ReportsInv'
    OBVIOUS
  <2> QED
    BY <2>1, DbscanCounts, ForestFlags, OtherStepsReport DEF Next, CallStep
<1>3. Init => ReportsInv
  BY DEF Init, ReportsInv
<1>4. RowsInv /\ ReportsInv /\ CallInv /\ TreeInv => RowIdsAreRight
  <2>1. SUFFICES ASSUME RowsInv, ReportsInv, CallInv, TreeInv, stage = "done"
                 PROVE  RowIdsAreRight
    BY DEF RowIdsAreRight
  <2>2. /\ ids \in Seq(Nat) /\ rows = [i \in DOMAIN ids |-> table[ids[i]]]
        /\ \A i, j \in DOMAIN ids : i < j => ids[i] < ids[j]
        /\ Range(ids) = KeptRows \cap 1..scanned /\ scanned = Len(table)
    BY <2>1 DEF RowsInv
  <2>3. Range(ids) = KeptRows
    BY <2>1, <2>2, TableIsSeq DEF KeptRows
  <2>4. DOMAIN rows = DOMAIN ids /\ \A i \in DOMAIN rows : rows[i] = table[ids[i]]
    BY <2>2
  <2>5. \A i, j \in DOMAIN rows : i # j => ids[i] # ids[j]
    <3>1. DOMAIN rows = 1..Len(ids) /\ \A i \in DOMAIN rows : i \in Nat /\ ids[i] \in Nat
      BY <2>2, <2>4
    <3>2. ASSUME NEW i \in DOMAIN rows, NEW j \in DOMAIN rows, i # j
          PROVE  ids[i] # ids[j]
      <4>1. i < j \/ j < i
        BY <3>1, <3>2
      <4>2. ids[i] < ids[j] \/ ids[j] < ids[i]
        BY <2>2, <2>4, <4>1
      <4> QED
        BY <3>1, <4>2
    <3> QED
      BY <3>2
  <2>6. ASSUME call.fn = "dbscan", NEW o \in Range(DbscanOutput)
        PROVE  o.neighbor_count = Cardinality({j \in DOMAIN rows : /\ ids[j] # o.row_id
                                                                    /\ D!Near(table[o.row_id], rows[j])})
    <3>1. PICK i \in DOMAIN rows : o.row_id = ids[i] /\ o.neighbor_count = count[i]
      BY DEF Range, DbscanOutput
    <3>2. CountsFit /\ visited = D!Points
      BY <2>1, <2>6 DEF ReportsInv, CallInv, ClusteringInv
    <3>3. count[i] = Cardinality(D!Ball(i) \ {i})
      BY <3>2 DEF CountsFit, D!Points
    <3>4. \A j \in DOMAIN rows : D!Within(i, j) <=> D!Near(table[o.row_id], rows[j])
      BY <2>4, <3>1 DEF D!Within
    <3>5. D!Ball(i) \ {i} = {j \in DOMAIN rows : ids[j] # o.row_id /\ D!Near(table[o.row_id], rows[j])}
      BY <2>5, <3>1, <3>4 DEF D!Ball, D!Points
    <3> QED
      BY <3>1, <3>3, <3>5
  <2>7. ASSUME call.fn = "forest", NEW o \in Range(ForestOutput), F!NonFinite(table[o.row_id])
        PROVE  o.is_anomaly
    <3>1. PICK i \in DOMAIN rows : o.row_id = ids[i] /\ o.is_anomaly = flags[i]
      BY DEF Range, ForestOutput
    <3>2. F!NonFinite(rows[i])
      BY <2>4, <2>7, <3>1
    <3> QED
      BY <2>1, <2>7, <3>1, <3>2 DEF ReportsInv, FlagsFitRows
  <2>8. ASSUME call.fn = "tree", NEW o \in Range(OutlierTreeOutput)
        PROVE  o.outlier_value = table[o.row_id][o.column]
    <3>1. PICK k \in DOMAIN outliers :
            /\ o.row_id = ids[outliers[k].row] /\ o.column = outliers[k].target
            /\ o.outlier_value = rows[outliers[k].row][outliers[k].target]
      BY DEF Range, OutlierTreeOutput
    <3>2. outliers[k] \in Range(outliers)
      BY DEF Range
    <3>3. FindingFits(outliers[k])
      BY <2>1, <2>8, <3>2 DEF CallInv, TreeInv, TreeFits
    <3>4. outliers[k].row \in DOMAIN rows
      BY <3>3 DEF FindingFits, Group
    <3> QED
      BY <2>4, <3>1, <3>4
  <2> QED
    BY <2>3, <2>6, <2>7, <2>8 DEF RowIdsAreRight, KeptRows
<1> QED
  BY <1>1, <1>2, <1>3, <1>4, InitRows, TreeInvariant, PTL DEF Spec

(* A tree of the forest, finished or in the making.  R has the rows of the *)
(* sample that the splits lead to a node, dep the number of these splits.  *)
Sides == {"left", "right"}

LeafNode(x) == x.leaf = TRUE
SplitNode(x) == x.leaf = FALSE /\ {"leaf", "split", "left", "right"} \subseteq DOMAIN x

SideRows(points, sp, S, side) ==
  {i \in S : side = IF F!GoesLeft(sp, points[i]) THEN "left" ELSE "right"}

\* The subtree on this side is built, or waits.
Linked(tree, waiting, R, dep, points, k, side) ==
  LET link == tree[k][side] IN
  \/ link = 0 /\ \E w \in DOMAIN waiting : waiting[w].parent = k /\ waiting[w].side = side
  \/ /\ link \in DOMAIN tree /\ k < link /\ dep[link] = dep[k] + 1
     /\ R[link] = SideRows(points, tree[k].split, R[k], side)

Waits(w, tree, R, dep, points, most) ==
  /\ w.side \in Sides /\ w.parent \in DOMAIN tree /\ SplitNode(tree[w.parent])
  /\ tree[w.parent][w.side] = 0
  /\ w.rows = SideRows(points, tree[w.parent].split, R[w.parent], w.side)
  /\ w.depth = dep[w.parent] + 1 /\ w.depth <= most

Routed(tree, waiting, S, R, dep, points, most) ==
  /\ IsSeq(tree) /\ IsSeq(waiting)
  /\ \A k \in DOMAIN tree :
       /\ R[k] \in SUBSET S /\ dep[k] \in Nat /\ dep[k] <= most
       /\ \/ LeafNode(tree[k]) /\ tree[k].size = Cardinality(R[k])
          \/ SplitNode(tree[k]) /\ \A side \in Sides : Linked(tree, waiting, R, dep, points, k, side)
       /\ k # 1 => \E j \in DOMAIN tree, side \in Sides : SplitNode(tree[j]) /\ tree[j][side] = k
  /\ \A v, w \in DOMAIN waiting :
       v # w => waiting[v].parent # waiting[w].parent \/ waiting[v].side # waiting[w].side
  /\ IF tree = <<>>
     THEN Len(waiting) = 1 /\ waiting[1].side = "root" /\ waiting[1].depth = 0
     ELSE /\ R[1] = S /\ dep[1] = 0
          /\ \A w \in DOMAIN waiting : Waits(waiting[w], tree, R, dep, points, most)

InFront(new, s, t) ==
  /\ IsSeq(t) /\ DOMAIN t = 1..Len(t) /\ Len(t) \in Nat
  /\ DOMAIN s = 1..Len(s) /\ Len(s) \in Nat /\ DOMAIN new = 1..Len(new) /\ Len(new) \in Nat
  /\ \A j \in DOMAIN t : \/ j \in DOMAIN new /\ t[j] = new[j]
                         \/ /\ j - Len(new) + 1 \in DOMAIN s /\ j - Len(new) + 1 # 1
                            /\ j \notin DOMAIN new /\ t[j] = s[j - Len(new) + 1]
  /\ \A j \in DOMAIN new : j \in DOMAIN t /\ t[j] = new[j]
  /\ \A j \in DOMAIN s \ {1} : j - 1 + Len(new) \in DOMAIN t /\ t[j - 1 + Len(new)] = s[j]

(* What is put in front of what still waits.                               *)
LEMMA InFrontOfTail ==
  ASSUME NEW new, IsSeq(new), NEW s, IsSeq(s), s # <<>>
  PROVE  InFront(new, s, new \o Tail(s))
<1> DEFINE t == new \o Tail(s)
<1> DEFINE S == Range(new) \cup Range(s)
<1>1. new \in Seq(S) /\ s \in Seq(S)
  <2>1. Range(new) \subseteq S /\ Range(s) \subseteq S
    OBVIOUS
  <2> QED
    BY <2>1, SeqMonotonic DEF IsSeq
<1> HIDE DEF S
<1>2. /\ Tail(s) \in Seq(S) /\ Len(Tail(s)) = Len(s) - 1 /\ Len(s) \in Nat /\ Len(s) > 0
      /\ \A j \in 1..Len(s) - 1 : Tail(s)[j] = s[j + 1]
  BY <1>1, HeadTailProperties
<1>3. /\ t \in Seq(S) /\ Len(t) = Len(new) + Len(Tail(s)) /\ Len(new) \in Nat
      /\ \A j \in 1..Len(t) : t[j] = IF j <= Len(new) THEN new[j] ELSE Tail(s)[j - Len(new)]
  BY <1>1, <1>2, ConcatProperties
<1>4. DOMAIN t = 1..Len(t) /\ DOMAIN s = 1..Len(s) /\ DOMAIN new = 1..Len(new) /\ Len(t) \in Nat
  BY <1>1, <1>3
<1> HIDE DEF t
<1>5. IsSeq(t)
  BY <1>3, SeqOfItsRange
<1>6. ASSUME NEW j \in DOMAIN t
      PROVE  \/ j \in DOMAIN new /\ t[j] = new[j]
             \/ /\ j - Len(new) + 1 \in DOMAIN s /\ j - Len(new) + 1 # 1
                /\ j \notin DOMAIN new /\ t[j] = s[j - Len(new) + 1]
  <2>1. CASE j <= Len(new)
    BY <1>3, <1>4, <2>1
  <2>2. CASE ~(j <= Len(new))
    <3>1. j - Len(new) \in 1..Len(s) - 1 /\ j \notin DOMAIN new
      BY <1>2, <1>3, <1>4, <2>2
    <3>2. t[j] = s[j - Len(new) + 1]
      BY <1>2, <1>3, <1>4, <2>2, <3>1
    <3> QED
      BY <1>2, <1>3, <1>4, <3>1, <3>2
  <2> QED
    BY <2>1, <2>2
<1>7. ASSUME NEW j \in DOMAIN new
      PROVE  j \in DOMAIN t /\ t[j] = new[j]
  BY <1>2, <1>3, <1>4
<1>8. ASSUME NEW j \in DOMAIN s \ {1}
      PROVE  j - 1 + Len(new) \in DOMAIN t /\ t[j - 1 + Len(new)] = s[j]
  <2>1. j - 1 \in 1..Len(s) - 1 /\ ~(j - 1 + Len(new) <= Len(new)) /\ j - 1 + Len(new) \in 1..Len(t)
    BY <1>2, <1>3, <1>4
  <2>2. j - 1 + Len(new) - Len(new) = j - 1 /\ j - 1 + 1 = j
    BY <1>2, <1>3, <1>4
  <2> QED
    BY <1>2, <1>3, <1>4, <2>1, <2>2
<1> QED
  BY <1>2, <1>3, <1>4, <1>5, <1>6, <1>7, <1>8 DEF InFront, t

LinkedNode(x, side, link, y) ==
  /\ SplitNode(y) /\ y.split = x.split /\ y[side] = link
  /\ \A other \in Sides : other # side => y[other] = x[other]

(* A link of a split is set.                                               *)
LEMMA ExceptLink ==
  ASSUME NEW x, SplitNode(x), NEW side \in Sides, NEW link
  PROVE  LinkedNode(x, side, link, [x EXCEPT ![side] = link])
<1> DEFINE y == [x EXCEPT ![side] = link]
<1>1. /\ DOMAIN y = DOMAIN x
      /\ \A other \in DOMAIN x : y[other] = IF other = side THEN link ELSE x[other]
  OBVIOUS
<1>2. /\ side \in DOMAIN x /\ side # "leaf" /\ side # "split" /\ "split" \in DOMAIN x
      /\ \A other \in Sides : other \in DOMAIN x
  BY DEF SplitNode, Sides
<1> HIDE DEF y
<1>3. y.leaf = FALSE
  BY <1>1, <1>2 DEF SplitNode
<1>4. SplitNode(y)
  BY <1>1, <1>3 DEF SplitNode
<1> QED
  BY <1>1, <1>2, <1>4 DEF LinkedNode, y

Grown(tree, w, node, grown) ==
  LET n == Len(tree) IN
  /\ IsSeq(grown) /\ DOMAIN grown = 1..n + 1 /\ DOMAIN tree = 1..n /\ n \in Nat
  /\ grown[n + 1] = node
  /\ \A k \in 1..n : w.side = "root" \/ k # w.parent => grown[k] = tree[k]
  /\ w.side # "root" => LinkedNode(tree[w.parent], w.side, n + 1, grown[w.parent])

(* A node is pushed, and linked from its parent.                           *)
LEMMA PushedNode ==
  ASSUME NEW tree, IsSeq(tree), NEW node, NEW w,
         \/ w.side = "root"
         \/ w.side \in Sides /\ w.parent \in DOMAIN tree /\ SplitNode(tree[w.parent])
  PROVE  Grown(tree, w, node, Append(IF w.side = "root" THEN tree
                                     ELSE [tree EXCEPT ![w.parent][w.side] = Len(tree) + 1],
                                     node))
<1> DEFINE n == Len(tree)
           k == w.parent
           linked == IF w.side = "root" THEN tree ELSE [tree EXCEPT ![k][w.side] = n + 1]
<1> DEFINE grown == Append(linked, node)
<1>1. n \in Nat /\ DOMAIN tree = 1..n
  BY DEF IsSeq
<1>2. /\ IsSeq(linked) /\ DOMAIN linked = 1..n
      /\ \A j \in 1..n : w.side = "root" \/ j # k => linked[j] = tree[j]
      /\ w.side # "root" => linked[k] = [tree[k] EXCEPT ![w.side] = n + 1]
  <2>1. CASE w.side = "root"
    BY <1>1, <2>1
  <2>2. CASE w.side # "root"
    <3> DEFINE x == [tree[k] EXCEPT ![w.side] = n + 1]
    <3>1. linked = [tree EXCEPT ![k] = x]
      BY <2>2
    <3> HIDE DEF x, linked
    <3>2. IsSeq(linked)
      BY <3>1, RangeOfExcept
    <3>3. DOMAIN linked = 1..n /\ \A j \in 1..n : linked[j] = IF j = k THEN x ELSE tree[j]
      BY <1>1, <3>1
    <3>4. k \in 1..n
      BY <1>1, <2>2
    <3> QED
      BY <2>2, <3>2, <3>3, <3>4 DEF x
  <2> QED
    BY <2>1, <2>2
<1> HIDE DEF linked
<1>3. /\ IsSeq(grown) /\ DOMAIN grown = 1..n + 1 /\ grown[n + 1] = node
      /\ \A j \in 1..n : grown[j] = linked[j]
  <2> DEFINE S == Range(linked) \cup {node}
  <2>1. linked \in Seq(S) /\ node \in S /\ Len(linked) = n
    <3>1. Range(linked) \subseteq S
      OBVIOUS
    <3> QED
      BY <1>1, <1>2, <3>1, SeqMonotonic, LenProperties DEF IsSeq
  <2> HIDE DEF S
  <2>2. /\ Append(linked, node) \in Seq(S) /\ Len(Append(linked, node)) = n + 1
        /\ Append(linked, node)[n + 1] = node
    BY <2>1, AppendProperties
  <2>3. \A j \in 1..n : Append(linked, node)[j] = linked[j]
    BY <2>1, AppendProperties
  <2>4. IsSeq(Append(linked, node)) /\ DOMAIN Append(linked, node) = 1..n + 1
    BY <2>2, SeqOfItsRange, LenProperties
  <2> QED
    BY <2>2, <2>3, <2>4
<1> HIDE DEF grown
<1>4. \A j \in 1..n : w.side = "root" \/ j # k => grown[j] = tree[j]
  BY <1>2, <1>3
<1>5. ASSUME w.side # "root"
      PROVE  LinkedNode(tree[k], w.side, n + 1, grown[k])
  <2>1. w.side \in Sides /\ SplitNode(tree[k]) /\ k \in 1..n
    BY <1>1, <1>5
  <2>2. grown[k] = [tree[k] EXCEPT ![w.side] = n + 1]
    BY <1>2, <1>3, <1>5, <2>1
  <2> QED
    BY <2>1, <2>2, ExceptLink
<1> QED
  BY <1>1, <1>3, <1>4, <1>5 DEF Grown, grown, linked

Child(points, node, parent, S, depth, side) ==
  [rows |-> SideRows(points, node.split, S, side), depth |-> depth, parent |-> parent, side |-> side]

Pushes(node, new, parent, S, depth, points, most) ==
  \/ LeafNode(node) /\ node.size = Cardinality(S) /\ new = <<>>
  \/ /\ SplitNode(node) /\ node.left = 0 /\ node.right = 0 /\ depth < most
     /\ new = <<Child(points, node, parent, S, depth + 1, "left"),
                Child(points, node, parent, S, depth + 1, "right")>>

(* A node that takes the place of the first subtree that waits, with its   *)
(* two sides waiting if it is a split.                                     *)
LEMMA PushFits ==
  ASSUME NEW tree, NEW waiting, NEW S, NEW R, NEW dep, NEW points, NEW most \in Nat,
         Routed(tree, waiting, S, R, dep, points, most), waiting # <<>>,
         NEW node, NEW new,
         Pushes(node, new, Len(tree) + 1,
                IF Head(waiting).side = "root" THEN S ELSE Head(waiting).rows,
                Head(waiting).depth, points, most)
  PROVE  LET w     == Head(waiting)
             grown == Append(IF w.side = "root" THEN tree
                             ELSE [tree EXCEPT ![w.parent][w.side] = Len(tree) + 1],
                             node)
         IN  \E R2, dep2 : Routed(grown, new \o Tail(waiting), S, R2, dep2, points, most)
<1> DEFINE w == Head(waiting)
           n == Len(tree)
           here == IF w.side = "root" THEN S ELSE w.rows
           grown == Append(IF w.side = "root" THEN tree ELSE [tree EXCEPT ![w.parent][w.side] = n + 1],
                           node)
           later == new \o Tail(waiting)
           R2 == [k \in 1..n + 1 |-> IF k = n + 1 THEN here ELSE R[k]]
           dep2 == [k \in 1..n + 1 |-> IF k = n + 1 THEN w.depth ELSE dep[k]]
<1>1. /\ IsSeq(tree) /\ IsSeq(waiting)
      /\ \A k \in DOMAIN tree :
           /\ R[k] \in SUBSET S /\ dep[k] \in Nat /\ dep[k] <= most
           /\ \/ LeafNode(tree[k]) /\ tree[k].size = Cardinality(R[k])
              \/ SplitNode(tree[k]) /\ \A side \in Sides : Linked(tree, waiting, R, dep, points, k, side)
           /\ k # 1 => \E j \in DOMAIN tree, side \in Sides : SplitNode(tree[j]) /\ tree[j][side] = k
      /\ \A v, u \in DOMAIN waiting :
           v # u => waiting[v].parent # waiting[u].parent \/ waiting[v].side # waiting[u].side
      /\ tree = <<>> => Len(waiting) = 1 /\ waiting[1].side = "root" /\ waiting[1].depth = 0
      /\ tree # <<>> => /\ R[1] = S /\ dep[1] = 0
                        /\ \A v \in DOMAIN waiting : Waits(waiting[v], tree, R, dep, points, most)
  BY DEF Routed
<1>2. /\ w = waiting[1] /\ 1 \in DOMAIN waiting /\ n \in Nat /\ DOMAIN tree = 1..n
      /\ tree = <<>> <=> n = 0
  BY <1>1 DEF IsSeq
<1>3. IsSeq(new)
  <2>1. \A x, y : IsSeq(<<x, y>>)
    <3>1. ASSUME NEW x, NEW y PROVE IsSeq(<<x, y>>)
      <4>1. <<x, y>> \in Seq({x, y})
        OBVIOUS
      <4> QED
        BY <4>1, SeqOfItsRange
    <3> QED
      BY <3>1
  <2> QED
    BY <2>1, RangeOfShort DEF Pushes
<1> DEFINE after == Len(new)
<1>20. Pushes(node, new, n + 1, here, w.depth, points, most)
  OBVIOUS
<1>21. waiting # <<>> /\ after \in Nat
  BY <1>3 DEF IsSeq
<1>22. later = new \o Tail(waiting)
  OBVIOUS
<1>23. n = Len(tree) /\ grown = Append(IF w.side = "root" THEN tree ELSE [tree EXCEPT ![w.parent][w.side] = n + 1], node)
  OBVIOUS
<1>24. IsSeq(tree) /\ IsSeq(waiting)
  BY <1>1
<1> HIDE DEF w, n, here, grown, later, R2, dep2, after
<1>4. /\ IsSeq(later) /\ after \in Nat /\ DOMAIN new = 1..after
      /\ \A j \in DOMAIN later : \/ j \in DOMAIN new /\ later[j] = new[j]
                                 \/ /\ j - after + 1 \in DOMAIN waiting /\ j - after + 1 # 1
                                    /\ j \notin DOMAIN new /\ later[j] = waiting[j - after + 1]
      /\ \A j \in DOMAIN new : j \in DOMAIN later /\ later[j] = new[j]
      /\ \A j \in DOMAIN waiting \ {1} : j - 1 + after \in DOMAIN later /\ later[j - 1 + after] = waiting[j]
      /\ DOMAIN waiting = 1..Len(waiting) /\ Len(waiting) \in Nat /\ DOMAIN later = 1..Len(later) /\ Len(later) \in Nat
  <2>1. InFront(new, waiting, later)
    BY <1>3, <1>21, <1>22, <1>24, InFrontOfTail
  <2> QED
    BY <2>1 DEF InFront, after
<1>5. \/ n = 0 /\ w.side = "root" /\ w.depth = 0 /\ here = S /\ DOMAIN waiting = {1}
      \/ /\ n # 0 /\ w.side # "root" /\ Waits(w, tree, R, dep, points, most) /\ here = w.rows
         /\ \A v \in DOMAIN waiting : Waits(waiting[v], tree, R, dep, points, most)
  <2>1. Waits(w, tree, R, dep, points, most) => w.side # "root"
    BY DEF Waits, Sides
  <2>2. 1..1 = {1}
    OBVIOUS
  <2> QED
    BY <1>1, <1>2, <1>4, <2>1, <2>2 DEF here
<1>6. w.side = "root" \/ (w.side \in Sides /\ w.parent \in DOMAIN tree /\ SplitNode(tree[w.parent]))
  BY <1>5 DEF Waits
<1>7. /\ IsSeq(grown) /\ DOMAIN grown = 1..n + 1
      /\ grown[n + 1] = node
      /\ \A k \in 1..n : w.side = "root" \/ k # w.parent => grown[k] = tree[k]
      /\ w.side # "root" => LinkedNode(tree[w.parent], w.side, n + 1, grown[w.parent])
  <2>1. Grown(tree, w, node, grown)
    BY <1>6, <1>23, <1>24, PushedNode
  <2> QED
    BY <1>23, <2>1 DEF Grown
<1>8. /\ R2[n + 1] = here /\ dep2[n + 1] = w.depth
      /\ \A k \in 1..n : R2[k] = R[k] /\ dep2[k] = dep[k] /\ k \in 1..n + 1
  BY <1>2 DEF R2, dep2
<1> DEFINE Filled(k, side) == w.side # "root" /\ k = w.parent /\ side = w.side
<1>9. \A k \in 1..n :
        /\ LeafNode(tree[k]) => grown[k] = tree[k]
        /\ SplitNode(tree[k]) => /\ SplitNode(grown[k]) /\ grown[k].split = tree[k].split
                                 /\ \A side \in Sides : grown[k][side] = IF Filled(k, side) THEN n + 1
                                                                          ELSE tree[k][side]
  BY <1>6, <1>7 DEF LeafNode, SplitNode, LinkedNode
<1>10. \A k \in 1..n, side \in Sides : Filled(k, side) =>
         /\ tree[k][side] = 0 /\ here = SideRows(points, tree[k].split, R[k], side)
         /\ w.depth = dep[k] + 1 /\ w.depth <= most
  BY <1>5 DEF Waits
<1>11. ASSUME NEW k \in 1..n, NEW side \in Sides, SplitNode(tree[k]),
              Linked(tree, waiting, R, dep, points, k, side)
       PROVE  Linked(grown, later, R2, dep2, points, k, side)
  <2>1. grown[k][side] = (IF Filled(k, side) THEN n + 1 ELSE tree[k][side]) /\ grown[k].split = tree[k].split
    BY <1>9, <1>11
  <2>2. n + 1 \in 1..n + 1 /\ k < n + 1 /\ k \in 1..n + 1
    BY <1>2
  <2>3. CASE Filled(k, side)
    BY <1>7, <1>8, <1>10, <2>1, <2>2, <2>3 DEF Linked
  <2>4. CASE ~Filled(k, side) /\ tree[k][side] = 0
    <3>1. PICK v \in DOMAIN waiting : waiting[v].parent = k /\ waiting[v].side = side
      <4>1. 0 \notin DOMAIN tree
        BY <1>2
      <4> QED
        BY <1>11, <2>4, <4>1 DEF Linked
    <3>2. v # 1
      <4>1. side # "root"
        BY DEF Sides
      <4> QED
        BY <1>2, <2>4, <3>1, <4>1
    <3>3. v - 1 + after \in DOMAIN later /\ later[v - 1 + after] = waiting[v]
      BY <1>4, <3>2
    <3> QED
      BY <2>1, <2>4, <3>1, <3>3 DEF Linked
  <2>5. CASE ~Filled(k, side) /\ tree[k][side] # 0
    <3>1. LET link == tree[k][side] IN
          /\ link \in 1..n /\ k < link /\ dep[link] = dep[k] + 1
          /\ R[link] = SideRows(points, tree[k].split, R[k], side)
      BY <1>2, <1>11, <2>5 DEF Linked
    <3> QED
      BY <1>7, <1>8, <2>1, <2>5, <3>1 DEF Linked
  <2> QED
    BY <2>3, <2>4, <2>5
<1>12. here \in SUBSET S /\ w.depth \in Nat /\ w.depth <= most
  <2>1. CASE n = 0
    BY <1>5, <2>1
  <2>2. CASE n # 0
    <3>1. Waits(w, tree, R, dep, points, most) /\ here = w.rows
      BY <1>5, <2>2
    <3>2. w.parent \in DOMAIN tree
      BY <3>1 DEF Waits
    <3>3. R[w.parent] \in SUBSET S /\ dep[w.parent] \in Nat
      BY <1>1, <3>2
    <3> QED
      BY <3>1, <3>3 DEF Waits, SideRows
  <2> QED
    BY <2>1, <2>2
<1>13. ASSUME NEW side \in Sides, SplitNode(node)
       PROVE  /\ node[side] = 0 /\ DOMAIN new = {1, 2} /\ w.depth < most
              /\ \E v \in DOMAIN new : new[v] = Child(points, node, n + 1, here, w.depth + 1, side)
  <2>1. /\ node.left = 0 /\ node.right = 0 /\ w.depth < most
        /\ new = <<Child(points, node, n + 1, here, w.depth + 1, "left"),
                   Child(points, node, n + 1, here, w.depth + 1, "right")>>
    BY <1>13, <1>20 DEF Pushes, LeafNode, SplitNode
  <2>2. /\ DOMAIN new = {1, 2}
        /\ new[1] = Child(points, node, n + 1, here, w.depth + 1, "left")
        /\ new[2] = Child(points, node, n + 1, here, w.depth + 1, "right")
    BY <2>1
  <2> QED
    BY <2>1, <2>2 DEF Sides
<1>14. \A v \in DOMAIN new : \E side \in Sides : SplitNode(node) /\ new[v] = Child(points, node, n + 1, here, w.depth + 1, side)
  <2>1. CASE LeafNode(node) /\ new = <<>>
    BY <2>1
  <2>2. CASE SplitNode(node) /\ new = <<Child(points, node, n + 1, here, w.depth + 1, "left"),
                                        Child(points, node, n + 1, here, w.depth + 1, "right")>>
    BY <2>2 DEF Sides
  <2> QED
    BY <1>20, <2>1, <2>2 DEF Pushes
<1>15. \A side : Child(points, node, n + 1, here, w.depth + 1, side).parent = n + 1
                /\ Child(points, node, n + 1, here, w.depth + 1, side).side = side
                /\ Child(points, node, n + 1, here, w.depth + 1, side).depth = w.depth + 1
                /\ Child(points, node, n + 1, here, w.depth + 1, side).rows = SideRows(points, node.split, here, side)
  BY DEF Child
<1>16. ASSUME NEW k \in DOMAIN grown
       PROVE  /\ R2[k] \in SUBSET S /\ dep2[k] \in Nat /\ dep2[k] <= most
              /\ \/ LeafNode(grown[k]) /\ grown[k].size = Cardinality(R2[k])
                 \/ SplitNode(grown[k]) /\ \A side \in Sides : Linked(grown, later, R2, dep2, points, k, side)
              /\ k # 1 => \E j \in DOMAIN grown, side \in Sides : SplitNode(grown[j]) /\ grown[j][side] = k
  <2>1. CASE k = n + 1
    <3>1. (LeafNode(node) /\ node.size = Cardinality(here)) \/ SplitNode(node)
      BY <1>20 DEF Pushes
    <3>2. ASSUME NEW side \in Sides, SplitNode(node)
          PROVE  Linked(grown, later, R2, dep2, points, k, side)
      <4>1. PICK v \in DOMAIN new : new[v] = Child(points, node, n + 1, here, w.depth + 1, side)
        BY <1>13, <3>2
      <4>2. v \in DOMAIN later /\ later[v].parent = n + 1 /\ later[v].side = side
        BY <1>4, <1>15, <4>1
      <4>3. grown[k][side] = 0
        BY <1>7, <1>13, <2>1, <3>2
      <4> QED
        BY <2>1, <4>2, <4>3 DEF Linked
    <3>3. k # 1 => \E j \in DOMAIN grown, side \in Sides : SplitNode(grown[j]) /\ grown[j][side] = k
      <4>1. SUFFICES ASSUME n # 0
                     PROVE  \E j \in DOMAIN grown, side \in Sides : SplitNode(grown[j]) /\ grown[j][side] = k
        BY <2>1
      <4>2. w.parent \in 1..n /\ w.side \in Sides /\ w.side # "root"
        BY <1>2, <1>5, <4>1 DEF Waits
      <4>3. w.parent \in DOMAIN grown
        BY <1>2, <1>7, <4>2
      <4> QED
        BY <1>7, <2>1, <4>2, <4>3 DEF LinkedNode
    <3> QED
      BY <1>7, <1>8, <1>12, <2>1, <3>1, <3>2, <3>3
  <2>2. CASE k # n + 1
    <3>1. k \in 1..n /\ k \in DOMAIN tree
      BY <1>2, <1>7, <2>2
    <3>4. R2[k] \in SUBSET S /\ dep2[k] \in Nat /\ dep2[k] <= most
      BY <1>1, <1>8, <3>1
    <3>5. LeafNode(tree[k]) \/ SplitNode(tree[k])
      BY <1>1, <3>1
    <3>6. ASSUME k # 1
          PROVE  \E j \in DOMAIN grown, side \in Sides : SplitNode(grown[j]) /\ grown[j][side] = k
      <4>1. PICK j \in DOMAIN tree, side \in Sides : SplitNode(tree[j]) /\ tree[j][side] = k
        BY <1>1, <3>1, <3>6
      <4>2. j \in 1..n /\ j \in DOMAIN grown
        BY <1>2, <1>7, <4>1
      <4>3. ~Filled(j, side)
        BY <1>10, <3>1, <4>1, <4>2
      <4> QED
        BY <1>9, <4>1, <4>2, <4>3
    <3>2. CASE LeafNode(tree[k])
      <4>1. ~SplitNode(tree[k])
        BY <3>2 DEF LeafNode, SplitNode
      <4> QED
        BY <1>1, <1>8, <1>9, <3>1, <3>2, <3>4, <3>6, <4>1
    <3>3. CASE SplitNode(tree[k])
      <4>1. ~LeafNode(tree[k])
        BY <3>3 DEF LeafNode, SplitNode
      <4>2. \A side \in Sides : Linked(tree, waiting, R, dep, points, k, side)
        BY <1>1, <3>1, <4>1
      <4> QED
        BY <1>8, <1>9, <1>11, <3>1, <3>3, <3>4, <3>6, <4>2
    <3> QED
      BY <1>8, <3>1, <3>2, <3>3, <3>4, <3>5, <3>6
  <2> QED
    BY <2>1, <2>2
<1>17. n # 0 => \A v \in DOMAIN waiting : waiting[v].parent \in 1..n
  BY <1>2, <1>5 DEF Waits
<1>18. ASSUME NEW v \in DOMAIN later, NEW u \in DOMAIN later, v # u
       PROVE  later[v].parent # later[u].parent \/ later[v].side # later[u].side
  <2>1. \A j \in DOMAIN later : \/ j \in DOMAIN new /\ later[j].parent = n + 1
                                \/ n # 0 /\ j \notin DOMAIN new /\ later[j].parent \in 1..n
    BY <1>4, <1>5, <1>14, <1>15, <1>17
  <2>2. CASE v \in DOMAIN new /\ u \in DOMAIN new
    <3>1. PICK side \in Sides : SplitNode(node)
      BY <1>14, <2>2
    <3>2. /\ DOMAIN new = {1, 2}
          /\ new = <<Child(points, node, n + 1, here, w.depth + 1, "left"),
                     Child(points, node, n + 1, here, w.depth + 1, "right")>>
      BY <1>13, <1>20, <3>1 DEF Pushes, LeafNode, SplitNode
    <3>3. new[1].side = "left" /\ new[2].side = "right"
      BY <1>15, <3>2
    <3> QED
      BY <1>4, <1>18, <2>2, <3>2, <3>3
  <2>3. CASE v \notin DOMAIN new /\ u \notin DOMAIN new
    <3>1. /\ v - after + 1 \in DOMAIN waiting /\ later[v] = waiting[v - after + 1]
          /\ u - after + 1 \in DOMAIN waiting /\ later[u] = waiting[u - after + 1]
      BY <1>4, <2>3
    <3>2. v - after + 1 # u - after + 1
      BY <1>4, <1>18
    <3> QED
      BY <1>1, <3>1, <3>2
  <2>4. CASE (v \in DOMAIN new) # (u \in DOMAIN new)
    <3>1. n + 1 \notin 1..n
      BY <1>2
    <3> QED
      BY <2>1, <2>4, <3>1
  <2> QED
    BY <2>2, <2>3, <2>4
<1>19. ASSUME NEW v \in DOMAIN later
       PROVE  Waits(later[v], grown, R2, dep2, points, most)
  <2>1. CASE v \in DOMAIN new
    <3>1. PICK side \in Sides : SplitNode(node) /\ new[v] = Child(points, node, n + 1, here, w.depth + 1, side)
      BY <1>14, <2>1
    <3>2. n + 1 \in DOMAIN grown /\ grown[n + 1] = node /\ node[side] = 0 /\ w.depth < most
      BY <1>2, <1>7, <1>13, <3>1
    <3>3. later[v] = Child(points, node, n + 1, here, w.depth + 1, side)
      BY <1>4, <2>1, <3>1
    <3>4. /\ later[v].parent = n + 1 /\ later[v].side = side
          /\ later[v].depth = w.depth + 1 /\ later[v].rows = SideRows(points, node.split, here, side)
      BY <1>15, <3>3
    <3>5. w.depth + 1 <= most
      BY <1>12, <3>2
    <3> QED
      BY <1>8, <3>1, <3>2, <3>4, <3>5 DEF Waits
  <2>2. CASE v \notin DOMAIN new
    <3> DEFINE j == v - after + 1
    <3>1. j \in DOMAIN waiting /\ j # 1 /\ later[v] = waiting[j]
      BY <1>4, <2>2
    <3>2. n # 0 /\ Waits(waiting[j], tree, R, dep, points, most)
      BY <1>5, <3>1
    <3> HIDE DEF j
    <3> DEFINE u == waiting[j]
    <3>3. /\ u.side \in Sides /\ u.parent \in 1..n /\ SplitNode(tree[u.parent]) /\ tree[u.parent][u.side] = 0
          /\ u.rows = SideRows(points, tree[u.parent].split, R[u.parent], u.side)
          /\ u.depth = dep[u.parent] + 1 /\ u.depth <= most
      BY <1>2, <3>2 DEF Waits
    <3>4. ~Filled(u.parent, u.side)
      BY <1>1, <1>2, <3>1
    <3>5. u.parent \in DOMAIN grown
      BY <1>2, <1>7, <3>3
    <3> HIDE DEF u
    <3>6. Waits(u, grown, R2, dep2, points, most)
      BY <1>8, <1>9, <3>3, <3>4, <3>5 DEF Waits
    <3> QED
      BY <3>1, <3>6 DEF u
  <2> QED
    BY <2>1, <2>2
<1>25. grown # <<>> /\ R2[1] = S /\ dep2[1] = 0
  <2>1. grown # <<>>
    BY <1>2, <1>7
  <2>2. CASE n = 0
    BY <1>5, <1>8, <2>1, <2>2
  <2>3. CASE n # 0
    <3>1. 1 \in 1..n
      BY <1>2, <2>3
    <3> QED
      BY <1>1, <1>2, <1>8, <2>1, <2>3, <3>1
  <2> QED
    BY <2>1, <2>2, <2>3
<1>26. Routed(grown, later, S, R2, dep2, points, most)
  BY <1>4, <1>7, <1>16, <1>18, <1>19, <1>25 DEF Routed
<1> QED
  BY <1>26 DEF grown, later, w, n


Below(tree, k, p) == IF F!GoesLeft(tree[k].split, p) THEN tree[k].left ELSE tree[k].right

(* Every split links to two later nodes.                                   *)
Complete(tree) ==
  /\ IsSeq(tree) /\ tree # <<>>
  /\ \A k \in DOMAIN tree :
       \/ LeafNode(tree[k])
       \/ SplitNode(tree[k]) /\ \A side \in Sides : tree[k][side] \in DOMAIN tree /\ k < tree[k][side]

Traversed(tree, p, at) ==
  \A k \in DOMAIN tree :
    /\ at[k] \in [node : DOMAIN tree, depth : Nat]
    /\ LeafNode(tree[k]) => at[k].node = k /\ at[k].depth = 0
    /\ SplitNode(tree[k]) => /\ at[k].node = at[Below(tree, k, p)].node
                             /\ at[k].depth = at[Below(tree, k, p)].depth + 1

(* In a complete tree the traversal ends, for every row.                   *)
LEMMA TraversalEnds ==
  ASSUME NEW tree, Complete(tree), NEW p
  PROVE  \E at : F!Leaf(tree, p) = at[1] /\ Traversed(tree, p, at)
<1> DEFINE n == Len(tree)
           end == [node : 1..n, depth : Nat]
           body(g, k) == IF tree[k].leaf THEN [node |-> k, depth |-> 0]
                         ELSE [g[Below(tree, k, p)] EXCEPT !.depth = @ + 1]
           Runs(g, m) == /\ g = [k \in m..n |-> g[k]]
                         /\ \A k \in m..n : g[k] = body(g, k)
<1>1. /\ DOMAIN tree = 1..n /\ n \in Nat /\ n # 0
      /\ \A k \in 1..n : \/ LeafNode(tree[k])
                         \/ SplitNode(tree[k]) /\ Below(tree, k, p) \in k + 1..n
  <2>1. DOMAIN tree = 1..n /\ n \in Nat /\ n # 0
    BY DEF Complete, IsSeq
  <2>2. ASSUME NEW k \in 1..n, SplitNode(tree[k]), \A side \in Sides : tree[k][side] \in DOMAIN tree /\ k < tree[k][side]
        PROVE  Below(tree, k, p) \in k + 1..n
    <3>1. tree[k].left \in 1..n /\ k < tree[k].left /\ tree[k].right \in 1..n /\ k < tree[k].right
      BY <2>1, <2>2 DEF Sides
    <3> QED
      BY <2>1, <3>1 DEF Below
  <2> QED
    BY <2>1, <2>2 DEF Complete
<1> HIDE DEF n
<1>2. ASSUME NEW g, NEW m \in 1..n + 1, Runs(g, m + 1), m # n + 1
      PROVE  \E h : Runs(h, m)
  <2> DEFINE h == [k \in m..n |-> IF k = m THEN body(g, m) ELSE g[k]]
  <2>1. m \in m..n /\ m \in 1..n /\ \A k \in m + 1..n : k \in m..n /\ k # m
    BY <1>1, <1>2
  <2>2. \A k \in m..n : k = m \/ k \in m + 1..n
    BY <1>1
  <2>3. h[m] = body(g, m) /\ \A k \in m + 1..n : h[k] = g[k]
    BY <2>1
  <2>4. ASSUME NEW k \in m..n
        PROVE  body(g, k) = body(h, k)
    <3>1. k \in 1..n
      BY <1>1
    <3>2. CASE LeafNode(tree[k])
      BY <3>2 DEF LeafNode
    <3>3. CASE SplitNode(tree[k])
      <4> DEFINE c == Below(tree, k, p)
      <4>1. c \in k + 1..n /\ ~tree[k].leaf
        BY <1>1, <3>1, <3>3 DEF LeafNode, SplitNode
      <4>2. c \in m + 1..n
        BY <1>1, <4>1
      <4> HIDE DEF c
      <4>3. h[c] = g[c]
        BY <2>3, <4>2
      <4> HIDE DEF h
      <4> QED
        BY <4>1, <4>3 DEF c
    <3> QED
      BY <1>1, <3>1, <3>2, <3>3
  <2>6. h = [k \in m..n |-> h[k]]
    OBVIOUS
  <2> HIDE DEF h, body
  <2>7. \A k \in m..n : h[k] = body(h, k)
    BY <1>2, <2>2, <2>3, <2>4
  <2> QED
    BY <2>6, <2>7
<1>3. \E g : Runs(g, 1)
  <2> DEFINE N == {j \in 0..n : ~\E g : Runs(g, n + 1 - j)}
  <2> HIDE DEF Runs
  <2>1. SUFFICES ASSUME N # {} PROVE FALSE
    <3>1. n \in 0..n /\ n + 1 - n = 1
      BY <1>1
    <3> QED
      BY <3>1
  <2>2. PICK j \in N : \A i \in N : j <= i
    <3>1. N \in SUBSET Nat
      BY <1>1
    <3> QED
      BY <2>1, <3>1, LeastNatural
  <2>3. j # 0
    <3>1. n + 1..n = {}
      BY <1>1
    <3>2. Runs([k \in n + 1..n |-> 0], n + 1)
      BY <3>1 DEF Runs
    <3>3. n + 1 - 0 = n + 1
      BY <1>1
    <3> QED
      BY <2>2, <3>2, <3>3
  <2>4. j - 1 \in 0..n /\ ~(j <= j - 1) /\ n + 1 - (j - 1) = (n + 1 - j) + 1 /\ n + 1 - j \in 1..n + 1 /\ n + 1 - j # n + 1
    BY <1>1, <2>2, <2>3
  <2>5. PICK g : Runs(g, (n + 1 - j) + 1)
    BY <2>2, <2>4
  <2> QED
    BY <1>2, <2>2, <2>4, <2>5
<1> DEFINE IsAt(g) == g = [k \in DOMAIN tree |-> IF tree[k].leaf THEN [node |-> k, depth |-> 0]
                                                 ELSE [g[IF F!GoesLeft(tree[k].split, p) THEN tree[k].left ELSE tree[k].right]
                                                         EXCEPT !.depth = @ + 1]]
           at == CHOOSE g : IsAt(g)
<1>4. F!Leaf(tree, p) = at[1]
  BY DEF F!Leaf
<1>5. IsAt(at)
  <2>1. PICK g : Runs(g, 1)
    BY <1>3
  <2>2. IsAt(g)
    BY <1>1, <2>1 DEF Below
  <2> HIDE DEF IsAt
  <2> QED
    BY <2>2
<1>6. \A k \in 1..n : at[k] = body(at, k)
  <2>1. \A k \in DOMAIN tree : at[k] = IF tree[k].leaf THEN [node |-> k, depth |-> 0]
                                      ELSE [at[Below(tree, k, p)] EXCEPT !.depth = @ + 1]
    <3> HIDE DEF at
    <3> QED
      BY <1>5 DEF Below
  <2> QED
    BY <1>1, <2>1
<1> HIDE DEF at
<1>7. \A k \in 1..n : LeafNode(tree[k]) => at[k] \in end /\ at[k].node = k /\ at[k].depth = 0
  <2>1. \A k \in 1..n : LeafNode(tree[k]) => at[k] = [node |-> k, depth |-> 0]
    BY <1>6 DEF LeafNode
  <2>2. \A k \in 1..n : /\ [node |-> k, depth |-> 0] \in end
                        /\ [node |-> k, depth |-> 0].node = k /\ [node |-> k, depth |-> 0].depth = 0
    OBVIOUS
  <2> HIDE DEF end
  <2> QED
    BY <2>1, <2>2
<1>8. ASSUME NEW k \in 1..n, SplitNode(tree[k]), at[Below(tree, k, p)] \in end
      PROVE  /\ at[k] \in end /\ at[k].node = at[Below(tree, k, p)].node
             /\ at[k].depth = at[Below(tree, k, p)].depth + 1
  <2> DEFINE b == at[Below(tree, k, p)]
  <2>1. at[k] = [b EXCEPT !.depth = @ + 1]
    BY <1>6, <1>8 DEF SplitNode
  <2>2. b \in end
    BY <1>8
  <2> HIDE DEF b
  <2>3. [b EXCEPT !.depth = @ + 1] = [node |-> b.node, depth |-> b.depth + 1]
    BY <2>2
  <2> QED
    BY <2>1, <2>2, <2>3 DEF b
<1>9. \A k \in 1..n : at[k] \in end
  <2> DEFINE N == {j \in 0..n : n + 1 - j \in 1..n /\ at[n + 1 - j] \notin end}
  <2>1. SUFFICES ASSUME N # {} PROVE FALSE
    <3>1. ASSUME NEW k \in 1..n, at[k] \notin end PROVE FALSE
      <4>1. n + 1 - k \in 0..n /\ n + 1 - (n + 1 - k) = k
        BY <1>1
      <4> HIDE DEF end
      <4> QED
        BY <2>1, <3>1, <4>1
    <3> QED
      BY <3>1
  <2>2. PICK j \in N : \A i \in N : j <= i
    <3>1. N \in SUBSET Nat
      BY <1>1
    <3> QED
      BY <2>1, <3>1, LeastNatural
  <2>3. PICK k \in 1..n : k = n + 1 - j
    BY <2>2
  <2>4. at[k] \notin end
    BY <2>2, <2>3
  <2>5. SplitNode(tree[k])
    <3> HIDE DEF end
    <3> QED
      BY <1>1, <1>7, <2>4
  <2>6. Below(tree, k, p) \in k + 1..n
    BY <1>1, <2>5 DEF LeafNode, SplitNode
  <2>7. PICK c : c = Below(tree, k, p)
    OBVIOUS
  <2>9. j \in 0..n /\ \A i \in N : j <= i
    BY <2>2
  <2>10. c \in 1..n /\ n + 1 - c \in 0..n /\ ~(j <= n + 1 - c) /\ n + 1 - (n + 1 - c) = c
    <3> HIDE DEF N
    <3> QED
      BY <1>1, <2>3, <2>6, <2>7, <2>9
  <2>8. at[Below(tree, k, p)] \in end
    <3> HIDE DEF end
    <3> QED
      BY <2>7, <2>9, <2>10
  <2> QED
    BY <1>8, <2>4, <2>5, <2>8
<1> HIDE DEF end, body
<1>10. Traversed(tree, p, at)
  <2>1. ASSUME NEW k \in 1..n
        PROVE  /\ at[k] \in end
               /\ LeafNode(tree[k]) => at[k].node = k /\ at[k].depth = 0
               /\ SplitNode(tree[k]) => /\ at[k].node = at[Below(tree, k, p)].node
                                        /\ at[k].depth = at[Below(tree, k, p)].depth + 1
    <3>1. SplitNode(tree[k]) => at[Below(tree, k, p)] \in end
      <4>1. ASSUME SplitNode(tree[k])
            PROVE  at[Below(tree, k, p)] \in end
        <5>1. Below(tree, k, p) \in 1..n
          BY <1>1, <4>1 DEF LeafNode, SplitNode
        <5> QED
          BY <1>9, <5>1
      <4> QED
        BY <4>1
    <3>2. at[k] \in end
      BY <1>9
    <3> HIDE DEF end
    <3> QED
      BY <1>7, <1>8, <3>1, <3>2
  <2> QED
    BY <1>1, <2>1 DEF Traversed, end
<1> QED
  BY <1>4, <1>10

(* A finished tree is complete, and no node is deeper than the limit.      *)
FinishedTree(tree, S, points, most) ==
  tree # <<>> /\ \E R, dep : Routed(tree, <<>>, S, R, dep, points, most)

(* Of a finished tree, the rows that the splits lead to a node are those   *)
(* that the traversal ends below it.                                       *)
LEMMA FinishedIsComplete ==
  ASSUME NEW tree, NEW S, NEW points, NEW most, FinishedTree(tree, S, points, most)
  PROVE  Complete(tree)
<1>1. PICK R, dep : Routed(tree, <<>>, S, R, dep, points, most)
  BY DEF FinishedTree
<1>2. ASSUME NEW k \in DOMAIN tree
      PROVE  \/ LeafNode(tree[k])
             \/ SplitNode(tree[k]) /\ \A side \in Sides : tree[k][side] \in DOMAIN tree /\ k < tree[k][side]
  <2>1. DOMAIN <<>> = {}
    OBVIOUS
  <2> QED
    BY <1>1, <2>1 DEF Routed, Linked
<1> QED
  BY <1>1, <1>2 DEF Complete, FinishedTree, Routed

(* The leaf in which a row ends holds the rows that end there.             *)
LEMMA LeafHoldsItsRows ==
  ASSUME NEW tree, NEW S, NEW points, NEW most \in Nat, FinishedTree(tree, S, points, most)
  PROVE  /\ \A i \in S : F!Leaf(tree, points[i]).depth \in Nat /\ F!Leaf(tree, points[i]).depth <= most
         /\ \A m \in DOMAIN tree : tree[m].leaf =>
              tree[m].size = Cardinality({i \in S : F!Leaf(tree, points[i]).node = m})
<1>1. Complete(tree)
  BY FinishedIsComplete
<1>2. PICK R, dep : Routed(tree, <<>>, S, R, dep, points, most)
  BY DEF FinishedTree
<1> DEFINE n == Len(tree)
<1>3. DOMAIN tree = 1..n /\ n \in Nat /\ n # 0 /\ 1 \in 1..n
  BY <1>1 DEF Complete, IsSeq
<1>4. /\ R[1] = S /\ dep[1] = 0
      /\ \A k \in 1..n :
           /\ R[k] \in SUBSET S /\ dep[k] \in Nat /\ dep[k] <= most
           /\ \/ LeafNode(tree[k]) /\ tree[k].size = Cardinality(R[k])
              \/ SplitNode(tree[k])
           /\ k # 1 => \E j \in 1..n, side \in Sides : SplitNode(tree[j]) /\ tree[j][side] = k
  BY <1>1, <1>2, <1>3 DEF Routed, Complete
<1>5. ASSUME NEW k \in 1..n, SplitNode(tree[k]), NEW side \in Sides
      PROVE  LET c == tree[k][side] IN
             /\ c \in 1..n /\ k < c /\ dep[c] = dep[k] + 1
             /\ R[c] = {i \in R[k] : side = IF F!GoesLeft(tree[k].split, points[i]) THEN "left" ELSE "right"}
  <2>1. ~LeafNode(tree[k]) /\ DOMAIN <<>> = {}
    BY <1>5 DEF LeafNode, SplitNode
  <2>2. Linked(tree, <<>>, R, dep, points, k, side)
    BY <1>2, <1>3, <2>1 DEF Routed
  <2> QED
    BY <1>3, <2>1, <2>2 DEF Linked, SideRows
<1> HIDE DEF n
<1>6. ASSUME NEW i \in S, NEW at, Traversed(tree, points[i], at)
      PROVE  /\ \A k \in 1..n : i \in R[k] => /\ at[1].node = at[k].node
                                             /\ at[1].depth = dep[k] + at[k].depth
             /\ \A k \in 1..n : i \in R[k] => i \in R[at[k].node] /\ LeafNode(tree[at[k].node])
  <2>1. /\ \A k \in 1..n : at[k].node \in 1..n /\ at[k].depth \in Nat
        /\ \A k \in 1..n : LeafNode(tree[k]) => at[k].node = k /\ at[k].depth = 0
    <3>1. \A k \in 1..n : at[k] \in [node : 1..n, depth : Nat]
      BY <1>3, <1>6 DEF Traversed
    <3>2. \A k \in 1..n : LeafNode(tree[k]) => at[k].node = k /\ at[k].depth = 0
      BY <1>3, <1>6 DEF Traversed
    <3>3. \A x \in [node : 1..n, depth : Nat] : x.node \in 1..n /\ x.depth \in Nat
      OBVIOUS
    <3> QED
      BY <3>1, <3>2, <3>3
  <2>2. ASSUME NEW k \in 1..n, SplitNode(tree[k]), i \in R[k]
        PROVE  \E c \in 1..n : /\ c = Below(tree, k, points[i]) /\ k < c /\ i \in R[c] /\ dep[c] = dep[k] + 1
                               /\ at[k].node = at[c].node /\ at[k].depth = at[c].depth + 1
    <3> DEFINE side == IF F!GoesLeft(tree[k].split, points[i]) THEN "left" ELSE "right"
               c == tree[k][side]
    <3>1. side \in Sides /\ c = Below(tree, k, points[i])
      BY DEF Sides, Below
    <3>2. c \in 1..n /\ k < c /\ dep[c] = dep[k] + 1
      BY <1>5, <2>2, <3>1
    <3>3. i \in R[c]
      BY <1>5, <2>2, <3>1
    <3>4. at[k].node = at[c].node /\ at[k].depth = at[c].depth + 1
      BY <1>3, <1>6, <2>2, <3>1 DEF Traversed
    <3> QED
      BY <3>1, <3>2, <3>3, <3>4
  <2>3. ASSUME NEW j \in 1..n, NEW side \in Sides, SplitNode(tree[j]), NEW k \in 1..n, tree[j][side] = k, i \in R[k]
        PROVE  j < k /\ i \in R[j] /\ Below(tree, j, points[i]) = k
    <3>1. /\ j < k /\ i \in R[j]
          /\ side = IF F!GoesLeft(tree[j].split, points[i]) THEN "left" ELSE "right"
      BY <1>5, <2>3
    <3> QED
      BY <2>3, <3>1 DEF Below
  <2>4. \A k \in 1..n : i \in R[k] => at[1].node = at[k].node /\ at[1].depth = dep[k] + at[k].depth
    <3> DEFINE N == {k \in 1..n : i \in R[k] /\ ~(at[1].node = at[k].node /\ at[1].depth = dep[k] + at[k].depth)}
    <3>1. SUFFICES ASSUME N # {} PROVE FALSE
      OBVIOUS
    <3>2. PICK k \in N : \A j \in N : k <= j
      <4>1. N \in SUBSET Nat
        OBVIOUS
      <4> QED
        BY <3>1, <4>1, LeastNatural
    <3>3. k \in 1..n /\ i \in R[k] /\ ~(at[1].node = at[k].node /\ at[1].depth = dep[k] + at[k].depth)
      BY <3>2
    <3>4. k # 1
      BY <1>3, <1>4, <2>1, <3>3
    <3>5. PICK j \in 1..n, side \in Sides : SplitNode(tree[j]) /\ tree[j][side] = k
      BY <1>4, <3>3, <3>4
    <3>6. j < k /\ i \in R[j] /\ Below(tree, j, points[i]) = k
      BY <2>3, <3>3, <3>5
    <3>7. ~(k <= j)
      BY <3>3, <3>5, <3>6
    <3>8. at[1].node = at[j].node /\ at[1].depth = dep[j] + at[j].depth
      BY <3>2, <3>6, <3>7
    <3>9. at[j].node = at[k].node /\ at[j].depth = at[k].depth + 1 /\ dep[k] = dep[j] + 1
      BY <2>2, <3>5, <3>6
    <3>10. dep[j] \in Nat /\ at[k].depth \in Nat
      BY <1>4, <2>1, <3>3
    <3> QED
      BY <3>3, <3>8, <3>9, <3>10
  <2>5. \A k \in 1..n : i \in R[k] => i \in R[at[k].node] /\ LeafNode(tree[at[k].node])
    <3> DEFINE N == {j \in 0..n : n - j \in 1..n /\ i \in R[n - j] /\ ~(i \in R[at[n - j].node] /\ LeafNode(tree[at[n - j].node]))}
    <3>1. SUFFICES ASSUME N # {} PROVE FALSE
      <4>1. ASSUME NEW k \in 1..n, i \in R[k], ~(i \in R[at[k].node] /\ LeafNode(tree[at[k].node]))
            PROVE  FALSE
        <5>1. n - k \in 0..n /\ n - (n - k) = k
          BY <1>3
        <5> QED
          BY <3>1, <4>1, <5>1
      <4> QED
        BY <4>1
    <3>2. PICK j \in N : \A l \in N : j <= l
      <4>1. N \in SUBSET Nat
        OBVIOUS
      <4> QED
        BY <3>1, <4>1, LeastNatural
    <3>3. PICK k \in 1..n : k = n - j
      BY <3>2
    <3>4. i \in R[k] /\ ~(i \in R[at[k].node] /\ LeafNode(tree[at[k].node])) /\ j \in 0..n
      BY <3>2, <3>3
    <3>5. SplitNode(tree[k])
      BY <1>4, <2>1, <3>4
    <3>6. PICK c \in 1..n : k < c /\ i \in R[c] /\ at[k].node = at[c].node
      BY <2>2, <3>4, <3>5
    <3>7. n - c \in 0..n /\ n - (n - c) = c /\ ~(j <= n - c)
      BY <1>3, <3>3, <3>4, <3>6
    <3>8. n - c \notin N
      BY <3>2, <3>7
    <3> QED
      BY <3>4, <3>6, <3>7, <3>8
  <2> QED
    BY <2>4, <2>5
<1>7. ASSUME NEW i \in S
      PROVE  /\ F!Leaf(tree, points[i]).depth \in Nat /\ F!Leaf(tree, points[i]).depth <= most
             /\ F!Leaf(tree, points[i]).node \in 1..n
             /\ \A m \in 1..n : LeafNode(tree[m]) => (F!Leaf(tree, points[i]).node = m <=> i \in R[m])
  <2>1. PICK at : F!Leaf(tree, points[i]) = at[1] /\ Traversed(tree, points[i], at)
    BY <1>1, TraversalEnds
  <2>2. \A k \in 1..n : at[k] \in [node : 1..n, depth : Nat] /\ (LeafNode(tree[k]) => at[k].node = k /\ at[k].depth = 0)
    BY <1>3, <2>1 DEF Traversed
  <2>3. \A x \in [node : 1..n, depth : Nat] : x.node \in 1..n /\ x.depth \in Nat
    OBVIOUS
  <2>4. i \in R[1]
    BY <1>4
  <2>5. at[1].node \in 1..n /\ at[1].depth \in Nat
    BY <1>3, <2>2, <2>3
  <2>6. i \in R[at[1].node] /\ LeafNode(tree[at[1].node])
    BY <1>3, <1>6, <2>1, <2>4
  <2>7. at[1].depth = dep[at[1].node] + 0
    BY <1>6, <2>1, <2>2, <2>5, <2>6
  <2>8. at[1].depth <= most
    BY <1>4, <2>5, <2>7
  <2>9. \A m \in 1..n : LeafNode(tree[m]) => (at[1].node = m <=> i \in R[m])
    BY <1>6, <2>1, <2>2, <2>6
  <2> QED
    BY <2>1, <2>5, <2>8, <2>9
<1>8. ASSUME NEW m \in 1..n, tree[m].leaf
      PROVE  tree[m].size = Cardinality({i \in S : F!Leaf(tree, points[i]).node = m})
  <2>1. LeafNode(tree[m]) /\ tree[m].size = Cardinality(R[m])
    BY <1>4, <1>8 DEF LeafNode, SplitNode
  <2>2. R[m] = {i \in S : F!Leaf(tree, points[i]).node = m}
    BY <1>4, <1>7, <2>1
  <2> QED
    BY <2>1, <2>2
<1> QED
  BY <1>3, <1>7, <1>8


(* Half of a number, rounded up, is less.                                  *)
LEMMA DepthLimit ==
  ASSUME F!ActualSampleSize \in Nat \ {0}
  PROVE  F!MaxDepth \in Nat
<1> DEFINE size == F!ActualSampleSize
           Runs(g, m) == g = [n \in 1..m |-> IF n = 1 THEN 0 ELSE 1 + g[(n + 1) \div 2]]
           log2 == CHOOSE g : Runs(g, size)
<1>1. F!MaxDepth = log2[size] + 1
  BY DEF F!MaxDepth
<1>2. \A n \in Nat : n > 1 => (n + 1) \div 2 \in 1..n - 1
  OBVIOUS
<1>3. ASSUME NEW m \in Nat, NEW g, Runs(g, m)
      PROVE  \E h : Runs(h, m + 1)
  <2> DEFINE h == [n \in 1..m + 1 |-> IF n <= m THEN g[n] ELSE IF n = 1 THEN 0 ELSE 1 + g[(n + 1) \div 2]]
  <2>1. \A n \in 1..m : h[n] = g[n]
    OBVIOUS
  <2>2. ASSUME NEW n \in 1..m + 1
        PROVE  h[n] = IF n = 1 THEN 0 ELSE 1 + h[(n + 1) \div 2]
    <3>1. n > 1 => (n + 1) \div 2 \in 1..m
      BY <1>2
    <3>2. n > 1 => h[(n + 1) \div 2] = g[(n + 1) \div 2]
      BY <2>1, <3>1
    <3>3. CASE n <= m
      <4>1. n \in 1..m /\ h[n] = g[n]
        BY <2>1, <3>3
      <4>2. g[n] = IF n = 1 THEN 0 ELSE 1 + g[(n + 1) \div 2]
        BY <1>3, <4>1
      <4> HIDE DEF h
      <4> QED
        BY <3>2, <4>1, <4>2
    <3>4. CASE ~(n <= m)
      <4>1. h[n] = IF n = 1 THEN 0 ELSE 1 + g[(n + 1) \div 2]
        BY <3>4
      <4> HIDE DEF h
      <4> QED
        BY <3>2, <4>1
    <3> QED
      BY <3>3, <3>4
  <2>3. h = [n \in 1..m + 1 |-> h[n]]
    OBVIOUS
  <2> HIDE DEF h
  <2>4. Runs(h, m + 1)
    BY <2>2, <2>3
  <2> QED
    BY <2>4
<1>4. ASSUME NEW m \in Nat PROVE \E g : Runs(g, m)
  <2> DEFINE N == {k \in Nat : ~\E g : Runs(g, k)}
  <2>1. SUFFICES ASSUME N # {} PROVE FALSE
    BY <2>1
  <2>2. PICK k \in N : \A j \in N : k <= j
    BY <2>1, LeastNatural
  <2>3. k # 0
    <3>1. Runs([n \in 1..0 |-> 0], 0)
      OBVIOUS
    <3> HIDE DEF Runs
    <3> QED
      BY <3>1
  <2> HIDE DEF Runs
  <2>4. k - 1 \in Nat /\ ~(k <= k - 1) /\ k - 1 + 1 = k
    BY <2>2, <2>3
  <2>5. PICK g : Runs(g, k - 1)
    BY <2>2, <2>4
  <2> QED
    BY <1>3, <2>2, <2>4, <2>5
<1>5. Runs(log2, size)
  <2> HIDE DEF Runs, size
  <2>1. size \in Nat
    BY DEF size
  <2> QED
    BY <1>4, <2>1
<1>6. \A n \in 1..size : log2[n] = IF n = 1 THEN 0 ELSE 1 + log2[(n + 1) \div 2]
  <2> HIDE DEF log2, size
  <2> QED
    BY <1>5
<1> HIDE DEF log2, Runs
<1>7. \A n \in 1..size : log2[n] \in Nat
  <2> DEFINE N == {n \in 1..size : log2[n] \notin Nat}
  <2>1. SUFFICES ASSUME N # {} PROVE FALSE
    OBVIOUS
  <2>2. PICK k \in N : \A j \in N : k <= j
    <3>1. N \in SUBSET Nat
      OBVIOUS
    <3> QED
      BY <2>1, <3>1, LeastNatural
  <2>3. k # 1
    BY <1>6, <2>2
  <2>4. (k + 1) \div 2 \in 1..k - 1
    BY <1>2, <2>2, <2>3
  <2>5. (k + 1) \div 2 \in 1..size /\ ~(k <= (k + 1) \div 2)
    BY <2>2, <2>4
  <2>6. log2[(k + 1) \div 2] \in Nat
    BY <2>2, <2>5
  <2> QED
    BY <1>6, <2>2, <2>3, <2>6
<1>8. size \in 1..size
  OBVIOUS
<1> QED
  BY <1>1, <1>7, <1>8

(* There is a cumulative weight for every point.                           *)
LEMMA CumulativeWeights ==
  ASSUME NEW n \in Nat, NEW weight
  PROVE  \E g : g = [i \in 1..n |-> IF i = 1 THEN weight[1] ELSE F!Add(g[i - 1], weight[i])]
<1> DEFINE Runs(g, m) == g = [i \in 1..m |-> IF i = 1 THEN weight[1] ELSE F!Add(g[i - 1], weight[i])]
<1>1. ASSUME NEW m \in Nat, NEW g, Runs(g, m)
      PROVE  \E h : Runs(h, m + 1)
  <2> DEFINE h == [i \in 1..m + 1 |-> IF i <= m THEN g[i] ELSE IF i = 1 THEN weight[1] ELSE F!Add(g[i - 1], weight[i])]
  <2>1. \A i \in 1..m : h[i] = g[i]
    OBVIOUS
  <2>2. ASSUME NEW i \in 1..m + 1
        PROVE  h[i] = IF i = 1 THEN weight[1] ELSE F!Add(h[i - 1], weight[i])
    <3>1. i # 1 => i - 1 \in 1..m /\ h[i - 1] = g[i - 1]
      BY <2>1
    <3>2. CASE i <= m
      <4>1. i \in 1..m /\ h[i] = g[i]
        BY <2>1, <3>2
      <4>2. g[i] = IF i = 1 THEN weight[1] ELSE F!Add(g[i - 1], weight[i])
        BY <1>1, <4>1
      <4> HIDE DEF h
      <4> QED
        BY <3>1, <4>1, <4>2
    <3>3. CASE ~(i <= m)
      <4>1. h[i] = IF i = 1 THEN weight[1] ELSE F!Add(g[i - 1], weight[i])
        BY <3>3
      <4> HIDE DEF h
      <4> QED
        BY <3>1, <4>1
    <3> QED
      BY <3>2, <3>3
  <2>3. h = [i \in 1..m + 1 |-> h[i]]
    OBVIOUS
  <2> HIDE DEF h
  <2>4. Runs(h, m + 1)
    BY <2>2, <2>3
  <2> QED
    BY <2>4
<1>2. \E g : Runs(g, n)
  <2> DEFINE N == {k \in Nat : ~\E g : Runs(g, k)}
  <2>1. SUFFICES ASSUME N # {} PROVE FALSE
    BY <2>1
  <2>2. PICK k \in N : \A j \in N : k <= j
    BY <2>1, LeastNatural
  <2>3. k # 0
    <3>1. Runs([i \in 1..0 |-> 0], 0)
      OBVIOUS
    <3> HIDE DEF Runs
    <3> QED
      BY <3>1
  <2> HIDE DEF Runs
  <2>4. k - 1 \in Nat /\ ~(k <= k - 1) /\ k - 1 + 1 = k
    BY <2>2, <2>3
  <2>5. PICK g : Runs(g, k - 1)
    BY <2>2, <2>4
  <2> QED
    BY <1>1, <2>2, <2>4, <2>5
<1> QED
  BY <1>2

(* The size of a set, as IsolationForest extends it and as this module does. *)
LEMMA SameCardinalityInForest ==
  \A S : F!Cardinality(S) = Cardinality(S)
<1> QED
  BY DEF F!Cardinality, Cardinality

(* Min in the forest is Min.                                               *)
LEMMA SameLeastInForest ==
  \A S : F!Min(S) = Min(S)
<1> QED
  BY DEF F!Min, Min


(* The finite rows have the numbers 1, 2, ... in their order, and the      *)
(* points are these rows by number.                                        *)
LEMMA PointsNumbered ==
  ASSUME NEW n \in Nat, DOMAIN rows = 1..n
  PROVE  LET m == Cardinality(F!FiniteRows) IN
         /\ m \in Nat /\ m <= n /\ IsFiniteSet(F!FiniteRows)
         /\ DOMAIN F!Points = 1..m /\ Len(F!Points) = m /\ (F!Points = <<>> <=> m = 0)
         /\ \A i \in F!FiniteRows : F!Position(i) \in 1..m /\ F!Points[F!Position(i)] = rows[i]
         /\ \A k \in 1..m : \E i \in F!FiniteRows : F!Position(i) = k
         /\ \A i, j \in F!FiniteRows : F!Position(i) = F!Position(j) => i = j
<1> DEFINE S == F!FiniteRows
           m == Cardinality(S)
           R == {e \in S \X S : e[1] < e[2]}
<1>1. S \in SUBSET (1..n) /\ IsFiniteSet(S)
  <2>1. S \in SUBSET (1..n)
    BY DEF F!FiniteRows
  <2>2. IsFiniteSet(1..n)
    BY FS_Interval
  <2> HIDE DEF S
  <2> QED
    BY <2>1, <2>2, FS_Subset
<1> HIDE DEF S
<1>2. m \in Nat /\ m <= n
  <2>1. IsFiniteSet(1..n) /\ Cardinality(1..n) = n
    BY FS_Interval
  <2>2. Cardinality(S) <= Cardinality(1..n)
    BY <1>1, <2>1, FS_Subset
  <2> QED
    BY <1>1, <2>1, <2>2, FS_CardinalityType
<1>3. \A a, b \in S : <<a, b>> \in R <=> a < b
  OBVIOUS
<1>4. R \in SUBSET (S \X S) /\ \A a \in S : a \in Nat
  BY <1>1
<1> HIDE DEF R
<1>5. /\ \A b \in S : Number(S, R, b) \in 1..m
      /\ \A k \in 1..m : \E b \in S : Number(S, R, b) = k
      /\ \A b, c \in S : <<b, c>> \in R => Number(S, R, b) < Number(S, R, c)
  <2>1. ASSUME NEW a \in S, NEW b \in S
        PROVE  a = b \/ <<a, b>> \in R \/ <<b, a>> \in R
    <3>1. a \in Nat /\ b \in Nat
      BY <1>4
    <3>2. a = b \/ a < b \/ b < a
      BY <3>1
    <3> QED
      BY <1>3, <3>2
  <2>2. \A a, b \in S : <<a, b>> \in R => <<b, a>> \notin R
    BY <1>3, <1>4
  <2>3. \A a, b, c \in S : <<a, b>> \in R /\ <<b, c>> \in R => <<a, c>> \in R
    BY <1>3, <1>4
  <2> QED
    BY <1>1, <1>4, <2>1, <2>2, <2>3, NumberedInOrder
<1>6. ASSUME NEW b \in S
      PROVE  F!Position(b) = Number(S, R, b)
  <2> DEFINE B == {a \in S : <<a, b>> \in R}
  <2>1. {a \in S : a <= b} = B \cup {b} /\ b \notin B /\ B \in SUBSET S
    BY <1>3, <1>4
  <2>2. IsFiniteSet(B)
    BY <1>1, <2>1, FS_Subset
  <2>3. Cardinality(B \cup {b}) = Cardinality(B) + 1
    BY <2>1, <2>2, FS_AddElement
  <2>4. F!Position(b) = Cardinality({a \in S : a <= b})
    BY SameCardinalityInForest DEF F!Position, S
  <2> QED
    BY <2>1, <2>3, <2>4 DEF Number
<1>7. \A i, j \in S : F!Position(i) = F!Position(j) => i = j
  <2>1. ASSUME NEW i \in S, NEW j \in S, F!Position(i) = F!Position(j)
        PROVE  i = j
    <3>2. Number(S, R, i) = Number(S, R, j) /\ Number(S, R, i) \in 1..m
      BY <1>5, <1>6, <2>1
    <3>3. ~(Number(S, R, i) < Number(S, R, j)) /\ ~(Number(S, R, j) < Number(S, R, i))
      BY <1>2, <3>2
    <3>1. ~(i < j) /\ ~(j < i)
      BY <1>3, <1>5, <3>3
    <3> QED
      BY <1>4, <3>1
  <2> QED
    BY <2>1
<1>8. \A i \in S : F!Position(i) \in 1..m
  BY <1>5, <1>6
<1>9. \A k \in 1..m : \E i \in S : F!Position(i) = k
  BY <1>5, <1>6
<1>10. DOMAIN F!Points = 1..m /\ \A k \in 1..m : F!Points[k] = rows[CHOOSE i \in S : F!Position(i) = k]
  BY SameCardinalityInForest DEF F!Points, S
<1>11. ASSUME NEW i \in S
       PROVE  F!Points[F!Position(i)] = rows[i]
  <2> DEFINE j == CHOOSE j \in S : F!Position(j) = F!Position(i)
  <2>1. j \in S /\ F!Position(j) = F!Position(i)
    OBVIOUS
  <2>2. j = i
    BY <1>7, <2>1
  <2>3. F!Points[F!Position(i)] = rows[j]
    BY <1>8, <1>10
  <2> QED
    BY <2>2, <2>3
<1>12. Len(F!Points) = m /\ (F!Points = <<>> <=> m = 0)
  <2> DEFINE point(k) == rows[CHOOSE i \in S : F!Position(i) = k]
  <2>1. F!Points = [k \in 1..m |-> point(k)]
    BY SameCardinalityInForest DEF F!Points, S
  <2> HIDE DEF point, m
  <2>2. [k \in 1..m |-> point(k)] \in Seq({point(k) : k \in 1..m}) /\ Len([k \in 1..m |-> point(k)]) = m
    <3> DEFINE P == {point(k) : k \in 1..m}
    <3>1. \A k \in 1..m : point(k) \in P
      OBVIOUS
    <3> HIDE DEF P
    <3>2. [k \in 1..m |-> point(k)] \in Seq(P) /\ Len([k \in 1..m |-> point(k)]) = m
      BY <1>2, <3>1
    <3> QED
      BY <3>2 DEF P
  <2>3. F!Points \in Seq({point(k) : k \in 1..m}) /\ Len(F!Points) = m
    BY <2>1, <2>2
  <2> QED
    BY <1>2, <2>3, EmptySeq
<1> QED
  BY <1>1, <1>2, <1>7, <1>8, <1>9, <1>10, <1>11, <1>12 DEF S, m


(* What the steps of the forest leave alone.                               *)
LEMMA ForestIsStable ==
  ASSUME UNCHANGED <<rows, call>>
  PROVE  /\ F!FiniteRows' = F!FiniteRows /\ F!Points' = F!Points
         /\ F!ActualSampleSize' = F!ActualSampleSize /\ F!MaxDepth' = F!MaxDepth
<1>1. F!FiniteRows' = F!FiniteRows
  BY DEF F!FiniteRows, F!NonFinite, F!NumericFeatures, F!Features
<1>2. F!Points' = F!Points
  BY <1>1 DEF F!Points, F!Position
<1>3. F!ActualSampleSize' = F!ActualSampleSize
  BY <1>2 DEF F!ActualSampleSize
<1>4. F!MaxDepth' = F!MaxDepth
  BY <1>3 DEF F!MaxDepth
<1> QED
  BY <1>1, <1>2, <1>3, <1>4

\* The root, which holds the sample.
Root == <<[rows |-> {}, depth |-> 0, parent |-> 0, side |-> "root"]>>

\* What the arguments were checked for.
Admitted(c) ==
  /\ c.sampleSize \in Nat \ {0}
  /\ c.contamination \in Int \X (Nat \ {0})
  /\ c.contamination[1] >= 0 /\ 2 * c.contamination[1] <= c.contamination[2]

InForest(t) ==
  /\ F!MaxDepth \in Nat /\ t.sample \subseteq DOMAIN F!Points
  /\ FinishedTree(t.nodes, t.sample, F!Points, F!MaxDepth)

BuildFits ==
  /\ step # "score" => F!Points # <<>>
  /\ step = "draw" => nodes = <<>> /\ pending = Root /\ DOMAIN cumulative = DOMAIN F!Points
  /\ step = "build" => \E R, dep : Routed(nodes, pending, sample, R, dep, F!Points, F!MaxDepth)

\* What the merge of the two kinds of row makes of the forest's scores.
ForestScores == [k \in DOMAIN F!Points |-> F!ScoreMixed(F!Points[k])]

ScoreOf(i) == IF F!NonFinite(rows[i]) THEN F!AnomalyScore ELSE ForestScores[F!Position(i)]

Merged ==
  /\ DOMAIN scores = DOMAIN rows /\ DOMAIN flags = DOMAIN rows
  /\ \A i \in DOMAIN rows :
       /\ scores[i] = ScoreOf(i)
       /\ flags[i] = (F!NonFinite(rows[i]) \/ F!IsAnomaly(scores[i], F!ComputeThreshold(ForestScores)))

ForestFits ==
  /\ stage \in {"bind", "scan"} => F!ForestIdle
  /\ stage \in {"scan", "run", "done"} => Admitted(call)
  /\ stage = "run" => BuildFits
  /\ stage = "done" => Merged
  /\ sample \subseteq DOMAIN F!Points
  /\ IsSeq(trees) /\ \A t \in Range(trees) : InForest(t)

ForestInv == IF given.fn = "forest" THEN ForestFits ELSE trees = <<>>

Numbered == \E n \in Nat : DOMAIN rows = 1..n

(* The rows are numbered by the scan.                                      *)
LEMMA RowsNumbered ==
  RowsInv => Numbered
<1>1. SUFFICES ASSUME RowsInv PROVE Numbered
  OBVIOUS
<1>2. ids \in Seq(Nat) /\ rows = [i \in DOMAIN ids |-> table[ids[i]]]
  BY <1>1 DEF RowsInv
<1>3. DOMAIN ids = 1..Len(ids) /\ Len(ids) \in Nat
  BY <1>2, LenProperties
<1>4. DOMAIN rows = DOMAIN ids
  BY <1>2
<1> QED
  BY <1>3, <1>4 DEF Numbered

(* The limit of the depth is a number when there are points.               *)
LEMMA LimitIsNumber ==
  ASSUME Numbered, Admitted(call), F!Points # <<>>
  PROVE  F!MaxDepth \in Nat /\ F!ActualSampleSize \in Nat \ {0}
<1>1. Len(F!Points) \in Nat /\ Len(F!Points) # 0
  BY PointsNumbered DEF Numbered
<1>2. call.sampleSize \in Nat /\ call.sampleSize # 0
  BY DEF Admitted
<1>3. F!ActualSampleSize \in {call.sampleSize, Len(F!Points)}
  <2>1. {call.sampleSize, Len(F!Points)} \in SUBSET Nat
    BY <1>1, <1>2
  <2>2. F!ActualSampleSize = Min({call.sampleSize, Len(F!Points)})
    BY SameLeastInForest DEF F!ActualSampleSize
  <2> QED
    BY <2>1, <2>2, MinIsLeast
<1>4. F!ActualSampleSize \in Nat \ {0}
  BY <1>1, <1>2, <1>3
<1> QED
  BY <1>4, DepthLimit

(* A tree before its first node.                                           *)
LEMMA RootFits ==
  ASSUME NEW S, NEW points, NEW most
  PROVE  \E R, dep : Routed(<<>>, Root, S, R, dep, points, most)
<1>1. IsSeq(<<>>) /\ IsSeq(Root) /\ DOMAIN <<>> = {}
  BY RangeOfShort DEF Root
<1>2. DOMAIN Root = {1} /\ Len(Root) = 1 /\ Root[1].side = "root" /\ Root[1].depth = 0
  BY DEF Root
<1> QED
  BY <1>1, <1>2 DEF Routed

(* A tree begins at its root, with a sample or none yet.                   *)
LEMMA StartTreeFits ==
  ASSUME Numbered, ForestFits, stage = "run", F!StartTree, UNCHANGED <<rows, call, given>>
  PROVE  ForestFits'
<1>1. /\ Admitted(call) /\ BuildFits /\ step = "tree" /\ F!Points # <<>>
      /\ IsSeq(trees) /\ \A t \in Range(trees) : InForest(t)
  BY DEF ForestFits, BuildFits, F!StartTree
<1>2. /\ nodes' = <<>> /\ pending' = Root /\ stage' = stage /\ trees' = trees
      /\ F!StartWeighted \/ F!StartUniform
  BY DEF F!StartTree, Root
<1>3. F!Points' = F!Points /\ F!MaxDepth' = F!MaxDepth
  BY ForestIsStable
<1>4. PICK n \in Nat : DOMAIN F!Points = 1..n
  BY PointsNumbered DEF Numbered
<1>5. sample' \subseteq DOMAIN F!Points /\ step' \in {"draw", "build"} /\ (step' = "draw" => DOMAIN cumulative' = DOMAIN F!Points)
  <2>1. CASE F!StartWeighted
    <3> DEFINE IsCum(g) == g = [i \in DOMAIN F!Points |-> IF i = 1 THEN F!Weight(1) ELSE F!Add(g[i - 1], F!Weight(i))]
               weight == [i \in 1..n |-> F!Weight(i)]
    <3>1. \A i \in 1..n : weight[i] = F!Weight(i)
      OBVIOUS
    <3> HIDE DEF weight
    <3>2. PICK g : g = [i \in 1..n |-> IF i = 1 THEN weight[1] ELSE F!Add(g[i - 1], weight[i])]
      BY CumulativeWeights
    <3>3. IsCum(g)
      BY <1>4, <3>1, <3>2
    <3>4. sample' = {} /\ cumulative' = CHOOSE h : IsCum(h)
      BY <2>1 DEF F!StartWeighted
    <3>5. step' \in {"draw", "build"}
      BY <2>1 DEF F!StartWeighted
    <3>6. IsCum(cumulative')
      <4> HIDE DEF IsCum
      <4> QED
        BY <3>3, <3>4
    <3>7. DOMAIN cumulative' = DOMAIN F!Points
      BY <3>6
    <3> QED
      BY <3>4, <3>5, <3>7
  <2>2. CASE F!StartUniform
    BY <2>2 DEF F!StartUniform, F!kSubset
  <2> QED
    BY <1>2, <2>1, <2>2
<1>6. \E R, dep : Routed(nodes', pending', sample', R, dep, F!Points', F!MaxDepth')
  BY <1>2, RootFits DEF Root
<1>7. BuildFits'
  BY <1>1, <1>2, <1>3, <1>5, <1>6 DEF BuildFits, Root
<1>8. Admitted(call') /\ IsSeq(trees') /\ \A t \in Range(trees') : InForest(t)'
  <2>1. \A t \in Range(trees) : InForest(t)'
    BY <1>1, <1>3 DEF InForest
  <2>2. call' = call
    OBVIOUS
  <2> QED
    BY <1>1, <1>2, <2>1, <2>2
<1>9. stage' = "run"
  BY <1>2
<1> QED
  BY <1>3, <1>5, <1>7, <1>8, <1>9 DEF ForestFits

(* A row that is drawn is one of the points.                               *)
LEMMA DrawFits ==
  ASSUME Numbered, ForestFits, stage = "run", NEW t, F!Draw(t), UNCHANGED <<rows, call, given>>
  PROVE  ForestFits'
<1>1. /\ Admitted(call) /\ BuildFits /\ step = "draw" /\ F!Points # <<>> /\ sample \subseteq DOMAIN F!Points
      /\ nodes = <<>> /\ pending = Root /\ DOMAIN cumulative = DOMAIN F!Points
      /\ IsSeq(trees) /\ \A u \in Range(trees) : InForest(u)
  BY DEF ForestFits, BuildFits, F!Draw
<1>2. nodes' = nodes /\ pending' = pending /\ stage' = "run" /\ trees' = trees
  BY DEF F!Draw
<1>3. F!Points' = F!Points /\ F!MaxDepth' = F!MaxDepth
  BY ForestIsStable
<1>4. /\ sample' \subseteq DOMAIN F!Points /\ step' \in {"draw", "build"}
      /\ DOMAIN cumulative' = DOMAIN F!Points
  <2>1. PICK chosen, weights :
          \/ step' = "build" /\ UNCHANGED <<sample, cumulative>>
          \/ /\ F!Usable(chosen) /\ sample' = sample \cup {chosen}
             /\ DOMAIN weights = DOMAIN cumulative /\ cumulative' = weights
             /\ step' \in {"draw", "build"}
          \/ UNCHANGED <<step, sample, cumulative>>
    <3> DEFINE found  == F!SearchTarget(t)
               chosen == IF found \in sample /\ ~F!NoneUsable THEN F!Nearest(found) ELSE found
               after  == [i \in DOMAIN cumulative |->
                            IF i < chosen THEN cumulative[i] ELSE F!Subtract(cumulative[i], F!Weight(chosen))]
    <3>1. \/ step' = "build" /\ UNCHANGED <<sample, cumulative>>
          \/ /\ F!Usable(chosen) /\ sample' = sample \cup {chosen} /\ cumulative' = after
             /\ step' \in {"draw", "build"}
          \/ UNCHANGED <<step, sample, cumulative>>
      BY DEF F!Draw
    <3>2. DOMAIN after = DOMAIN cumulative
      OBVIOUS
    <3>3. PICK c, a : c = chosen /\ a = after
      OBVIOUS
    <3>4. F!Usable(chosen) => F!Usable(c)
      BY <3>3 DEF F!Usable
    <3> HIDE DEF chosen, after
    <3> QED
      BY <3>1, <3>2, <3>3, <3>4
  <2>2. F!Usable(chosen) => chosen \in DOMAIN cumulative
    BY DEF F!Usable
  <2> QED
    BY <1>1, <2>1, <2>2
<1>5. \E R, dep : Routed(nodes', pending', sample', R, dep, F!Points', F!MaxDepth')
  BY <1>1, <1>2, RootFits
<1>6. BuildFits'
  BY <1>1, <1>2, <1>3, <1>4, <1>5 DEF BuildFits, Root
<1>7. Admitted(call') /\ IsSeq(trees') /\ \A u \in Range(trees') : InForest(u)'
  <2>1. \A u \in Range(trees) : InForest(u)'
    BY <1>1, <1>3 DEF InForest
  <2>2. call' = call
    OBVIOUS
  <2> QED
    BY <1>1, <1>2, <2>1, <2>2
<1> QED
  BY <1>2, <1>3, <1>4, <1>6, <1>7 DEF ForestFits

(* The next node.                                                          *)
LEMMA BuildNodeFits ==
  ASSUME Numbered, ForestFits, stage = "run", F!BuildLeaf \/ F!BuildSplit, UNCHANGED <<rows, call, given>>
  PROVE  ForestFits'
<1> DEFINE w == Head(pending)
           S == IF w.side = "root" THEN sample ELSE w.rows
           grown(node) == Append(IF w.side = "root" THEN nodes
                                 ELSE [nodes EXCEPT ![w.parent][w.side] = Len(nodes) + 1],
                                 node)
<1>1. /\ Admitted(call) /\ BuildFits /\ step = "build" /\ F!Points # <<>> /\ sample \subseteq DOMAIN F!Points
      /\ pending # <<>>
      /\ IsSeq(trees) /\ \A u \in Range(trees) : InForest(u)
  BY DEF ForestFits, BuildFits, F!BuildLeaf, F!BuildSplit
<1>2. step' = step /\ stage' = "run" /\ trees' = trees /\ sample' = sample
  BY DEF F!BuildLeaf, F!BuildSplit
<1>3. F!Points' = F!Points /\ F!MaxDepth' = F!MaxDepth
  BY ForestIsStable
<1>4. F!MaxDepth \in Nat
  BY <1>1, LimitIsNumber
<1>5. F!Current = w /\ F!CurrentRows = S
  BY DEF F!Current, F!CurrentRows
<1>7. PICK R, dep : Routed(nodes, pending, sample, R, dep, F!Points, F!MaxDepth)
  BY <1>1 DEF BuildFits
<1>11. w.depth \in Int
  <2>1. IsSeq(pending) /\ 1 \in DOMAIN pending /\ w = pending[1]
    BY <1>1, <1>7 DEF Routed, IsSeq
  <2>2. CASE nodes = <<>>
    BY <1>7, <2>1, <2>2 DEF Routed
  <2>3. CASE nodes # <<>>
    <3>1. Waits(w, nodes, R, dep, F!Points, F!MaxDepth)
      BY <1>7, <2>1, <2>3 DEF Routed
    <3>2. w.parent \in DOMAIN nodes /\ w.depth = dep[w.parent] + 1
      BY <3>1 DEF Waits
    <3>3. dep[w.parent] \in Nat
      BY <1>7, <3>2 DEF Routed
    <3> QED
      BY <3>2, <3>3
  <2> QED
    BY <2>2, <2>3
<1>6. \E node, new : /\ Pushes(node, new, Len(nodes) + 1, S, w.depth, F!Points, F!MaxDepth)
                     /\ nodes' = grown(node) /\ pending' = new \o Tail(pending)
  <2>1. CASE F!BuildLeaf
    <3> DEFINE node == [leaf |-> TRUE, size |-> Cardinality(S)]
    <3>1. nodes' = grown(node) /\ pending' = Tail(pending)
      BY <1>5, <2>1, SameCardinalityInForest DEF F!BuildLeaf, F!Push
    <3>2. LeafNode(node) /\ node.size = Cardinality(S)
      BY DEF LeafNode
    <3>3. Tail(pending) = <<>> \o Tail(pending)
      <4>1. IsSeq(pending)
        BY <1>1 DEF BuildFits, Routed
      <4>2. Tail(pending) \in Seq(Range(pending))
        BY <1>1, <4>1, HeadTailProperties DEF IsSeq
      <4> QED
        BY <4>2
    <3> QED
      BY <3>1, <3>2, <3>3 DEF Pushes
  <2>2. CASE F!BuildSplit
    <3>1. PICK sp :
            LET left == F!LeftRows(F!CurrentRows, sp)
                child(X, side) ==
                  [rows |-> X, depth |-> F!Current.depth + 1, parent |-> Len(nodes) + 1, side |-> side]
            IN  /\ F!Push([leaf |-> FALSE, split |-> sp, left |-> 0, right |-> 0])
                /\ pending' = <<child(left, "left"), child(F!CurrentRows \ left, "right")>> \o Tail(pending)
      BY <2>2 DEF F!BuildSplit
    <3> DEFINE node == [leaf |-> FALSE, split |-> sp, left |-> 0, right |-> 0]
               new == <<Child(F!Points, node, Len(nodes) + 1, S, w.depth + 1, "left"),
                        Child(F!Points, node, Len(nodes) + 1, S, w.depth + 1, "right")>>
    <3>2. nodes' = grown(node)
      BY <1>5, <3>1 DEF F!Push
    <3>3. /\ SideRows(F!Points, sp, S, "left") = F!LeftRows(S, sp)
          /\ SideRows(F!Points, sp, S, "right") = S \ F!LeftRows(S, sp)
      BY DEF SideRows, F!LeftRows
    <3>4. node.split = sp /\ SplitNode(node) /\ node.left = 0 /\ node.right = 0
      BY DEF SplitNode
    <3>5. pending' = new \o Tail(pending)
      BY <1>5, <3>1, <3>3, <3>4 DEF Child
    <3>6. w.depth < F!MaxDepth
      <4>1. ~(w.depth >= F!MaxDepth)
        BY <1>5, <2>2 DEF F!BuildSplit, F!MustBeLeaf
      <4>2. w.depth \in Int
        BY <1>11
      <4> QED
        BY <1>4, <4>1, <4>2
    <3> QED
      BY <3>2, <3>4, <3>5, <3>6 DEF Pushes
  <2> QED
    BY <2>1, <2>2
<1>8. \E R2, dep2 : Routed(nodes', pending', sample, R2, dep2, F!Points, F!MaxDepth)
  <2>1. PICK node, new : /\ Pushes(node, new, Len(nodes) + 1, S, w.depth, F!Points, F!MaxDepth)
                         /\ nodes' = grown(node) /\ pending' = new \o Tail(pending)
    BY <1>6
  <2> QED
    BY <1>1, <1>4, <1>7, <2>1, PushFits
<1>9. BuildFits'
  BY <1>1, <1>2, <1>3, <1>8 DEF BuildFits
<1>10. Admitted(call') /\ IsSeq(trees') /\ \A u \in Range(trees') : InForest(u)'
  <2>1. \A u \in Range(trees) : InForest(u)'
    BY <1>1, <1>3 DEF InForest
  <2>2. call' = call
    OBVIOUS
  <2> QED
    BY <1>1, <1>2, <2>1, <2>2
<1> QED
  BY <1>1, <1>2, <1>3, <1>9, <1>10 DEF ForestFits


(* A tree that is complete joins the forest.                               *)
LEMMA FinishTreeFits ==
  ASSUME Numbered, ForestFits, stage = "run", F!FinishTree, UNCHANGED <<rows, call, given>>
  PROVE  ForestFits'
<1> DEFINE t == [sample |-> sample, nodes |-> nodes]
<1>1. /\ Admitted(call) /\ BuildFits /\ step = "build" /\ F!Points # <<>> /\ sample \subseteq DOMAIN F!Points
      /\ pending = <<>>
      /\ IsSeq(trees) /\ \A u \in Range(trees) : InForest(u)
  BY DEF ForestFits, BuildFits, F!FinishTree
<1>2. /\ stage' = "run" /\ trees' = Append(trees, t) /\ sample' = {} /\ step' \in {"score", "tree"}
  BY DEF F!FinishTree
<1>3. F!Points' = F!Points /\ F!MaxDepth' = F!MaxDepth
  BY ForestIsStable
<1>4. PICK R, dep : Routed(nodes, pending, sample, R, dep, F!Points, F!MaxDepth)
  BY <1>1 DEF BuildFits
<1>5. nodes # <<>>
  <2>1. Len(<<>>) = 0
    OBVIOUS
  <2> QED
    BY <1>1, <1>4, <2>1 DEF Routed
<1>6. FinishedTree(nodes, sample, F!Points, F!MaxDepth)
  BY <1>1, <1>4, <1>5 DEF FinishedTree
<1>7. t.sample = sample /\ t.nodes = nodes
  OBVIOUS
<1> HIDE DEF t
<1>8. InForest(t)
  BY <1>1, <1>6, <1>7, LimitIsNumber DEF InForest
<1>9. IsSeq(trees') /\ \A u \in Range(trees') : InForest(u)
  BY <1>1, <1>2, <1>8, RangeOfParts
<1>10. \A u \in Range(trees') : InForest(u)'
  BY <1>3, <1>9 DEF InForest
<1>11. BuildFits'
  BY <1>1, <1>2, <1>3 DEF BuildFits
<1>12. call' = call
  OBVIOUS
<1> QED
  BY <1>1, <1>2, <1>9, <1>10, <1>11, <1>12 DEF ForestFits

(* The scores depend on the trees, the rows and the arguments only.        *)
LEMMA ScoresAreStable ==
  ASSUME UNCHANGED <<rows, call, trees>>
  PROVE  /\ \A r : F!NonFinite(r)' <=> F!NonFinite(r)
         /\ \A i : F!Position(i)' = F!Position(i)
         /\ ForestScores' = ForestScores
         /\ \A s : F!ComputeThreshold(s)' = F!ComputeThreshold(s)
<1>1. \A r : F!NonFinite(r)' <=> F!NonFinite(r)
  BY DEF F!NonFinite, F!NumericFeatures, F!Features
<1>2. F!Points' = F!Points /\ F!FiniteRows' = F!FiniteRows /\ F!ActualSampleSize' = F!ActualSampleSize
  BY ForestIsStable
<1>3. \A i : F!Position(i)' = F!Position(i)
  BY <1>2 DEF F!Position
<1>4. \A p : F!ScoreMixed(p)' = F!ScoreMixed(p)
  BY <1>2 DEF F!ScoreMixed, F!SumOver
<1>5. ForestScores' = ForestScores
  BY <1>2, <1>4 DEF ForestScores
<1>6. \A s : F!ComputeThreshold(s)' = F!ComputeThreshold(s)
  BY DEF F!ComputeThreshold
<1> QED
  BY <1>1, <1>3, <1>5, <1>6

(* A step of which the forest has no part.                                 *)
LEMMA ForestStutters ==
  ASSUME ForestFits, UNCHANGED <<rows, call, forestVars>>, stage' \in {stage, "raised"}
  PROVE  ForestFits'
<1>1. /\ F!Points' = F!Points /\ F!MaxDepth' = F!MaxDepth /\ F!FiniteRows' = F!FiniteRows
  BY ForestIsStable
<1>2. UNCHANGED <<step, sample, cumulative, nodes, pending, trees, scores, flags, rows, call>>
  BY DEF forestVars
<1>3. F!ForestIdle => F!ForestIdle'
  BY <1>2 DEF F!ForestIdle
<1>4. BuildFits => BuildFits'
  BY <1>1, <1>2 DEF BuildFits
<1>5. Merged => Merged'
  BY <1>2, ScoresAreStable DEF Merged, ScoreOf, F!IsAnomaly
<1>6. \A u : InForest(u)' <=> InForest(u)
  BY <1>1 DEF InForest
<1> QED
  BY <1>1, <1>2, <1>3, <1>4, <1>5, <1>6 DEF ForestFits

(* The rows get their scores and flags.                                    *)
LEMMA ScoreRowsFits ==
  ASSUME Numbered, ForestFits, F!ScoreRows, UNCHANGED <<rows, call, given>>
  PROVE  ForestFits'
<1>1. /\ F!Points' = F!Points /\ F!MaxDepth' = F!MaxDepth
  BY ForestIsStable
<1>2. /\ stage = "run" /\ stage' = "done" /\ trees' = trees /\ sample' = sample /\ F!Finish(ForestScores)
  BY DEF F!ScoreRows, ForestScores
<1>3. Merged'
  <2>1. /\ scores' = [i \in DOMAIN rows |-> ScoreOf(i)]
        /\ flags' = [i \in DOMAIN rows |-> F!NonFinite(rows[i])
                                            \/ F!IsAnomaly(ScoreOf(i), F!ComputeThreshold(ForestScores))]
    BY <1>2 DEF F!Finish, ScoreOf
  <2>2. \A i : ScoreOf(i)' = ScoreOf(i)
    BY <1>2, ScoresAreStable DEF ScoreOf
  <2> QED
    BY <1>2, <2>1, <2>2, ScoresAreStable DEF Merged, F!IsAnomaly
<1>4. \A u : InForest(u)' <=> InForest(u)
  BY <1>1 DEF InForest
<1>5. call' = call
  OBVIOUS
<1> QED
  BY <1>1, <1>2, <1>3, <1>4, <1>5 DEF ForestFits


(* Before the fit there is neither a sample nor a tree.                    *)
LEMMA IdleForestFits ==
  ASSUME F!ForestIdle, stage \notin {"run", "done"}, stage = "scan" => Admitted(call)
  PROVE  ForestFits
<1>1. sample = {} /\ trees = <<>>
  BY DEF F!ForestIdle
<1> QED
  BY <1>1, RangeOfShort DEF ForestFits

(* No call has begun.                                                      *)
LEMMA InitForest ==
  Init => ForestInv
<1>1. SUFFICES ASSUME Init
               PROVE  ForestInv
  OBVIOUS
<1>2. F!ForestIdle /\ stage = "bind" /\ trees = <<>>
  BY <1>1 DEF Init, F!ForestIdle
<1> QED
  BY <1>2, IdleForestFits DEF ForestInv

(* What binding accepts is admitted.                                       *)
LEMMA BindKeepsForest ==
  ASSUME CallInv, ForestInv, Bind
  PROVE  ForestInv'
<1>1. /\ given' = given /\ call' = OptionalInputs(given)
      /\ stage = "bind" /\ stage' = (IF Accepted(call') THEN "scan" ELSE "rejected")
      /\ UNCHANGED forestVars
  BY DEF Bind, work
<1>2. SUFFICES ASSUME given.fn = "forest"
               PROVE  ForestInv'
  BY <1>1 DEF ForestInv, forestVars
<1>3. /\ {"columns", "types", "categories", "trees", "sampleSize", "contamination", "ndim",
           "metric", "ntry", "weighted"} \subseteq DOMAIN given
      /\ given.contamination \in (Int \X (Nat \ {0})) \cup {Null, NaN, Inf}
  <2>1. PICK c \in Cases : given = c[1]
    BY DEF CallInv
  <2> QED
    BY <1>2, <2>1, CasesAssumption
<1>4. /\ call'.sampleSize = Default(given.sampleSize, 256)
      /\ call'.contamination = Default(given.contamination, <<1, 10>>)
      /\ call'.fn = given.fn
  <2> DEFINE c == [given EXCEPT !.trees = Default(@, 100), !.sampleSize = Default(@, 256),
                       !.contamination = Default(@, <<1, 10>>), !.ndim = Default(@, 1),
                       !.metric = Default(@, "depth"), !.ntry = Default(@, 1)]
  <2>1. OptionalInputs(given) = c
    BY <1>2 DEF OptionalInputs
  <2>2. "fn" \in DOMAIN given
    BY GivenTypes
  <2>3. c.sampleSize = Default(given.sampleSize, 256)
    BY <1>3
  <2>4. c.contamination = Default(given.contamination, <<1, 10>>)
    BY <1>3
  <2>5. c.fn = given.fn
    BY <1>3, <2>2
  <2> HIDE DEF c
  <2> QED
    BY <1>1, <2>1, <2>3, <2>4, <2>5
<1>5. ASSUME stage' = "scan"
      PROVE  Admitted(call')
  <2>5. PICK c : c = call'
    OBVIOUS
  <2>1. /\ c.sampleSize \in SampleSizes /\ FiniteFraction(c.contamination)
        /\ c.contamination[1] >= 0 /\ 2 * c.contamination[1] <= c.contamination[2]
    <3>1. Accepted(call')
      BY <1>1, <1>5
    <3>2. ParseIsolationForestParameters(call')
      BY <1>2, <1>4, <3>1 DEF Accepted
    <3>3. ParseIsolationForestParameters(c)
      BY <2>5, <3>2
    <3>4. c.sampleSize \in SampleSizes
      BY <3>3 DEF ParseIsolationForestParameters
    <3>6. FiniteFraction(c.contamination)
      BY <3>3 DEF ParseIsolationForestParameters
    <3>7. c.contamination[1] >= 0 /\ 2 * c.contamination[1] <= c.contamination[2]
      BY <3>3 DEF ParseIsolationForestParameters
    <3> QED
      BY <3>4, <3>6, <3>7
  <2>2. c.sampleSize \in Nat \ {0}
    <3>1. \A n \in SampleSizes : n \in Nat \ {0}
      BY DEF SampleSizes
    <3> QED
      BY <2>1, <3>1
  <2>3. c.contamination \in Int \X (Nat \ {0})
    <3>1. <<1, 10>> \in Int \X (Nat \ {0})
      OBVIOUS
    <3>2. c.contamination \notin {NaN, Inf}
      BY <2>1 DEF FiniteFraction
    <3>3. c.contamination = Default(given.contamination, <<1, 10>>)
      BY <1>4, <2>5
    <3> QED
      BY <1>3, <3>1, <3>2, <3>3 DEF Default
  <2>4. Admitted(c)
    BY <2>1, <2>2, <2>3 DEF Admitted
  <2> QED
    BY <2>4, <2>5
<1>6. F!ForestIdle'
  <2>1. F!ForestIdle
    BY <1>1, <1>2 DEF ForestInv, ForestFits
  <2> QED
    BY <1>1, <2>1 DEF F!ForestIdle, forestVars
<1>7. sample' = {} /\ trees' = <<>>
  BY <1>6 DEF F!ForestIdle
<1>8. ForestFits'
  <2>1. stage' \notin {"run", "done", "bind"}
    BY <1>1
  <2> QED
    BY <1>5, <1>6, <1>7, <2>1, RangeOfShort DEF ForestFits
<1> QED
  BY <1>1, <1>2, <1>8 DEF ForestInv

(* A row is scanned before there is a forest.                              *)
LEMMA ScanKeepsForest ==
  ASSUME CallInv, ForestInv, ScanRow
  PROVE  ForestInv'
<1>1. /\ given' = given /\ call' = call /\ stage = "scan" /\ stage' = "scan" /\ UNCHANGED forestVars
  BY DEF ScanRow, work
<1>2. SUFFICES ASSUME given.fn = "forest"
               PROVE  ForestInv'
  BY <1>1 DEF ForestInv, forestVars
<1>3. F!ForestIdle /\ Admitted(call)
  BY <1>1, <1>2 DEF ForestInv, ForestFits
<1>4. F!ForestIdle'
  BY <1>1, <1>3 DEF F!ForestIdle, forestVars
<1>5. sample' = {} /\ trees' = <<>>
  BY <1>4 DEF F!ForestIdle
<1>6. ForestFits'
  BY <1>1, <1>3, <1>4, <1>5, RangeOfShort DEF ForestFits
<1> QED
  BY <1>1, <1>2, <1>6 DEF ForestInv

(* The fit begins with the first tree, or scores no rows at all.           *)
LEMMA FitKeepsForest ==
  ASSUME CallInv, ForestInv, Fit
  PROVE  ForestInv'
<1>1. /\ given' = given /\ call' = call /\ rows' = rows /\ stage = "scan" /\ stage' = "run"
  BY DEF Fit, shared
<1>2. call.fn # "forest" => UNCHANGED forestVars
  BY DEF Fit
<1>3. SUFFICES ASSUME given.fn = "forest"
               PROVE  ForestInv'
  BY <1>1, <1>2 DEF ForestInv, forestVars, CallInv
<1>4. F!ForestIdle /\ Admitted(call) /\ F!StartForest
  BY <1>1, <1>3 DEF ForestInv, ForestFits, CallInv, Fit
<1>5. step' = (IF F!Points = <<>> THEN "score" ELSE "tree") /\ sample' = {} /\ trees' = <<>>
  BY <1>4 DEF F!ForestIdle, F!StartForest
<1>6. F!Points' = F!Points
  BY <1>1, ForestIsStable
<1>7. BuildFits'
  BY <1>5, <1>6 DEF BuildFits
<1>8. Admitted(call')
  BY <1>1, <1>4
<1>9. ForestFits'
  BY <1>1, <1>5, <1>7, <1>8, RangeOfShort DEF ForestFits
<1> QED
  BY <1>1, <1>3, <1>9 DEF ForestInv

(* The steps of the forest, and those it has no part in.                   *)
LEMMA RunKeepsForest ==
  ASSUME CallInv, RowsInv, ForestInv,
         RunForest \/ RunDbscan \/ RunOutlierTree \/ RaiseInScan \/ Interrupt \/ UNCHANGED vars
  PROVE  ForestInv'
<1>1. UNCHANGED <<given, call, rows>>
  BY DEF RunForest, RunDbscan, RunOutlierTree, RaiseInScan, Interrupt, vars, shared
<1>2. CASE RunForest
  <2>1. given.fn = "forest" /\ ForestFits /\ Numbered /\ F!ForestStep /\ stage = "run"
    BY <1>2, RowsNumbered DEF RunForest, CallInv, ForestInv
  <2>2. ForestFits'
    <3>1. CASE F!StartTree
      BY <1>1, <2>1, <3>1, StartTreeFits
    <3>2. CASE \E t \in (0 .. MaxWeight) \cup {NaN} : step = "draw" /\ t \in F!Targets /\ F!Draw(t)
      <4>1. PICK t : F!Draw(t)
        BY <3>2
      <4> QED
        BY <1>1, <2>1, <4>1, DrawFits
    <3>3. CASE F!BuildLeaf \/ F!BuildSplit
      BY <1>1, <2>1, <3>3, BuildNodeFits
    <3>4. CASE F!FinishTree
      BY <1>1, <2>1, <3>4, FinishTreeFits
    <3>5. CASE F!ScoreRows
      BY <1>1, <2>1, <3>5, ScoreRowsFits
    <3>6. CASE F!RaiseInForest
      <4>1. stage' = "raised" /\ UNCHANGED forestVars
        BY <3>6 DEF F!RaiseInForest, F!forestVars, forestVars
      <4> QED
        BY <1>1, <2>1, <4>1, ForestStutters
    <3> QED
      BY <2>1, <3>1, <3>2, <3>3, <3>4, <3>5, <3>6 DEF F!ForestStep
  <2> QED
    BY <1>1, <2>1, <2>2 DEF ForestInv
<1>3. CASE ~RunForest
  <2>1. UNCHANGED forestVars
    BY <1>3 DEF RunDbscan, RunOutlierTree, RaiseInScan, Interrupt, vars, work
  <2>2. trees' = trees
    BY <2>1 DEF forestVars
  <2>3. ASSUME given.fn = "forest"
        PROVE  ForestFits'
    <3>1. ForestFits /\ call.fn = "forest"
      BY <2>3 DEF ForestInv, CallInv
    <3>2. stage' \in {stage, "raised"}
      BY <1>3, <3>1 DEF RunDbscan, RunOutlierTree, RaiseInScan, Interrupt, vars
    <3> QED
      BY <1>1, <2>1, <3>1, <3>2, ForestStutters
  <2> QED
    BY <1>1, <2>2, <2>3 DEF ForestInv
<1> QED
  BY <1>2, <1>3

(* The scan numbers the rows in every call.                                *)
THEOREM RowsInvariant ==
  Spec => [](CallInv /\ RowsInv)
<1>1. RowsInv /\ CallInv /\ [Next]_vars => RowsInv'
  <2>1. SUFFICES ASSUME RowsInv, CallInv, [Next]_vars
                 PROVE  RowsInv'
    OBVIOUS
  <2> QED
    BY <2>1, ScanKeepsRows, OtherStepsKeepRows DEF Next, CallStep
<1> QED
  BY <1>1, InitRows, CallInvariant, PTL DEF Spec

(* In a call of the forest, every tree that is built or being built leads  *)
(* the rows of its sample where its nodes say, and a finished call has the *)
(* scores and the flags that its trees and its arguments give.             *)
THEOREM ForestInvariant ==
  Spec => []ForestInv
<1>1. CallInv /\ RowsInv /\ ForestInv /\ [Next]_vars => ForestInv'
  <2>1. SUFFICES ASSUME CallInv, RowsInv, ForestInv, [Next]_vars
                 PROVE  ForestInv'
    OBVIOUS
  <2> QED
    BY <2>1, BindKeepsForest, ScanKeepsForest, FitKeepsForest, RunKeepsForest DEF Next, CallStep
<1> QED
  BY <1>1, InitForest, RowsInvariant, PTL DEF Spec

(* Every leaf has the size of the part of the sample that the traversal    *)
(* leads to it, and no leaf is below the depth limit.                      *)
THEOREM LeavesHoldTheirRows ==
  Spec => []LeavesHoldWhatIsRouted
<1>1. CallInv /\ ForestInv => LeavesHoldWhatIsRouted
  <2>1. SUFFICES ASSUME CallInv, ForestInv, NEW k \in DOMAIN trees
                 PROVE  LET tree == trees[k].nodes
                            ends == [i \in trees[k].sample |-> F!Leaf(tree, F!Points[i])]
                        IN  /\ \A i \in DOMAIN ends : ends[i].depth <= F!MaxDepth
                            /\ \A n \in DOMAIN tree : tree[n].leaf =>
                                 tree[n].size = Cardinality({i \in DOMAIN ends : ends[i].node = n})
    BY DEF LeavesHoldWhatIsRouted
  <2> DEFINE tree == trees[k].nodes
             S    == trees[k].sample
             ends == [i \in S |-> F!Leaf(tree, F!Points[i])]
  <2>2. InForest(trees[k])
    <3>1. trees # <<>>
      OBVIOUS
    <3>2. trees[k] \in Range(trees)
      BY DEF Range
    <3> QED
      BY <2>1, <3>1, <3>2 DEF ForestInv, ForestFits
  <2>3. FinishedTree(tree, S, F!Points, F!MaxDepth) /\ F!MaxDepth \in Nat
    BY <2>2 DEF InForest
  <2>4. DOMAIN ends = S /\ \A i \in S : ends[i] = F!Leaf(tree, F!Points[i])
    OBVIOUS
  <2> HIDE DEF tree, S, ends
  <2>5. /\ \A i \in S : F!Leaf(tree, F!Points[i]).depth <= F!MaxDepth
        /\ \A n \in DOMAIN tree : tree[n].leaf =>
             tree[n].size = Cardinality({i \in S : F!Leaf(tree, F!Points[i]).node = n})
    BY <2>3, LeafHoldsItsRows
  <2>6. \A n : {i \in DOMAIN ends : ends[i].node = n} = {i \in S : F!Leaf(tree, F!Points[i]).node = n}
    BY <2>4
  <2>7. /\ \A i \in DOMAIN ends : ends[i].depth <= F!MaxDepth
        /\ \A n \in DOMAIN tree : tree[n].leaf =>
             tree[n].size = Cardinality({i \in DOMAIN ends : ends[i].node = n})
    BY <2>4, <2>5, <2>6
  <2> QED
    BY <2>7 DEF tree, S, ends
<1> QED
  BY <1>1, ForestInvariant, CallInvariant, PTL


(* The size of 1..n.                                                       *)
LEMMA IntervalSize ==
  \A n \in Nat : IsFiniteSet(1..n) /\ Cardinality(1..n) = n
<1>1. ASSUME NEW n \in Nat
      PROVE  IsFiniteSet(1..n) /\ Cardinality(1..n) = n
  BY FS_Interval
<1> QED
  BY <1>1

(* The sum over the trees of natural numbers is one.                       *)
LEMMA ForestSums ==
  ASSUME NEW n \in Nat, NEW term \in [1..n -> Nat]
  PROVE  /\ \E g : g = [k \in 0..n |-> IF k = 0 THEN 0 ELSE g[k - 1] + term[k]]
         /\ \A g : g = [k \in 0..n |-> IF k = 0 THEN 0 ELSE g[k - 1] + term[k]] => g[n] \in Nat
<1> DEFINE Runs(g, m) == g = [k \in 0..m |-> IF k = 0 THEN 0 ELSE g[k - 1] + term[k]]
<1>1. ASSUME NEW m \in Nat, NEW g, Runs(g, m)
      PROVE  \E h : Runs(h, m + 1)
  <2> DEFINE h == [k \in 0..m + 1 |-> IF k <= m THEN g[k] ELSE g[m] + term[m + 1]]
  <2>1. \A k \in 0..m : h[k] = g[k]
    OBVIOUS
  <2>2. ASSUME NEW k \in 0..m + 1
        PROVE  h[k] = IF k = 0 THEN 0 ELSE h[k - 1] + term[k]
    <3>1. k # 0 => k - 1 \in 0..m /\ h[k - 1] = g[k - 1]
      BY <2>1
    <3>2. CASE k <= m
      <4>1. k \in 0..m /\ h[k] = g[k]
        BY <2>1, <3>2
      <4>2. g[k] = IF k = 0 THEN 0 ELSE g[k - 1] + term[k]
        BY <1>1, <4>1
      <4> HIDE DEF h
      <4> QED
        BY <3>1, <4>1, <4>2
    <3>3. CASE k = m + 1
      <4>1. h[k] = g[m] + term[m + 1] /\ k # 0 /\ k - 1 = m
        BY <3>3
      <4> HIDE DEF h
      <4> QED
        BY <3>1, <3>3, <4>1
    <3> QED
      BY <3>2, <3>3
  <2>3. h = [k \in 0..m + 1 |-> h[k]]
    OBVIOUS
  <2> HIDE DEF h
  <2>4. Runs(h, m + 1)
    BY <2>2, <2>3
  <2> QED
    BY <2>4
<1>2. \E g : Runs(g, n)
  <2> DEFINE N == {k \in Nat : ~\E g : Runs(g, k)}
  <2>1. SUFFICES ASSUME N # {} PROVE FALSE
    BY <2>1
  <2>2. PICK k \in N : \A j \in N : k <= j
    BY <2>1, LeastNatural
  <2>3. k # 0
    <3>1. Runs([i \in 0..0 |-> 0], 0)
      OBVIOUS
    <3> HIDE DEF Runs
    <3> QED
      BY <3>1
  <2> HIDE DEF Runs
  <2>4. k - 1 \in Nat /\ ~(k <= k - 1) /\ k - 1 + 1 = k
    BY <2>2, <2>3
  <2>5. PICK g : Runs(g, k - 1)
    BY <2>2, <2>4
  <2> QED
    BY <1>1, <2>2, <2>4, <2>5
<1>3. ASSUME NEW g, Runs(g, n)
      PROVE  g[n] \in Nat
  <2> DEFINE N == {k \in 0..n : g[k] \notin Nat}
  <2>1. \A k \in 0..n : g[k] = IF k = 0 THEN 0 ELSE g[k - 1] + term[k]
    BY <1>3
  <2>2. N = {}
    <3>1. SUFFICES ASSUME N # {} PROVE FALSE
      OBVIOUS
    <3>6. N \in SUBSET Nat
      OBVIOUS
    <3>2. PICK k \in N : \A j \in N : k <= j
      BY <3>1, <3>6, LeastNatural
    <3>3. k # 0
      BY <2>1, <3>2
    <3>4. k - 1 \in 0..n /\ ~(k <= k - 1) /\ k \in 1..n
      BY <3>2, <3>3
    <3>5. g[k - 1] \in Nat
      BY <3>2, <3>4
    <3> QED
      BY <2>1, <3>2, <3>3, <3>4, <3>5
  <2> QED
    BY <2>2
<1> QED
  BY <1>2, <1>3

(* A row ends in a leaf.                                                   *)
LEMMA EndsAtLeaf ==
  ASSUME NEW tree, Complete(tree), NEW p
  PROVE  /\ F!Leaf(tree, p).node \in DOMAIN tree /\ LeafNode(tree[F!Leaf(tree, p).node])
         /\ F!Leaf(tree, p).depth \in Nat
<1>1. PICK at : F!Leaf(tree, p) = at[1] /\ Traversed(tree, p, at)
  BY TraversalEnds
<1> DEFINE n == Len(tree)
<1>2. /\ DOMAIN tree = 1..n /\ n \in Nat /\ n # 0
      /\ \A k \in 1..n : LeafNode(tree[k]) \/ (SplitNode(tree[k]) /\ Below(tree, k, p) \in k + 1..n)
  <2>1. DOMAIN tree = 1..n /\ n \in Nat /\ n # 0
    BY DEF Complete, IsSeq
  <2>2. ASSUME NEW k \in 1..n, SplitNode(tree[k]), \A side \in Sides : tree[k][side] \in DOMAIN tree /\ k < tree[k][side]
        PROVE  Below(tree, k, p) \in k + 1..n
    <3>1. tree[k].left \in 1..n /\ k < tree[k].left /\ tree[k].right \in 1..n /\ k < tree[k].right
      BY <2>1, <2>2 DEF Sides
    <3> QED
      BY <2>1, <3>1 DEF Below
  <2> QED
    BY <2>1, <2>2 DEF Complete
<1> HIDE DEF n
<1>3. \A k \in 1..n : /\ at[k].node \in DOMAIN tree /\ at[k].depth \in Nat
                      /\ LeafNode(tree[k]) => at[k].node = k
                      /\ SplitNode(tree[k]) => at[k].node = at[Below(tree, k, p)].node
  BY <1>1, <1>2 DEF Traversed
<1> DEFINE N == {j \in 0..n : n - j \in 1..n /\ ~LeafNode(tree[at[n - j].node])}
<1>4. N = {}
  <2>1. SUFFICES ASSUME N # {} PROVE FALSE
    OBVIOUS
  <2>2. PICK j \in N : \A i \in N : j <= i
    <3>1. N \in SUBSET Nat
      BY <1>2
    <3> QED
      BY <2>1, <3>1, LeastNatural
  <2> DEFINE k == n - j
             c == Below(tree, k, p)
  <2>3. j \in 0..n /\ k \in 1..n /\ ~LeafNode(tree[at[k].node])
    OBVIOUS
  <2>4. SplitNode(tree[k]) /\ c \in k + 1..n
    BY <1>2, <1>3, <2>3
  <2>5. at[k].node = at[c].node
    BY <1>3, <2>3, <2>4
  <2> HIDE DEF c
  <2>6. n - c \in 0..n /\ n - (n - c) = c /\ c \in 1..n /\ ~(j <= n - c)
    BY <1>2, <2>3, <2>4
  <2>7. n - c \in N
    BY <2>3, <2>5, <2>6
  <2> QED
    BY <2>2, <2>6, <2>7
<1>5. 1 \in 1..n /\ n - 1 \in 0..n /\ n - (n - 1) = 1
  BY <1>2
<1>6. LeafNode(tree[at[1].node])
  BY <1>4, <1>5
<1> QED
  BY <1>1, <1>3, <1>5, <1>6

(* The logarithms are tabulated for every size that there can be.          *)
Tabulated ==
  /\ AveragePaths \in Seq(Nat) /\ Logarithms \in Seq(Nat)
  /\ Len(F!Points) <= Len(AveragePaths) /\ Len(F!Points) <= Len(Logarithms)

(* There is a table entry for every point of the forest.                   *)
LEMMA PointsAreTabulated ==
  ASSUME CallInv, RowsInv, given.fn = "forest"
  PROVE  Tabulated
<1>1. AveragePaths \in Seq(Nat) /\ Logarithms \in Seq(Nat) /\ Len(table) <= Len(AveragePaths) /\ Len(table) <= Len(Logarithms)
  <2>1. PICK c \in Cases : given = c[1] /\ table = c[2]
    BY DEF CallInv
  <2> QED
    BY <2>1, CasesAssumption
<1> DEFINE n == Len(ids)
<1>2. n \in Nat /\ DOMAIN ids = 1..n /\ DOMAIN rows = 1..n /\ Len(table) \in Nat
  <2>1. ids \in Seq(Nat) /\ rows = [i \in DOMAIN ids |-> table[ids[i]]] /\ Len(table) \in Nat
    BY TableIsSeq DEF RowsInv
  <2>2. n \in Nat /\ DOMAIN ids = 1..n
    BY <2>1, LenProperties
  <2>3. DOMAIN rows = DOMAIN ids
    BY <2>1
  <2> QED
    BY <2>1, <2>2, <2>3
<1>3. \A i \in 1..n : ids[i] \in 1..Len(table)
  <2>1. Range(ids) = KeptRows \cap 1..scanned
    BY DEF RowsInv
  <2>2. KeptRows \subseteq 1..Len(table)
    BY TableIsSeq DEF KeptRows
  <2> QED
    BY <1>2, <2>1, <2>2 DEF Range
<1>4. \A i, j \in 1..n : i # j => ids[i] # ids[j]
  <2>1. \A i, j \in 1..n : i < j => ids[i] < ids[j]
    BY <1>2 DEF RowsInv
  <2> QED
    BY <1>2, <1>3, <2>1
<1>5. n <= Len(table)
  <2> DEFINE f == [i \in 1..n |-> ids[i]]
             Numbers == 1..Len(table)
  <2>1. f \in Injection(1..n, Numbers)
    BY <1>3, <1>4 DEF Injection, IsInjective
  <2>2. IsFiniteSet(Numbers) /\ Cardinality(Numbers) = Len(table) /\ Cardinality(1..n) = n
    BY <1>2, IntervalSize
  <2> HIDE DEF f, Numbers
  <2>3. Cardinality(1..n) <= Cardinality(Numbers)
    BY <2>1, <2>2, FS_Injection
  <2> QED
    BY <2>2, <2>3
<1>6. Len(F!Points) \in Nat /\ Len(F!Points) <= n
  <2> HIDE DEF n
  <2> QED
    BY <1>2, PointsNumbered
<1>7. Len(AveragePaths) \in Nat /\ Len(Logarithms) \in Nat
  BY <1>1, LenProperties
<1> QED
  BY <1>1, <1>2, <1>5, <1>6, <1>7 DEF Tabulated

(* What a tree adds to a score.                                            *)
LEMMA TreeTerms ==
  ASSUME Numbered, Tabulated, NEW t, InForest(t), NEW p
  PROVE  F!LogSize(F!LeafSize(t.nodes, p)) \in Nat /\ F!PathLength(t.nodes, p) \in Nat
<1> DEFINE tree == t.nodes
           leaf == F!Leaf(tree, p)
<1>1. /\ FinishedTree(tree, t.sample, F!Points, F!MaxDepth) /\ F!MaxDepth \in Nat
      /\ t.sample \subseteq DOMAIN F!Points
  BY DEF InForest
<1>2. /\ \A m \in DOMAIN tree : tree[m].leaf =>
             tree[m].size = Cardinality({i \in t.sample : F!Leaf(tree, F!Points[i]).node = m})
  <2> HIDE DEF tree
  <2> QED
    BY <1>1, LeafHoldsItsRows
<1>3. leaf.node \in DOMAIN tree /\ LeafNode(tree[leaf.node]) /\ leaf.depth \in Nat
  <2> HIDE DEF tree
  <2> QED
    BY <1>1, FinishedIsComplete, EndsAtLeaf
<1> DEFINE m == Len(F!Points)
           size == F!LeafSize(tree, p)
<1>4. m \in Nat /\ DOMAIN F!Points = 1..m
  BY PointsNumbered DEF Numbered
<1> HIDE DEF m
<1>5. size \in Nat /\ size <= m
  <2> DEFINE S == {i \in t.sample : F!Leaf(tree, F!Points[i]).node = leaf.node}
  <2>1. size = Cardinality(S)
    BY <1>2, <1>3 DEF F!LeafSize, LeafNode
  <2>2. S \in SUBSET (1..m)
    BY <1>1, <1>4
  <2> HIDE DEF S, size
  <2>3. IsFiniteSet(1..m) /\ Cardinality(1..m) = m
    BY <1>4, IntervalSize
  <2>4. IsFiniteSet(S) /\ Cardinality(S) <= Cardinality(1..m)
    BY <2>2, <2>3, FS_Subset
  <2> QED
    BY <2>1, <2>3, <2>4, FS_CardinalityType
<1> HIDE DEF size
<1>6. size > 1 => /\ AveragePaths[size] \in Nat /\ Logarithms[size] \in Nat
  <2>1. /\ AveragePaths \in Seq(Nat) /\ Logarithms \in Seq(Nat)
        /\ m <= Len(AveragePaths) /\ m <= Len(Logarithms)
        /\ Len(AveragePaths) \in Nat /\ Len(Logarithms) \in Nat
    BY LenProperties DEF Tabulated, m
  <2>2. size > 1 => size \in 1..Len(AveragePaths) /\ size \in 1..Len(Logarithms)
    BY <1>4, <1>5, <2>1
  <2> QED
    BY <2>1, <2>2, ElementOfSeq
<1>7. F!LogSize(size) \in Nat /\ F!AveragePathLength(size) \in Nat
  BY <1>5, <1>6 DEF F!LogSize, F!AveragePathLength
<1>8. F!PathLength(tree, p) = 1000 * leaf.depth + F!AveragePathLength(size)
  BY DEF F!PathLength, size
<1> HIDE DEF leaf
<1>9. F!PathLength(tree, p) \in Nat
  BY <1>3, <1>7, <1>8
<1> QED
  BY <1>7, <1>9 DEF size

(* A score is never above 0, so never above the score of an infinite row.  *)
LEMMA ScoreIsNumber ==
  ASSUME Numbered, Tabulated, IsSeq(trees), \A t \in Range(trees) : InForest(t), NEW p
  PROVE  F!ScoreMixed(p) \in Int /\ F!ScoreMixed(p) <= 0
<1> DEFINE n == Len(trees)
           logs == [k \in 1..n |-> F!LogSize(F!LeafSize(trees[k].nodes, p))]
           paths == [k \in 1..n |-> F!PathLength(trees[k].nodes, p)]
           IsSum(g, term) == g = [k \in 0..n |-> IF k = 0 THEN 0 ELSE g[k - 1] + term[k]]
           IsLogs(g) == g = [k \in 0..n |-> IF k = 0 THEN 0 ELSE g[k - 1] + F!LogSize(F!LeafSize(trees[k].nodes, p))]
           IsPaths(g) == g = [k \in 0..n |-> IF k = 0 THEN 0 ELSE g[k - 1] + F!PathLength(trees[k].nodes, p)]
           sumOfLogs == CHOOSE g : IsLogs(g)
           sumOfPaths == CHOOSE g : IsPaths(g)
<1>1. n \in Nat /\ \A k \in 1..n : trees[k] \in Range(trees)
  BY DEF IsSeq, Range
<1>2. logs \in [1..n -> Nat] /\ paths \in [1..n -> Nat]
  BY <1>1, TreeTerms
<1>3. \/ F!ScoreMixed(p) = -sumOfLogs[n]
      \/ F!ScoreMixed(p) = 0
      \/ F!ScoreMixed(p) = -sumOfPaths[n]
  <2>1. CASE call.metric = "density"
    BY <2>1 DEF F!ScoreMixed, F!SumOver
  <2>2. CASE call.metric # "density"
    BY <2>2 DEF F!ScoreMixed, F!SumOver
  <2> QED
    BY <2>1, <2>2
<1>6. \A k \in 1..n : /\ logs[k] = F!LogSize(F!LeafSize(trees[k].nodes, p))
                      /\ paths[k] = F!PathLength(trees[k].nodes, p)
  OBVIOUS
<1> HIDE DEF logs, paths, n
<1>4. sumOfLogs[n] \in Nat
  <2>1. (\E g : IsSum(g, logs)) /\ (\A g : IsSum(g, logs) => g[n] \in Nat)
    BY <1>1, <1>2, ForestSums
  <2>2. \A g : IsLogs(g) <=> IsSum(g, logs)
    BY <1>6
  <2> HIDE DEF IsSum, IsLogs
  <2> QED
    BY <2>1, <2>2
<1>5. sumOfPaths[n] \in Nat
  <2>1. (\E g : IsSum(g, paths)) /\ (\A g : IsSum(g, paths) => g[n] \in Nat)
    BY <1>1, <1>2, ForestSums
  <2>2. \A g : IsPaths(g) <=> IsSum(g, paths)
    BY <1>6
  <2> HIDE DEF IsSum, IsPaths
  <2> QED
    BY <2>1, <2>2
<1> QED
  BY <1>3, <1>4, <1>5


(* The bounds of a quotient.                                               *)
LEMMA DivBounds ==
  ASSUME NEW x \in Nat, NEW d \in Nat \ {0}
  PROVE  /\ x \div d \in Nat /\ d * (x \div d) <= x /\ x < d * (x \div d) + d
  OBVIOUS

(* How many rows may be flagged: the share of all but one, rounded up.     *)
LEMMA ShareOfRows ==
  ASSUME NEW a \in Nat, NEW d \in Nat \ {0}, 2 * a <= d, NEW n \in Nat
  PROVE  LET k == n - ((d - a) * n) \div d IN
         k \in 0..n /\ k * d <= a * n + d - 1
<1> DEFINE x == (d - a) * n
           y == a * n
           q == x \div d
           k == n - q
<1>1. d - a \in Nat
  OBVIOUS
<1>2. x + y = d * n /\ x \in Nat /\ y \in Nat /\ d * n \in Nat
  BY <1>1
<1> HIDE DEF x, y
<1>3. q \in Nat /\ d * q <= x /\ x < d * q + d
  BY <1>2, DivBounds
<1> HIDE DEF q
<1>4. d * q <= d * n
  BY <1>2, <1>3
<1>5. q <= n
  BY <1>3, <1>4
<1>6. k \in 0..n
  BY <1>3, <1>5
<1>7. k * d = d * n - d * q
  BY <1>3
<1>8. d * q \in Nat
  BY <1>3
<1> HIDE DEF k
<1>9. k * d <= y + d - 1
  BY <1>2, <1>3, <1>7, <1>8
<1> QED
  BY <1>6, <1>9 DEF k, q, x, y

(* How many of the values are below v, and how many up to v.               *)
LowerThan(s, n, v) == {i \in 1..n : s[i] < v}
AtMost(s, n, v) == {i \in 1..n : s[i] <= v}

IsKth(s, n, k, v) ==
  /\ \E i \in 1..n : s[i] = v
  /\ Cardinality(LowerThan(s, n, v)) < k /\ k <= Cardinality(AtMost(s, n, v))

(* In the order there is a value in every place.                           *)
LEMMA AscendingPlaces ==
  ASSUME NEW n \in Nat, NEW s \in [1..n -> Int], NEW k \in 1..n
  PROVE  IsKth(s, n, k, F!Ascending(s)[k])
<1> DEFINE V == F!Range(s)
           Is(v) == F!Cardinality({i \in DOMAIN s : s[i] < v}) < k /\ k <= F!Cardinality({i \in DOMAIN s : s[i] <= v})
<1>1. DOMAIN s = 1..n /\ V = {s[r] : r \in 1..n}
  BY DEF F!Range
<1>2. F!Ascending(s)[k] = CHOOSE v \in V : Is(v)
  BY <1>1 DEF F!Ascending
<1>3. \A v : Is(v) <=> /\ Cardinality({i \in 1..n : s[i] < v}) < k
                       /\ k <= Cardinality({i \in 1..n : s[i] <= v})
  BY <1>1, SameCardinalityInForest
<1>4. IsFiniteSet(1..n) /\ Cardinality(1..n) = n /\ 1..n \in SUBSET Nat
  BY IntervalSize
<1>5. \E v \in {s[r] : r \in 1..n} : /\ Cardinality({i \in 1..n : s[i] < v}) < k
                                     /\ k <= Cardinality({i \in 1..n : s[i] <= v})
  <2> DEFINE S == 1..n
  <2>1. S \in SUBSET Nat /\ IsFiniteSet(S) /\ s \in [S -> Int] /\ k \in 1..Cardinality(S)
    BY <1>4
  <2> HIDE DEF S
  <2>2. \E v \in {s[r] : r \in S} : /\ Cardinality({i \in S : s[i] < v}) < k
                                    /\ k <= Cardinality({i \in S : s[i] <= v})
    BY <2>1, KthValue
  <2> QED
    BY <2>2 DEF S
<1> HIDE DEF V, Is
<1>6. PICK v : v = CHOOSE u \in V : Is(u)
  OBVIOUS
<1>7. v \in V /\ Is(v)
  BY <1>1, <1>3, <1>5, <1>6
<1>8. F!Ascending(s)[k] = v
  BY <1>2, <1>6
<1>9. \E i \in 1..n : s[i] = v
  BY <1>1, <1>7
<1>10. IsKth(s, n, k, v)
  BY <1>3, <1>7, <1>9 DEF IsKth, LowerThan, AtMost
<1> QED
  BY <1>8, <1>10

(* A value in an earlier place is no greater.                              *)
LEMMA PlacesAscend ==
  ASSUME NEW n \in Nat, NEW s \in [1..n -> Int], NEW j \in Int, NEW k \in Int, j <= k,
         NEW u, NEW v, IsKth(s, n, j, u), IsKth(s, n, k, v)
  PROVE  u \in Int /\ v \in Int /\ u <= v
<1>1. u \in Int /\ v \in Int
  BY DEF IsKth
<1>2. SUFFICES ASSUME v < u PROVE FALSE
  BY <1>1
<1> DEFINE A == AtMost(s, n, v)
           B == LowerThan(s, n, u)
<1>3. A \subseteq B /\ B \in SUBSET (1..n)
  BY <1>1, <1>2 DEF AtMost, LowerThan
<1>4. k <= Cardinality(A) /\ Cardinality(B) < j
  BY DEF IsKth
<1> HIDE DEF A, B
<1>5. IsFiniteSet(B)
  BY <1>3, IntervalSize, FS_Subset
<1>6. IsFiniteSet(A) /\ Cardinality(A) <= Cardinality(B)
  BY <1>3, <1>5, FS_Subset
<1>7. Cardinality(A) \in Nat /\ Cardinality(B) \in Nat
  BY <1>5, <1>6, FS_CardinalityType
<1> QED
  BY <1>4, <1>6, <1>7

(* The first value is the least, the last one the greatest.                *)
LEMMA FirstAndLast ==
  ASSUME NEW n \in Nat, n # 0, NEW s \in [1..n -> Int], NEW u, NEW v,
         IsKth(s, n, 1, u), IsKth(s, n, n, v), NEW i \in 1..n
  PROVE  u <= s[i] /\ s[i] <= v
<1>1. u \in Int /\ v \in Int /\ s[i] \in Int
  BY DEF IsKth
<1>2. u <= s[i]
  <2> DEFINE B == LowerThan(s, n, u)
  <2>1. Cardinality(B) < 1 /\ B \in SUBSET (1..n)
    BY DEF IsKth, LowerThan
  <2>2. (s[i] < u) => i \in B
    BY DEF LowerThan
  <2> HIDE DEF B
  <2>3. IsFiniteSet(B)
    BY <2>1, IntervalSize, FS_Subset
  <2>4. B = {}
    BY <2>1, <2>3, FS_EmptySet, FS_CardinalityType
  <2> QED
    BY <1>1, <2>2, <2>4
<1>3. s[i] <= v
  <2> DEFINE A == AtMost(s, n, v)
             N == 1..n
  <2>1. n <= Cardinality(A) /\ A \in SUBSET N
    BY DEF IsKth, AtMost
  <2>2. i \in A => s[i] <= v
    BY DEF AtMost
  <2>3. IsFiniteSet(N) /\ Cardinality(N) = n
    BY IntervalSize
  <2> HIDE DEF A, N
  <2>4. IsFiniteSet(A) /\ Cardinality(A) <= Cardinality(N) /\ (Cardinality(A) = Cardinality(N) => A = N)
    BY <2>1, <2>3, FS_Subset
  <2>5. Cardinality(A) \in Nat
    BY <2>4, FS_CardinalityType
  <2>6. A = N
    BY <2>1, <2>3, <2>4, <2>5
  <2> QED
    BY <2>2, <2>6 DEF N
<1> QED
  BY <1>2, <1>3

(* No more values are above the k-th than come after it.                   *)
LEMMA FewAbove ==
  ASSUME NEW n \in Nat, NEW s \in [1..n -> Int], NEW k \in 0..n, NEW cut, IsKth(s, n, n - k, cut),
         NEW A \in SUBSET {i \in 1..n : s[i] > cut}
  PROVE  IsFiniteSet(A) /\ Cardinality(A) <= k /\ Cardinality(A) \in Nat
<1> DEFINE B == AtMost(s, n, cut)
           N == 1..n
<1>1. cut \in Int /\ n - k <= Cardinality(B)
  BY DEF IsKth
<1>2. A \cap B = {} /\ A \in SUBSET N /\ B \in SUBSET N /\ A \cup B \in SUBSET N
  <2>1. ASSUME NEW i \in A
        PROVE  i \notin B
    <3>1. i \in 1..n /\ s[i] > cut /\ s[i] \in Int
      OBVIOUS
    <3> QED
      BY <1>1, <3>1 DEF AtMost
  <2>2. A \in SUBSET N /\ B \in SUBSET N
    BY DEF AtMost
  <2> QED
    BY <2>1, <2>2
<1>3. IsFiniteSet(N) /\ Cardinality(N) = n
  BY IntervalSize
<1> HIDE DEF B, N
<1>4. IsFiniteSet(A) /\ IsFiniteSet(B) /\ IsFiniteSet(A \cup B) /\ Cardinality(A \cup B) <= Cardinality(N)
  BY <1>2, <1>3, FS_Subset
<1>5. Cardinality(A) \in Nat /\ Cardinality(B) \in Nat
  BY <1>4, FS_CardinalityType
<1>6. Cardinality(A \cup B) = Cardinality(A) + Cardinality(B) - Cardinality({})
  BY <1>2, <1>4, FS_Union
<1>7. Cardinality({}) = 0
  BY FS_EmptySet
<1> QED
  BY <1>1, <1>3, <1>4, <1>5, <1>6, <1>7

(* Whom the threshold selects: nobody before a row with a higher score,    *)
(* never everybody, and no more than the share unless they tie at the top. *)
LEMMA ThresholdFits ==
  ASSUME Admitted(call), NEW n \in Nat, NEW s \in [1..n -> Int], \A i \in 1..n : s[i] <= 0
  PROVE  LET A == {i \in 1..n : F!IsAnomaly(s[i], F!ComputeThreshold(s))} IN
         /\ F!ComputeThreshold(s) \in Int
         /\ n # 0 => A # 1..n
         /\ \/ A = {i \in 1..n : \A j \in 1..n : s[j] <= s[i]}
            \/ Cardinality(A) * call.contamination[2]
                 <= call.contamination[1] * (n - 1) + call.contamination[2] - 1
<1> DEFINE th == F!ComputeThreshold(s)
           A == {i \in 1..n : F!IsAnomaly(s[i], th)}
           top == {i \in 1..n : \A j \in 1..n : s[j] <= s[i]}
           sorted == F!Ascending(s)
           a == call.contamination[1]
           d == call.contamination[2]
           k == n - 1 - ((d - a) * (n - 1)) \div d
           cut == sorted[n - k]
           Above == {sorted[j] : j \in {i \in n - k + 1 .. n : sorted[i] # cut}}
<1>1. a \in Nat /\ d \in Nat \ {0} /\ 2 * a <= d
  BY DEF Admitted
<1>2. DOMAIN s = 1..n /\ Len(s) = n
  BY LenProperties
<1>3. th = IF n = 0 \/ k = 0 THEN F!NoAnomalies
           ELSE IF sorted[1] = sorted[n] THEN F!NoAnomalies
           ELSE IF cut = sorted[n] THEN sorted[n]
           ELSE F!Min(Above)
  BY <1>2 DEF F!ComputeThreshold
<1>4. F!NoAnomalies = 2
  BY DEF F!NoAnomalies, F!AnomalyScore
<1> HIDE DEF Above, cut, th, a, d
<1>5. n # 0 => k \in 0..n - 1 /\ k * d <= a * (n - 1) + d - 1
  <2>1. SUFFICES ASSUME n # 0
                 PROVE  k \in 0..n - 1 /\ k * d <= a * (n - 1) + d - 1
    OBVIOUS
  <2>2. PICK m \in Nat : m = n - 1
    BY <2>1
  <2>3. m - ((d - a) * m) \div d \in 0..m /\ (m - ((d - a) * m) \div d) * d <= a * m + d - 1
    BY <1>1, ShareOfRows
  <2> QED
    BY <2>2, <2>3
<1>6. \A j \in 1..n : IsKth(s, n, j, sorted[j])
  BY AscendingPlaces
<1> HIDE DEF k, sorted
<1>7. CASE th = 2
  <2>1. A = {}
    BY <1>4, <1>7 DEF F!IsAnomaly
  <2>2. Cardinality({}) = 0
    BY FS_EmptySet
  <2>3. n # 0 => 1..n # {}
    BY <1>1
  <2>4. A = top \/ 0 <= a * (n - 1) + d - 1
    <3>1. CASE n = 0
      BY <2>1, <3>1
    <3>2. CASE n # 0
      <4>1. a * (n - 1) \in Nat
        BY <1>1, <3>2
      <4> QED
        BY <1>1, <4>1
    <3> QED
      BY <3>1, <3>2
  <2> HIDE DEF A, top
  <2>5. Cardinality(A) * d = 0
    BY <1>1, <2>1, <2>2
  <2>6. th \in Int /\ (n # 0 => A # 1..n) /\ (A = top \/ Cardinality(A) * d <= a * (n - 1) + d - 1)
    BY <1>7, <2>1, <2>3, <2>4, <2>5
  <2> QED
    BY <2>6 DEF A, th, top, a, d
<1>8. CASE th # 2
  <2>1. n # 0 /\ k # 0 /\ sorted[1] # sorted[n]
    BY <1>3, <1>4, <1>8
  <2>2. k \in 1..n - 1 /\ k * d <= a * (n - 1) + d - 1 /\ n - k \in 1..n /\ 1 \in 1..n /\ n \in 1..n
    BY <1>5, <2>1
  <2>3. /\ IsKth(s, n, 1, sorted[1]) /\ IsKth(s, n, n, sorted[n]) /\ IsKth(s, n, n - k, cut)
    BY <1>6, <2>2 DEF cut
  <2>4. sorted[1] \in Int /\ sorted[n] \in Int /\ cut \in Int /\ sorted[1] <= cut
    <3>1. sorted[1] \in Int /\ sorted[n] \in Int /\ cut \in Int
      BY <2>3 DEF IsKth
    <3>2. 1 <= n - k /\ 1 \in Int /\ n - k \in Int
      BY <2>2
    <3>3. sorted[1] <= cut
      BY <2>3, <3>2, PlacesAscend
    <3> QED
      BY <3>1, <3>3
  <2>5. \A i \in 1..n : s[i] \in Int /\ sorted[1] <= s[i] /\ s[i] <= sorted[n]
    BY <2>1, <2>3, FirstAndLast
  <2>6. PICK least \in 1..n : s[least] = sorted[1]
    BY <2>3 DEF IsKth
  <2>7. PICK last \in 1..n : s[last] = sorted[n]
    BY <2>3 DEF IsKth
  <2>8. \A i \in 1..n : i \in A <=> s[i] >= th
    BY <1>4, <1>8 DEF F!IsAnomaly
  <2>9. CASE cut = sorted[n]
    <3>1. th = sorted[n]
      BY <1>3, <2>1, <2>9
    <3>2. least \notin A
      BY <2>1, <2>4, <2>5, <2>6, <2>8, <3>1
    <3>3. A = top
      <4>1. ASSUME NEW i \in 1..n
            PROVE  i \in A <=> i \in top
        BY <2>4, <2>5, <2>7, <2>8, <3>1
      <4> QED
        BY <4>1
    <3> QED
      BY <2>4, <2>6, <3>1, <3>2, <3>3 DEF th, a, d
  <2>10. CASE cut # sorted[n]
    <3>1. th = F!Min(Above)
      BY <1>3, <2>1, <2>10
    <3>2. PICK j \in n - k + 1..n : sorted[j] # cut /\ \A i \in n - k + 1..n : sorted[i] # cut => j <= i
      <4> DEFINE J == {i \in n - k + 1..n : sorted[i] # cut}
      <4>1. J \in SUBSET Nat
        BY <2>2
      <4>2. n \in J
        BY <2>2, <2>10
      <4> QED
        BY <4>1, <4>2, LeastNatural
    <3>3. \A i \in n - k + 1..n : i \in 1..n
      BY <2>2
    <3>4. \A x \in Above : \E i \in n - k + 1..n : x = sorted[i] /\ sorted[i] # cut
      BY DEF Above
    <3>5. sorted[j] \in Above
      BY <3>2 DEF Above
    <3>6. sorted[j] \in Int /\ cut < sorted[j]
      <4>1. n - k <= j /\ n - k \in Int /\ j \in Int /\ IsKth(s, n, j, sorted[j])
        BY <1>6, <2>2, <3>2, <3>3
      <4>2. sorted[j] \in Int /\ cut <= sorted[j]
        BY <2>3, <4>1, PlacesAscend
      <4> QED
        BY <2>4, <3>2, <4>2
    <3>7. \A x \in Above : sorted[j] <= x
      <4>1. ASSUME NEW i \in n - k + 1..n, sorted[i] # cut
            PROVE  sorted[j] <= sorted[i]
        <5>1. j <= i /\ i \in Int /\ j \in Int /\ IsKth(s, n, j, sorted[j]) /\ IsKth(s, n, i, sorted[i])
          BY <1>6, <2>2, <3>2, <3>3, <4>1
        <5> QED
          BY <5>1, PlacesAscend
      <4> QED
        BY <3>4, <4>1
    <3>8. th \in Above /\ th <= sorted[j]
      <4>1. F!Min(Above) = CHOOSE x \in Above : \A y \in Above : x <= y
        BY DEF F!Min
      <4> QED
        BY <3>1, <3>5, <3>7, <4>1
    <3>9. th = sorted[j]
      <4>1. th \in Int
        <5>1. PICK i \in n - k + 1..n : th = sorted[i]
          BY <3>4, <3>8
        <5>2. IsKth(s, n, i, sorted[i])
          BY <1>6, <3>3
        <5> QED
          BY <5>1, <5>2 DEF IsKth
      <4> QED
        BY <3>6, <3>7, <3>8, <4>1
    <3>10. A \in SUBSET {i \in 1..n : s[i] > cut}
      <4>1. ASSUME NEW i \in A
            PROVE  s[i] > cut
        BY <2>4, <2>5, <2>8, <3>6, <3>9
      <4> QED
        BY <4>1
    <3> HIDE DEF A
    <3>11. Cardinality(A) <= k /\ Cardinality(A) \in Nat
      BY <2>2, <2>3, <3>10, FewAbove
    <3>15. PICK m \in Nat : m = Cardinality(A) /\ m <= k
      BY <3>11
    <3>16. k \in Nat /\ n - 1 \in Nat
      BY <2>2
    <3>12. m * d <= k * d
      BY <1>1, <3>15, <3>16
    <3>13. least \notin A
      BY <2>4, <2>6, <2>8, <3>6, <3>9
    <3>14. Cardinality(A) * d <= a * (n - 1) + d - 1
      <4>1. m * d \in Int /\ k * d \in Int /\ a * (n - 1) \in Int
        BY <1>1, <3>15, <3>16
      <4>2. m * d <= a * (n - 1) + d - 1
        BY <1>1, <2>2, <3>12, <4>1
      <4> QED
        BY <3>15, <4>2
    <3> QED
      BY <2>6, <3>6, <3>9, <3>13, <3>14 DEF A, th, a, d
  <2> QED
    BY <2>9, <2>10
<1> QED
  BY <1>7, <1>8


(* A finished call of the forest, with what its rows got.                  *)
LEMMA FinishedForest ==
  ASSUME CallInv, RowsInv, ForestInv, stage = "done", call.fn = "forest"
  PROVE  /\ Merged /\ Numbered /\ Admitted(call)
         /\ \A p : F!ScoreMixed(p) \in Int /\ F!ScoreMixed(p) <= 0
<1>1. given.fn = "forest" /\ ForestFits
  BY DEF CallInv, ForestInv
<1>2. Merged /\ Admitted(call) /\ IsSeq(trees) /\ \A t \in Range(trees) : InForest(t)
  BY <1>1 DEF ForestFits
<1>3. Numbered /\ Tabulated
  BY <1>1, RowsNumbered, PointsAreTabulated
<1> QED
  BY <1>2, <1>3, ScoreIsNumber

(* Every call that ends names the rows of the table, and gives each row    *)
(* the score that the trees give to the row of that number.                *)
THEOREM EveryRowIdNamesItsRow ==
  Spec => []RowIdsNameTheirRows
<1>1. CallInv /\ RowsInv /\ ForestInv /\ RowIdsAreRight => RowIdsNameTheirRows
  <2>1. SUFFICES ASSUME CallInv, RowsInv, ForestInv, RowIdsAreRight, stage = "done"
                 PROVE  RowIdsNameTheirRows
    BY DEF RowIdsNameTheirRows
  <2>2. ASSUME call.fn = "forest", NEW o \in Range(ForestOutput)
        PROVE  IF F!NonFinite(table[o.row_id])
               THEN o.is_anomaly /\ \A q \in Range(ForestOutput) : q.anomaly_score <= o.anomaly_score
               ELSE o.anomaly_score = F!ScoreMixed(table[o.row_id])
    <3>1. /\ Merged /\ Numbered
          /\ \A p : F!ScoreMixed(p) \in Int /\ F!ScoreMixed(p) <= 0
      BY <2>1, <2>2, FinishedForest
    <3>2. \A q \in Range(ForestOutput) : \E i \in DOMAIN rows : q.row_id = ids[i] /\ q.anomaly_score = scores[i]
      BY DEF Range, ForestOutput
    <3>3. \A i \in DOMAIN rows : rows[i] = table[ids[i]]
      BY <2>1 DEF RowsInv
    <3>4. ASSUME NEW i \in DOMAIN rows
          PROVE  IF F!NonFinite(rows[i]) THEN scores[i] = 1 ELSE scores[i] = F!ScoreMixed(rows[i])
      <4>1. scores[i] = ScoreOf(i)
        BY <3>1 DEF Merged
      <4>2. CASE F!NonFinite(rows[i])
        BY <4>1, <4>2 DEF ScoreOf, F!AnomalyScore
      <4>3. CASE ~F!NonFinite(rows[i])
        <5>1. i \in F!FiniteRows
          BY <4>3 DEF F!FiniteRows
        <5>2. F!Position(i) \in DOMAIN F!Points /\ F!Points[F!Position(i)] = rows[i]
          <6>1. PICK n \in Nat : DOMAIN rows = 1..n
            BY <3>1 DEF Numbered
          <6> QED
            BY <5>1, <6>1, PointsNumbered
        <5>3. ForestScores[F!Position(i)] = F!ScoreMixed(rows[i])
          BY <5>2 DEF ForestScores
        <5> QED
          BY <4>1, <4>3, <5>3 DEF ScoreOf
      <4> QED
        BY <4>2, <4>3
    <3>5. PICK i \in DOMAIN rows : o.row_id = ids[i] /\ o.anomaly_score = scores[i]
      BY <2>2, <3>2
    <3>6. rows[i] = table[o.row_id]
      BY <3>3, <3>5
    <3>7. CASE F!NonFinite(rows[i])
      <4>1. o.anomaly_score = 1
        BY <3>4, <3>5, <3>7
      <4>2. ASSUME NEW q \in Range(ForestOutput)
            PROVE  q.anomaly_score <= o.anomaly_score
        <5>1. PICK j \in DOMAIN rows : q.anomaly_score = scores[j]
          BY <3>2
        <5>2. scores[j] = 1 \/ scores[j] = F!ScoreMixed(rows[j])
          BY <3>4
        <5>3. scores[j] \in Int /\ scores[j] <= 1
          <6>1. F!ScoreMixed(rows[j]) \in Int /\ F!ScoreMixed(rows[j]) <= 0
            BY <3>1
          <6> QED
            BY <5>2, <6>1
        <5> QED
          BY <4>1, <5>1, <5>3
      <4>3. o.is_anomaly
        BY <2>1, <2>2, <3>6, <3>7 DEF RowIdsAreRight
      <4> QED
        BY <3>6, <3>7, <4>2, <4>3
    <3>8. CASE ~F!NonFinite(rows[i])
      BY <3>4, <3>5, <3>6, <3>8
    <3> QED
      BY <3>7, <3>8
  <2> QED
    BY <2>1, <2>2 DEF RowIdsNameTheirRows, RowIdsAreRight
<1> QED
  BY <1>1, RowIdsOfEveryCall, RowsInvariant, ForestInvariant, PTL

(* Of the finite rows the highest scores are flagged, and only so many.    *)
THEOREM FlagsAreTheHighestScores ==
  Spec => []FlagsFollowContamination
<1>1. CallInv /\ RowsInv /\ ForestInv => FlagsFollowContamination
  <2>1. SUFFICES ASSUME CallInv, RowsInv, ForestInv, stage = "done", call.fn = "forest"
                 PROVE  FlagsFollowContamination
    BY DEF FlagsFollowContamination
  <2>2. /\ Merged /\ Numbered /\ Admitted(call)
        /\ \A p : F!ScoreMixed(p) \in Int /\ F!ScoreMixed(p) <= 0
    BY <2>1, FinishedForest
  <2> DEFINE finite == {i \in DOMAIN rows : ~F!NonFinite(rows[i])}
             flagged == {i \in finite : flags[i]}
             top == {i \in finite : \A j \in finite : scores[j] <= scores[i]}
             s == ForestScores
             th == F!ComputeThreshold(s)
             m == Cardinality(F!FiniteRows)
             A == {k \in 1..m : F!IsAnomaly(s[k], th)}
             best == {k \in 1..m : \A j \in 1..m : s[j] <= s[k]}
             at == [i \in finite |-> F!Position(i)]
             a == call.contamination[1]
             d == call.contamination[2]
  <2>3. finite = F!FiniteRows
    BY DEF F!FiniteRows
  <2>4. /\ m \in Nat /\ IsFiniteSet(finite) /\ DOMAIN F!Points = 1..m
        /\ \A i \in finite : at[i] = F!Position(i) /\ at[i] \in 1..m
        /\ \A k \in 1..m : \E i \in finite : at[i] = k
        /\ \A i, j \in finite : at[i] = at[j] => i = j
    <3>1. PICK n \in Nat : DOMAIN rows = 1..n
      BY <2>2 DEF Numbered
    <3>2. /\ m \in Nat /\ IsFiniteSet(finite) /\ DOMAIN F!Points = 1..m
          /\ \A i \in finite : F!Position(i) \in 1..m
          /\ \A k \in 1..m : \E i \in finite : F!Position(i) = k
          /\ \A i, j \in finite : F!Position(i) = F!Position(j) => i = j
      BY <2>3, <3>1, PointsNumbered
    <3>3. \A i \in finite : at[i] = F!Position(i)
      OBVIOUS
    <3> HIDE DEF at, finite, m
    <3> QED
      BY <3>2, <3>3
  <2> HIDE DEF m, at
  <2>5. s \in [1..m -> Int] /\ \A k \in 1..m : s[k] <= 0
    BY <2>2, <2>4 DEF ForestScores
  <2>6. \A i \in finite : scores[i] = s[at[i]] /\ (flags[i] <=> F!IsAnomaly(scores[i], th))
    <3>1. ASSUME NEW i \in finite
          PROVE  scores[i] = s[at[i]] /\ (flags[i] <=> F!IsAnomaly(scores[i], th))
      <4>1. i \in DOMAIN rows /\ ~F!NonFinite(rows[i]) /\ at[i] = F!Position(i)
        BY <2>4
      <4>2. scores[i] = s[at[i]]
        BY <2>2, <4>1 DEF Merged, ScoreOf
      <4>3. flags[i] = (F!NonFinite(rows[i]) \/ F!IsAnomaly(scores[i], F!ComputeThreshold(ForestScores)))
        BY <2>2, <4>1 DEF Merged
      <4>4. flags[i] <=> F!IsAnomaly(scores[i], th)
        <5>1. F!IsAnomaly(scores[i], F!ComputeThreshold(ForestScores)) \in BOOLEAN
          BY DEF F!IsAnomaly
        <5>2. flags[i] = F!IsAnomaly(scores[i], F!ComputeThreshold(ForestScores))
          BY <4>1, <4>3, <5>1
        <5> QED
          BY <5>1, <5>2
      <4> QED
        BY <4>2, <4>4
    <3> QED
      BY <3>1
  <2> HIDE DEF s
  <2>7. /\ th \in Int
        /\ m # 0 => A # 1..m
        /\ \/ A = best
           \/ Cardinality(A) * d <= a * (m - 1) + d - 1
    BY <2>2, <2>4, <2>5, ThresholdFits
  <2> HIDE DEF th, a, d
  <2>8. \A i \in finite : i \in flagged <=> at[i] \in A
    BY <2>4, <2>6
  <2>9. \A i \in finite : scores[i] \in Int
    BY <2>4, <2>5, <2>6
  <2>10. \A i \in flagged, j \in finite : scores[j] >= scores[i] => flags[j]
    <3>1. ASSUME NEW i \in flagged, NEW j \in finite, scores[j] >= scores[i]
          PROVE  flags[j]
      <4>1. i \in finite /\ F!IsAnomaly(scores[i], th)
        BY <2>6
      <4>2. th # F!NoAnomalies /\ scores[i] >= th /\ scores[i] \in Int /\ scores[j] \in Int
        BY <2>9, <4>1 DEF F!IsAnomaly
      <4>3. scores[j] >= th
        BY <2>7, <3>1, <4>2
      <4> QED
        BY <2>6, <4>2, <4>3 DEF F!IsAnomaly
    <3> QED
      BY <3>1
  <2>11. \A i \in finite : i \in top <=> at[i] \in best
    <3>1. \A i \in finite : i \in top <=> \A j \in finite : s[at[j]] <= s[at[i]]
      BY <2>6
    <3>2. \A i \in finite : (\A j \in finite : s[at[j]] <= s[at[i]]) <=> \A k \in 1..m : s[k] <= s[at[i]]
      <4> HIDE DEF finite
      <4> QED
        BY <2>4
    <3> QED
      BY <2>4, <3>1, <3>2
  <2>12. finite # {} => flagged # finite
    <3>1. SUFFICES ASSUME finite # {}
                   PROVE  flagged # finite
      OBVIOUS
    <3>2. m # 0
      <4>1. PICK i : i \in finite
        BY <3>1
      <4> QED
        BY <2>4, <4>1
    <3>3. PICK k \in 1..m : k \notin A
      BY <2>7, <3>2
    <3>4. PICK i \in finite : at[i] = k
      BY <2>4
    <3> QED
      BY <2>8, <3>3, <3>4
  <2>13. flagged \subseteq finite /\ top \subseteq finite
    OBVIOUS
  <2>14. Cardinality(flagged) = Cardinality(A)
    <3> DEFINE g == [i \in flagged |-> at[i]]
    <3> HIDE DEF flagged, A
    <3>4. A \subseteq 1..m
      BY DEF A
    <3>1. g \in Bijection(flagged, A)
      <4>1. g \in [flagged -> A] /\ \A i \in flagged : g[i] = at[i]
        BY <2>8, <2>13
      <4>2. \A i, j \in flagged : g[i] = g[j] => i = j
        BY <2>4, <2>13, <4>1
      <4>3. \A k \in A : \E i \in flagged : g[i] = k
        <5> HIDE DEF finite
        <5> QED
          BY <2>4, <2>8, <3>4, <4>1
      <4> HIDE DEF g
      <4> QED
        BY <4>1, <4>2, <4>3 DEF Bijection, Injection, Surjection, IsInjective
    <3>2. IsFiniteSet(flagged)
      BY <2>4, <2>13, FS_Subset
    <3>3. ExistsBijection(flagged, A)
      BY <3>1 DEF ExistsBijection
    <3> QED
      BY <3>2, <3>3, FS_Bijection
  <2>15. \/ flagged = top
         \/ Cardinality(flagged) * d <= a * (Cardinality(finite) - 1) + d - 1
    <3>1. CASE A = best
      <4> HIDE DEF flagged, top, A, best
      <4> QED
        BY <2>8, <2>11, <2>13, <3>1
    <3>2. CASE Cardinality(A) * d <= a * (m - 1) + d - 1
      <4>1. Cardinality(finite) = m
        BY <2>3 DEF m
      <4> HIDE DEF flagged, A, finite
      <4> QED
        BY <2>14, <3>2, <4>1
    <3> QED
      BY <2>7, <3>1, <3>2
  <2> HIDE DEF flagged, top
  <2>16. /\ \A i \in flagged, j \in finite : scores[j] >= scores[i] => flags[j]
         /\ finite # {} => flagged # finite
         /\ \/ flagged = top
            \/ Cardinality(flagged) * d <= a * (Cardinality(finite) - 1) + d - 1
    BY <2>10, <2>12, <2>15
  <2> QED
    BY <2>16 DEF FlagsFollowContamination, flagged, top, finite, a, d
<1> QED
  BY <1>1, RowsInvariant, ForestInvariant, PTL
=============================================================================
