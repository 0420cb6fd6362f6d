---------------------------- MODULE CachesProofs ----------------------------
(***************************************************************************)
(* Proofs about the two caches of the process, LRUCache and DnsCache, for  *)
(* any sets of threads, texts and domains and all capacities.              *)
(*                                                                         *)
(* Of the cache of entities the inductive invariant adds to the checked    *)
(* ones that every cached value is its key's own result and that the list  *)
(* is ordered by recency; of the cache of DNS results that every entry was *)
(* stored in the past, which with its bound says whom an eviction drops.   *)
(***************************************************************************)
EXTENDS LRUCache, DnsCache, FiniteSetTheorems, SequenceTheorems, TLAPS

(* The list is ordered by recency.                                         *)
Ordered == \A i, j \in 1..Len(lruList) : i < j => <<lruList[i], lruList[j]>> \in newer

(* What the mutex protects; every cached value is its key's own result.    *)
CacheInv ==
    /\ capacity \in Capacities
    /\ lruList \in Seq(Texts)
    /\ newer \subseteq Texts \X Texts
    /\ ListIsMap /\ WithinCapacity /\ Ordered
    /\ \A k \in Keys : cache[k] = k

(* What a thread returns, or is about to store, was inferred for its text. *)
ThreadInv ==
    /\ place \in [Detectors -> {"idle", "next", "get", "infer", "put", "failed", "return"}]
    /\ todo \in [Detectors -> SUBSET Texts]
    /\ text \in [Detectors -> Texts \cup {Nothing}]
    /\ result \in [Detectors -> Texts \cup {Nothing}]
    /\ \A t \in Detectors :
          /\ place[t] \in {"get", "infer", "put", "failed", "return"} => text[t] \in Texts
          /\ place[t] \in {"put", "return"} => result[t] = text[t]

IInv == CacheInv /\ ThreadInv

-----------------------------------------------------------------------------
(* The range of a sequence, by membership.                                 *)
LEMMA RangeMember ==
  ASSUME NEW S, NEW s \in Seq(S)
  PROVE  \A x : x \in Range(s) <=> \E i \in 1..Len(s) : s[i] = x
BY LenProperties DEF Range

(* A sequence without duplicates has as many elements as places.           *)
LEMMA InjectiveSize ==
  ASSUME NEW S, NEW s \in Seq(S),
         \A i, j \in 1..Len(s) : s[i] = s[j] => i = j
  PROVE  IsFiniteSet(Range(s)) /\ Cardinality(Range(s)) = Len(s)
<1> DEFINE T == Range(s)
<1>1. Len(s) \in Nat
  BY LenProperties
<1>2. s \in [1..Len(s) -> T] /\ \A x \in T : \E i \in 1..Len(s) : s[i] = x
  BY LenProperties, RangeMember
<1> HIDE DEF T
<1>3. s \in Bijection(1..Len(s), T)
  BY <1>2 DEF Bijection, Injection, Surjection, IsInjective
<1>4. ExistsBijection(1..Len(s), T)
  BY <1>3 DEF ExistsBijection
<1>5. IsFiniteSet(1..Len(s)) /\ Cardinality(1..Len(s)) = Len(s)
  <2>1. Len(s) \in Int /\ 1 \in Int
    BY <1>1
  <2>2. /\ IsFiniteSet(1..Len(s))
        /\ Cardinality(1..Len(s)) = IF 1 > Len(s) THEN 0 ELSE Len(s) - 1 + 1
    BY <2>1, FS_Interval, Zenon
  <2> QED
    BY <1>1, <2>2
<1>6. IsFiniteSet(T) /\ Cardinality(T) = Len(s)
  BY <1>4, <1>5, FS_Bijection
<1> QED
  BY <1>6 DEF T

(* r is s with its m-th element first and the others in their order.       *)
Spliced(r, s, m) ==
    /\ Len(r) = Len(s) /\ r[1] = s[m]
    /\ Range(r) = Range(s)
    /\ \A i, j \in 1..Len(r) : r[i] = r[j] => i = j
    /\ \A i, j \in 2..Len(r) : i < j =>
          \E a, b \in 1..Len(s) : r[i] = s[a] /\ r[j] = s[b] /\ a < b

(* Moving an element of a sequence without duplicates to the front.        *)
LEMMA MovedToFrontProperties ==
  ASSUME NEW S, NEW s \in Seq(S), NEW m \in 1..Len(s),
         \A i, j \in 1..Len(s) : s[i] = s[j] => i = j
  PROVE  MovedToFront(s, m) \in Seq(S) /\ Spliced(MovedToFront(s, m), s, m)
<1> DEFINE r == MovedToFront(s, m)
<1>1. Len(s) \in Nat /\ \A i \in 1..Len(s) : s[i] \in S
  BY LenProperties, ElementOfSeq
<1>2. r \in [1..Len(s) -> S]
  BY <1>1 DEF MovedToFront
<1>3. r \in Seq(S) /\ Len(r) = Len(s)
  BY <1>1, <1>2
<1>4. \A j \in 1..Len(s) : r[j] = IF j = 1 THEN s[m] ELSE IF j <= m THEN s[j - 1] ELSE s[j]
  BY DEF MovedToFront
<1>5. \A i, j \in 1..Len(s) : r[i] = r[j] => i = j
  BY <1>1, <1>4
<1>6. Range(r) = Range(s)
  <2>1. \A i \in 1..Len(s) : \E j \in 1..Len(s) : r[j] = s[i]
    <3> TAKE i \in 1..Len(s)
    <3>1. CASE i = m
      BY <1>1, <1>4, <3>1
    <3>2. CASE i < m
      <4>1. i + 1 \in 1..Len(s) /\ r[i + 1] = s[i]
        BY <1>1, <1>4, <3>2
      <4> QED
        BY <4>1
    <3>3. CASE i > m
      BY <1>1, <1>4, <3>3
    <3> QED
      BY <1>1, <3>1, <3>2, <3>3
  <2>2. \A i \in 1..Len(s) : \E j \in 1..Len(s) : r[i] = s[j]
    BY <1>1, <1>4
  <2>3. \A x : x \in Range(r) <=> \E i \in 1..Len(s) : r[i] = x
    BY <1>3, RangeMember
  <2>4. \A x : x \in Range(s) <=> \E i \in 1..Len(s) : s[i] = x
    BY RangeMember
  <2>5. \A x : x \in Range(r) <=> x \in Range(s)
    BY <2>1, <2>2, <2>3, <2>4
  <2> QED
    BY <2>5
<1>7. \A i, j \in 2..Len(s) : i < j =>
          \E a, b \in 1..Len(s) : r[i] = s[a] /\ r[j] = s[b] /\ a < b
  <2> DEFINE from(x) == IF x <= m THEN x - 1 ELSE x
  <2>1. \A x \in 2..Len(s) : from(x) \in 1..Len(s) /\ r[x] = s[from(x)]
    BY <1>1, <1>4
  <2>2. \A i, j \in 2..Len(s) : i < j => from(i) < from(j)
    BY <1>1
  <2> QED
    BY <2>1, <2>2
<1> HIDE DEF r
<1>8. r \in Seq(S) /\ Spliced(r, s, m)
  BY <1>1, <1>3, <1>4, <1>5, <1>6, <1>7 DEF Spliced
<1> QED
  BY <1>8 DEF r

(* The eviction loop leaves at most n entries, all of them if they fit.    *)
LEMMA LeftValue ==
  ASSUME CacheInv, NEW n \in Nat
  PROVE  /\ Len(lruList) \in Nat /\ Cardinality(Keys) = Len(lruList)
         /\ Left(n) \in 0..Len(lruList) /\ Left(n) <= n
<1>1. Cardinality(Keys) = Len(lruList)
  BY InjectiveSize DEF CacheInv, ListIsMap
<1>2. Len(lruList) \in Nat
  BY LenProperties DEF CacheInv
<1> QED
  BY <1>1, <1>2 DEF Left

(* It keeps the front of the list, and in the map exactly its keys.        *)
LEMMA KeepFront ==
  ASSUME CacheInv, NEW n \in Nat
  PROVE  /\ KeepRecent(n) \in Seq(Texts) /\ Len(KeepRecent(n)) = Left(n)
         /\ \A i \in 1..Left(n) : KeepRecent(n)[i] = lruList[i]
         /\ Keys \ Evicted(n) = Range(KeepRecent(n))
         /\ \A i \in 1..Left(n) : lruList[i] \in Keys
<1>1. Left(n) \in 0..Len(lruList) /\ Len(lruList) \in Nat
  BY LeftValue
<1>2. \A i \in 1..Len(lruList) : lruList[i] \in Texts
  BY ElementOfSeq DEF CacheInv
<1>3. /\ KeepRecent(n) \in Seq(Texts) /\ Len(KeepRecent(n)) = Left(n)
      /\ \A i \in 1..Left(n) : KeepRecent(n)[i] = lruList[i]
  <2>1. \A i \in 1..Left(n) : lruList[i] \in Texts
    BY <1>1, <1>2
  <2> QED
    BY <1>1, <2>1, SubSeqProperties DEF KeepRecent
<1>4. \A x : x \in Keys <=> \E i \in 1..Len(lruList) : lruList[i] = x
  BY RangeMember DEF ListIsMap, CacheInv
<1>5. \A x : x \in Range(KeepRecent(n)) <=> \E i \in 1..Left(n) : lruList[i] = x
  BY <1>3, RangeMember
<1>6. \A x : x \in Evicted(n) <=> \E i \in (Left(n) + 1)..Len(lruList) : lruList[i] = x
  BY DEF Evicted
<1>7. \A x : x \in Keys \ Evicted(n) <=> x \in Range(KeepRecent(n))
  BY <1>1, <1>4, <1>5, <1>6 DEF ListIsMap, CacheInv
<1>8. \A i \in 1..Left(n) : lruList[i] \in Keys
  BY <1>1, <1>4
<1> HIDE DEF Keys
<1> QED
  BY <1>3, <1>7, <1>8

(* A use of an entry permutes the list and keeps it ordered.               *)
LEMMA TouchKeeps ==
  ASSUME CacheInv, NEW k \in Texts, Touch(k)
  PROVE  /\ lruList' \in Seq(Texts) /\ Len(lruList') = Len(lruList)
         /\ Range(lruList') = Keys
         /\ \A i, j \in 1..Len(lruList') : lruList'[i] = lruList'[j] => i = j
         /\ newer' = Used(k) /\ newer' \subseteq Texts \X Texts
         /\ Ordered'
<1>1. PICK m \in 1..Len(lruList) : lruList[m] = k /\ lruList' = MovedToFront(lruList, m)
  BY DEF Touch
<1>2. /\ lruList' \in Seq(Texts) /\ Len(lruList') = Len(lruList) /\ lruList'[1] = k
      /\ Range(lruList') = Range(lruList)
      /\ \A i, j \in 1..Len(lruList') : lruList'[i] = lruList'[j] => i = j
      /\ \A i, j \in 2..Len(lruList') : i < j =>
             \E a, b \in 1..Len(lruList) :
                 lruList'[i] = lruList[a] /\ lruList'[j] = lruList[b] /\ a < b
  <2>1. lruList \in Seq(Texts) /\ \A i, j \in 1..Len(lruList) : lruList[i] = lruList[j] => i = j
    BY DEF CacheInv, ListIsMap
  <2>2. lruList' \in Seq(Texts) /\ Spliced(lruList', lruList, m)
    BY <1>1, <2>1, MovedToFrontProperties
  <2> QED
    BY <1>1, <2>2 DEF Spliced
<1>3. newer' = {p \in newer : p[1] # k /\ p[2] # k} \cup ({k} \X (Texts \ {k}))
  BY DEF Touch, Used
<1>4. newer' \subseteq Texts \X Texts
  BY <1>3 DEF CacheInv
<1>5. Len(lruList') \in Nat /\ \A i \in 1..Len(lruList') : lruList'[i] \in Texts
  BY <1>2, LenProperties, ElementOfSeq
<1>6. Ordered'
  <2> SUFFICES ASSUME NEW i \in 1..Len(lruList'), NEW j \in 1..Len(lruList'), i < j
               PROVE  <<lruList'[i], lruList'[j]>> \in newer'
    BY DEF Ordered, CacheInv
  <2>1. lruList'[j] \in Texts \ {k} /\ 1 \in 1..Len(lruList') /\ j # 1
    BY <1>2, <1>5
  <2>2. CASE i = 1
    BY <1>2, <1>3, <2>1, <2>2
  <2>3. CASE i # 1
    <3>1. lruList'[i] # k /\ i \in 2..Len(lruList') /\ j \in 2..Len(lruList')
      BY <1>2, <1>5, <2>1, <2>3
    <3>2. PICK a, b \in 1..Len(lruList) :
              lruList'[i] = lruList[a] /\ lruList'[j] = lruList[b] /\ a < b
      BY <1>2, <3>1
    <3>3. <<lruList'[i], lruList'[j]>> \in newer
      BY <3>2 DEF Ordered, CacheInv
    <3> QED
      BY <1>3, <2>1, <3>1, <3>3
  <2> QED
    BY <2>2, <2>3
<1> QED
  BY <1>2, <1>4, <1>6 DEF ListIsMap, CacheInv, Touch

(* A new key goes to the front of what the eviction loop leaves.           *)
LEMMA InsertKeeps ==
  ASSUME CacheInv, NEW k \in Texts, k \notin Keys, NEW v,
         capacity # 0, Insert(k, v)
  PROVE  /\ lruList' \in Seq(Texts) /\ Len(lruList') <= capacity
         /\ Keys' = Range(lruList')
         /\ Keys' = (Keys \ Evicted(capacity - 1)) \cup {k}
         /\ \A j \in Keys' : cache'[j] = IF j = k THEN v ELSE cache[j]
         /\ \A i, j \in 1..Len(lruList') : lruList'[i] = lruList'[j] => i = j
         /\ newer' \subseteq Texts \X Texts
         /\ Ordered'
<1> DEFINE n == capacity - 1
           kept == KeepRecent(n)
<1>1. n \in Nat /\ capacity \in Nat
  BY CacheAssumption DEF CacheInv
<1> HIDE DEF n
<1>2. /\ Len(lruList) \in Nat /\ Left(n) \in 0..Len(lruList) /\ Left(n) <= n
      /\ \A i \in 1..Len(lruList) : lruList[i] \in Texts
  BY <1>1, LeftValue, ElementOfSeq DEF CacheInv
<1>3. /\ kept \in Seq(Texts) /\ Len(kept) = Left(n)
      /\ \A i \in 1..Left(n) : kept[i] = lruList[i]
      /\ Keys \ Evicted(n) = Range(kept)
      /\ \A i \in 1..Left(n) : lruList[i] \in Keys
  BY <1>1, KeepFront
<1> HIDE DEF kept
<1>4. lruList' = <<k>> \o kept
  BY DEF Insert, n, kept
<1>5. <<k>> \in Seq(Texts) /\ Len(<<k>>) = 1 /\ <<k>>[1] = k
  OBVIOUS
<1>6. /\ lruList' \in Seq(Texts) /\ Len(lruList') = Left(n) + 1
      /\ lruList'[1] = k
      /\ \A i \in 2..(Left(n) + 1) : lruList'[i] = lruList[i - 1]
  <2>1. /\ lruList' \in Seq(Texts) /\ Len(lruList') = 1 + Left(n)
        /\ \A i \in 1..(1 + Left(n)) : lruList'[i] = IF i <= 1 THEN <<k>>[i] ELSE kept[i - 1]
    BY <1>3, <1>4, <1>5, ConcatProperties
  <2> QED
    BY <1>2, <1>3, <1>5, <2>1
<1>7. Len(lruList') <= capacity
  BY <1>1, <1>2, <1>6 DEF n
<1>8. Keys' = (Keys \ Evicted(n)) \cup {k}
  BY DEF Insert, Keys, n
<1>9. \A j \in Keys' : cache'[j] = IF j = k THEN v ELSE cache[j]
  BY <1>8 DEF Insert, Keys, n
<1>10. Keys' = Range(lruList')
  <2>1. \A i \in 1..Left(n) : i + 1 \in 1..Len(lruList') /\ lruList'[i + 1] = lruList[i]
    BY <1>2, <1>6
  <2>2. \A i \in 2..Len(lruList') : i - 1 \in 1..Left(n) /\ lruList'[i] = lruList[i - 1]
    BY <1>2, <1>6
  <2>3. 1 \in 1..Len(lruList') /\ \A i \in 1..Len(lruList') : i = 1 \/ i \in 2..Len(lruList')
    BY <1>2, <1>6
  <2>4. \A x : x \in Range(kept) <=> \E i \in 1..Left(n) : lruList[i] = x
    BY <1>3, RangeMember
  <2>5. \A x : x \in Range(lruList') <=> \E i \in 1..Len(lruList') : lruList'[i] = x
    BY <1>6, RangeMember
  <2>6. \A x : x \in Range(lruList') <=> x \in Range(kept) \cup {k}
    BY <1>6, <2>1, <2>2, <2>3, <2>4, <2>5
  <2> QED
    BY <1>3, <1>8, <2>6
<1>11. \A i \in 1..Left(n) : lruList[i] # k
  BY <1>3
<1>12. \A i, j \in 1..Len(lruList') : lruList'[i] = lruList'[j] => i = j
  <2> SUFFICES ASSUME NEW i \in 1..Len(lruList'), NEW j \in 1..Len(lruList'),
                      lruList'[i] = lruList'[j]
               PROVE  i = j
    OBVIOUS
  <2>0. \A x \in 2..Len(lruList') : lruList'[x] # k
    <3> TAKE x \in 2..Len(lruList')
    <3>1. x - 1 \in 1..Left(n) /\ lruList'[x] = lruList[x - 1]
      BY <1>2, <1>6
    <3> QED
      BY <1>11, <3>1
  <2>1. CASE i = 1 \/ j = 1
    BY <1>2, <1>6, <2>0, <2>1
  <2>2. CASE i # 1 /\ j # 1
    <3>1. /\ i - 1 \in 1..Len(lruList) /\ lruList'[i] = lruList[i - 1]
          /\ j - 1 \in 1..Len(lruList) /\ lruList'[j] = lruList[j - 1]
      BY <1>2, <1>6, <2>2
    <3>2. i - 1 = j - 1
      BY <3>1 DEF ListIsMap, CacheInv
    <3> QED
      BY <1>6, <1>2, <3>2
  <2> QED
    BY <2>1, <2>2
<1>13. newer' = {p \in newer : p[1] # k /\ p[2] # k} \cup ({k} \X (Texts \ {k}))
  BY DEF Insert, Used
<1>14. newer' \subseteq Texts \X Texts
  BY <1>13 DEF CacheInv
<1>15. Ordered'
  <2> SUFFICES ASSUME NEW i \in 1..Len(lruList'), NEW j \in 1..Len(lruList'), i < j
               PROVE  <<lruList'[i], lruList'[j]>> \in newer'
    BY DEF Ordered, CacheInv
  <2>1. /\ j \in 2..(Left(n) + 1) /\ j - 1 \in 1..Left(n)
        /\ lruList'[j] = lruList[j - 1] /\ lruList'[j] \in Texts \ {k}
    BY <1>2, <1>6, <1>11
  <2>2. CASE i = 1
    BY <1>6, <1>13, <2>1, <2>2
  <2>3. CASE i > 1
    <3>1. lruList'[i] = lruList[i - 1] /\ lruList'[i] # k
      BY <1>2, <1>6, <1>11, <2>3
    <3>2. <<lruList[i - 1], lruList[j - 1]>> \in newer
      <4>1. i - 1 \in 1..Len(lruList) /\ j - 1 \in 1..Len(lruList) /\ i - 1 < j - 1
        BY <1>2, <1>6, <2>1, <2>3
      <4> QED
        BY <4>1 DEF Ordered, CacheInv
    <3> QED
      BY <1>13, <2>1, <3>1, <3>2
  <2> QED
    BY <1>6, <2>2, <2>3
<1> QED
  BY <1>6, <1>7, <1>8, <1>9, <1>10, <1>12, <1>14, <1>15 DEF n


-----------------------------------------------------------------------------
(* The size of the map after a step is the length of its list.             *)
LEMMA SizeNext ==
  ASSUME lruList' \in Seq(Texts), Keys' = Range(lruList'),
         \A i, j \in 1..Len(lruList') : lruList'[i] = lruList'[j] => i = j
  PROVE  Cardinality(Keys') = Len(lruList') /\ Len(lruList') \in Nat
<1>1. Cardinality(Range(lruList')) = Len(lruList')
  BY InjectiveSize
<1>2. Len(lruList') \in Nat
  BY LenProperties
<1> QED
  BY <1>1, <1>2

(* A hit of Get, or Put of a cached key, refreshes the entry.              *)
LEMMA HitStep ==
  ASSUME CacheInv, NEW k \in Keys, Touch(k), UNCHANGED capacity,
         Keys' = Keys, \A j \in Keys' : cache'[j] = j
  PROVE  CacheInv'
<1>1. k \in Texts
  BY RangeMember, ElementOfSeq DEF CacheInv, ListIsMap
<1>2. /\ lruList' \in Seq(Texts) /\ Len(lruList') = Len(lruList)
      /\ Range(lruList') = Keys
      /\ \A i, j \in 1..Len(lruList') : lruList'[i] = lruList'[j] => i = j
      /\ newer' \subseteq Texts \X Texts
      /\ Ordered'
  BY <1>1, TouchKeeps
<1>3. ListIsMap'
  BY <1>2 DEF ListIsMap
<1>4. WithinCapacity'
  BY DEF CacheInv, WithinCapacity
<1> QED
  BY <1>2, <1>3, <1>4 DEF CacheInv

(* Put keeps the cache within its capacity.                                *)
LEMMA PutStep ==
  ASSUME CacheInv, NEW k \in Texts, Put(k, k), UNCHANGED capacity
  PROVE  CacheInv'
<1>1. CASE capacity = 0
  BY <1>1 DEF Put, CacheInv, ListIsMap, WithinCapacity, Ordered, Keys
<1>2. CASE capacity # 0 /\ k \in Keys
  <2>1. Touch(k) /\ cache' = [cache EXCEPT ![k] = k]
    BY <1>2 DEF Put, Update
  <2>2. Keys' = Keys /\ \A j \in Keys' : cache'[j] = j
    BY <1>2, <2>1 DEF Keys, CacheInv
  <2> QED
    BY <1>2, <2>1, <2>2, HitStep
<1>3. CASE capacity # 0 /\ k \notin Keys
  <2>1. Insert(k, k)
    BY <1>3 DEF Put
  <2>2. /\ lruList' \in Seq(Texts) /\ Len(lruList') <= capacity
        /\ Keys' = Range(lruList')
        /\ Keys' = (Keys \ Evicted(capacity - 1)) \cup {k}
        /\ \A j \in Keys' : cache'[j] = IF j = k THEN k ELSE cache[j]
        /\ \A i, j \in 1..Len(lruList') : lruList'[i] = lruList'[j] => i = j
        /\ newer' \subseteq Texts \X Texts
        /\ Ordered'
    BY <1>3, <2>1, InsertKeeps
  <2>3. \A j \in Keys' : cache'[j] = j
    BY <2>2 DEF CacheInv
  <2>4. ListIsMap'
    BY <2>2 DEF ListIsMap
  <2>5. WithinCapacity'
    BY <2>2, SizeNext DEF WithinCapacity
  <2> QED
    BY <2>2, <2>3, <2>4, <2>5 DEF CacheInv
<1> QED
  BY <1>1, <1>2, <1>3

(* A new capacity evicts down to it.                                       *)
LEMMA ShrinkStep ==
  ASSUME CacheInv, NEW n \in Capacities, Shrink(n), capacity' = n, UNCHANGED newer
  PROVE  CacheInv'
<1>1. n \in Nat
  BY CacheAssumption
<1>2. /\ Len(lruList) \in Nat /\ Left(n) \in 0..Len(lruList) /\ Left(n) <= n
      /\ lruList' \in Seq(Texts) /\ Len(lruList') = Left(n)
      /\ \A i \in 1..Left(n) : lruList'[i] = lruList[i]
      /\ Keys \ Evicted(n) = Range(lruList')
  BY <1>1, LeftValue, KeepFront DEF Shrink
<1>3. Keys' = Keys \ Evicted(n) /\ \A j \in Keys' : cache'[j] = cache[j]
  BY DEF Shrink, Keys
<1>4. \A i, j \in 1..Len(lruList') : lruList'[i] = lruList'[j] => i = j
  BY <1>2 DEF CacheInv, ListIsMap
<1>5. ListIsMap'
  BY <1>2, <1>3, <1>4 DEF ListIsMap
<1>6. WithinCapacity'
  BY <1>1, <1>2, <1>3, <1>4, SizeNext DEF WithinCapacity
<1>7. Ordered'
  BY <1>2 DEF Ordered, CacheInv
<1>8. \A j \in Keys' : cache'[j] = j
  BY <1>3 DEF CacheInv
<1> QED
  BY <1>2, <1>5, <1>6, <1>7, <1>8 DEF CacheInv

LEMMA ClearStep ==
  ASSUME CacheInv, Clear
  PROVE  CacheInv'
<1>1. lruList' = <<>> /\ Keys' = {} /\ capacity' = capacity /\ newer' = newer
  BY DEF Clear, Keys
<1>2. lruList' \in Seq(Texts) /\ Len(lruList') = 0 /\ Range(lruList') = {}
  BY <1>1 DEF Range
<1>3. Cardinality(Keys') <= capacity' /\ capacity \in Nat
  BY <1>1, FS_EmptySet, CacheAssumption DEF CacheInv
<1> QED
  BY <1>1, <1>2, <1>3 DEF CacheInv, ListIsMap, WithinCapacity, Ordered

-----------------------------------------------------------------------------
(* A step of RunSingleInference keeps the locals in order: what Get finds  *)
(* and what inference returns is the text's own result.                    *)
LEMMA ThreadInvStep ==
  ASSUME IInv, NEW t \in Detectors,
         StartBatch(t) \/ NextText(t) \/ RunSingleInference(t)
  PROVE  ThreadInv'
<1>1. ThreadInv /\ \A k \in Keys : cache[k] = k
  BY DEF IInv, CacheInv
<1>2. CASE StartBatch(t)
  BY <1>1, <1>2 DEF StartBatch, ThreadInv
<1>3. CASE NextText(t)
  BY <1>1, <1>3 DEF NextText, ThreadInv
<1>4. CASE Get(t)
  BY <1>1, <1>4 DEF Get, ThreadInv
<1>5. CASE Interrupt(t)
  BY <1>1, <1>5 DEF Interrupt, ThreadInv
<1>6. CASE Infer(t)
  BY <1>1, <1>6 DEF Infer, ThreadInv
<1>7. CASE Store(t)
  BY <1>1, <1>7 DEF Store, ThreadInv, callVars
<1>8. CASE Return(t)
  BY <1>1, <1>8 DEF Return, ThreadInv, callVars
<1> QED
  BY <1>2, <1>3, <1>4, <1>5, <1>6, <1>7, <1>8 DEF RunSingleInference

(* ... and so do the operations it performs on the cache.                  *)
LEMMA ThreadCacheStep ==
  ASSUME IInv, NEW t \in Detectors,
         StartBatch(t) \/ NextText(t) \/ RunSingleInference(t)
  PROVE  CacheInv'
<1>1. CacheInv /\ ThreadInv
  BY DEF IInv
<1>2. CASE UNCHANGED cacheVars
  BY <1>1, <1>2 DEF cacheVars, CacheInv, ListIsMap, WithinCapacity, Ordered, Keys
<1>3. CASE Get(t) /\ text[t] \in Keys
  <2>1. Touch(text[t]) /\ UNCHANGED <<capacity, cache>>
    BY <1>3 DEF Get
  <2>2. Keys' = Keys /\ \A j \in Keys' : cache'[j] = j
    BY <1>1, <2>1 DEF Keys, CacheInv
  <2> QED
    BY <1>1, <1>3, <2>1, <2>2, HitStep
<1>4. CASE Get(t) /\ text[t] \notin Keys
  BY <1>2, <1>4 DEF Get, cacheVars
<1>5. CASE Store(t)
  <2>1. place[t] = "put" /\ Put(text[t], result[t]) /\ UNCHANGED capacity
    BY <1>5 DEF Store
  <2>2. text[t] \in Texts /\ result[t] = text[t]
    BY <1>1, <2>1 DEF ThreadInv
  <2> QED
    BY <1>1, <2>1, <2>2, PutStep
<1>6. CASE StartBatch(t) \/ NextText(t) \/ Interrupt(t) \/ Infer(t) \/ Return(t)
  BY <1>2, <1>6 DEF StartBatch, NextText, Interrupt, Infer, Return
<1> QED
  BY <1>3, <1>4, <1>5, <1>6 DEF RunSingleInference

(* The inductive invariant holds in every reachable state.                 *)
THEOREM InductiveInvariant == CacheSpec => []IInv
<1>1. CacheInit => IInv
  <2> SUFFICES ASSUME CacheInit PROVE IInv
    OBVIOUS
  <2>1. lruList = <<>> /\ Keys = {} /\ newer = {} /\ capacity = DefaultCapacity
    BY DEF CacheInit, Keys
  <2>2. lruList \in Seq(Texts) /\ Len(lruList) = 0 /\ Range(lruList) = {}
    BY <2>1 DEF Range
  <2>3. Cardinality(Keys) <= capacity /\ capacity \in Capacities
    BY <2>1, FS_EmptySet, CacheAssumption
  <2>4. CacheInv
    BY <2>1, <2>2, <2>3 DEF CacheInv, ListIsMap, WithinCapacity, Ordered
  <2>5. ThreadInv
    BY DEF CacheInit, ThreadInv
  <2> QED
    BY <2>4, <2>5 DEF IInv
<1>2. IInv /\ [CacheNext]_lruVars => IInv'
  <2> SUFFICES ASSUME IInv, [CacheNext]_lruVars PROVE IInv'
    OBVIOUS
  <2>1. CASE UNCHANGED lruVars
    BY <2>1 DEF lruVars, cacheVars, callVars, IInv, CacheInv, ThreadInv, ListIsMap,
                WithinCapacity, Ordered, Keys
  <2>2. CASE \E t \in Detectors : StartBatch(t) \/ NextText(t) \/ RunSingleInference(t)
    BY <2>2, ThreadInvStep, ThreadCacheStep DEF IInv
  <2>3. CASE SetCapacity \/ Clear
    <3>1. CacheInv'
      BY <2>3, ShrinkStep, ClearStep DEF SetCapacity, IInv
    <3>2. ThreadInv'
      BY <2>3 DEF SetCapacity, Clear, callVars, ThreadInv, IInv
    <3> QED
      BY <3>1, <3>2 DEF IInv
  <2> QED
    BY <2>1, <2>2, <2>3 DEF CacheNext
<1> QED
  BY <1>1, <1>2, PTL DEF CacheSpec

(* Every variable stays in its type.                                       *)
THEOREM TypeCorrect == CacheSpec => []CacheTypeOK
<1>1. IInv => CacheTypeOK
  <2> SUFFICES ASSUME IInv PROVE CacheTypeOK
    OBVIOUS
  <2>1. \A k \in Keys : k \in Texts
    BY RangeMember, ElementOfSeq DEF IInv, CacheInv, ListIsMap
  <2>2. \A k \in Keys : cache[k] = k
    BY DEF IInv, CacheInv
  <2> HIDE DEF Keys
  <2> QED
    BY <2>1, <2>2 DEF IInv, CacheInv, ThreadInv, CacheTypeOK
<1> QED
  BY <1>1, InductiveInvariant, PTL

(* The list and the map hold the same keys, each once.                     *)
THEOREM ListIsMapCorrect == CacheSpec => []ListIsMap
<1>1. IInv => ListIsMap
  BY DEF IInv, CacheInv
<1> QED
  BY <1>1, InductiveInvariant, PTL

(* The cache never exceeds its capacity, however often it shrinks.         *)
THEOREM WithinCapacityCorrect == CacheSpec => []WithinCapacity
<1>1. IInv => WithinCapacity
  BY DEF IInv, CacheInv
<1> QED
  BY <1>1, InductiveInvariant, PTL

(* A statement gets for a text what the model infers for that text.        *)
THEOREM OwnResultCorrect == CacheSpec => []OwnResult
<1>1. IInv => OwnResult
  BY DEF IInv, ThreadInv, OwnResult
<1> QED
  BY <1>1, InductiveInvariant, PTL

-----------------------------------------------------------------------------
(* What the eviction loop erases was used before everything it leaves.     *)
LEMMA EvictedIsOlder ==
  ASSUME CacheInv, NEW n \in Nat, NEW k \in Evicted(n), NEW j \in Keys \ Evicted(n)
  PROVE  <<j, k>> \in newer
<1>1. Left(n) \in 0..Len(lruList) /\ Len(lruList) \in Nat
  BY LeftValue
<1>2. PICK b \in (Left(n) + 1)..Len(lruList) : k = lruList[b]
  BY DEF Evicted
<1>3. PICK a \in 1..Len(lruList) : j = lruList[a]
  BY RangeMember DEF CacheInv, ListIsMap
<1>4. a \notin (Left(n) + 1)..Len(lruList)
  BY <1>3 DEF Evicted
<1>5. b \in 1..Len(lruList) /\ a < b
  BY <1>1, <1>2, <1>3, <1>4
<1> QED
  BY <1>2, <1>3, <1>5 DEF Ordered, CacheInv

(* An entry leaves the cache only while every entry that stays was used    *)
(* after it.                                                               *)
THEOREM EvictsLeastRecentCorrect == CacheSpec => EvictsLeastRecent
<1> DEFINE Fair == \A k \in Keys, j \in Keys' : k \notin Keys' => <<j, k>> \in newer'
<1>1. IInv /\ CacheNext => Fair
  <2> SUFFICES ASSUME IInv, CacheNext, NEW k \in Keys, NEW j \in Keys', k \notin Keys'
               PROVE  <<j, k>> \in newer'
    OBVIOUS
  <2>0. CacheInv /\ ThreadInv /\ k \in Texts
    BY RangeMember, ElementOfSeq DEF IInv, CacheInv, ListIsMap
  <2>1. CASE SetCapacity
    <3>1. PICK n \in Capacities : Shrink(n) /\ newer' = newer
      BY <2>1 DEF SetCapacity
    <3>2. n \in Nat /\ Keys' = Keys \ Evicted(n)
      BY <3>1, CacheAssumption DEF Shrink, Keys
    <3> QED
      BY <2>0, <3>1, <3>2, EvictedIsOlder
  <2>2. CASE Clear
    BY <2>2 DEF Clear, Keys
  <2>3. ASSUME NEW t \in Detectors, Store(t)
        PROVE  <<j, k>> \in newer'
    <3>1. place[t] = "put" /\ Put(text[t], result[t]) /\ text[t] \in Texts
      BY <2>0, <2>3 DEF Store, ThreadInv
    <3>2. capacity # 0 /\ text[t] \notin Keys /\ Insert(text[t], result[t])
      BY <3>1 DEF Put, Update, Keys
    <3>3. /\ Keys' = (Keys \ Evicted(capacity - 1)) \cup {text[t]}
          /\ newer' = Used(text[t])
      BY <3>2 DEF Insert, Keys
    <3>4. capacity - 1 \in Nat
      BY <2>0, <3>2, CacheAssumption DEF CacheInv
    <3>5. k \in Evicted(capacity - 1) /\ k # text[t]
      BY <3>3
    <3>6. CASE j = text[t]
      BY <2>0, <3>3, <3>5, <3>6 DEF Used
    <3>7. CASE j # text[t]
      <4>1. <<j, k>> \in newer
        BY <2>0, <3>3, <3>4, <3>5, <3>7, EvictedIsOlder
      <4> QED
        BY <3>3, <3>5, <3>7, <4>1 DEF Used
    <3> QED
      BY <3>6, <3>7
  <2>4. ASSUME NEW t \in Detectors,
               StartBatch(t) \/ NextText(t) \/ Get(t) \/ Interrupt(t) \/ Infer(t) \/ Return(t)
        PROVE  FALSE
    BY <2>4 DEF StartBatch, NextText, Get, Interrupt, Infer, Return, cacheVars, Keys
  <2> QED
    BY <2>1, <2>2, <2>3, <2>4 DEF CacheNext, RunSingleInference
<1>2. UNCHANGED lruVars => Fair
  BY DEF lruVars, cacheVars, Keys
<1>3. IInv /\ [CacheNext]_lruVars => [Fair]_lruVars
  BY <1>1, <1>2
<1> QED
  BY <1>3, InductiveInvariant, PTL DEF CacheSpec, EvictsLeastRecent

-----------------------------------------------------------------------------
(* What the mutex of the cache of DNS results protects: no more entries    *)
(* than it has room for, each stored in the past.                          *)
EntriesInv ==
    /\ DnsTypeOK
    /\ Bounded
    /\ \A d \in Stored(entries) : entries[d].expires <= now + TTL

(* The stored and the live entries are finitely many.                      *)
LEMMA EntriesAreFinite ==
  ASSUME NEW e
  PROVE  /\ IsFiniteSet(Stored(e)) /\ Cardinality(Stored(e)) \in Nat
         /\ IsFiniteSet(Live(e)) /\ Cardinality(Live(e)) \in Nat
         /\ Live(e) \subseteq Stored(e)
         /\ Cardinality(Live(e)) <= Cardinality(Stored(e))
<1>1. Stored(e) \subseteq Domains /\ Live(e) \subseteq Stored(e)
  BY DEF Stored, Live
<1>2. IsFiniteSet(Stored(e)) /\ IsFiniteSet(Live(e)) /\ Cardinality(Live(e)) <= Cardinality(Stored(e))
  BY <1>1, DnsCacheAssumption, FS_Subset
<1> QED
  BY <1>1, <1>2, FS_CardinalityType

(* What remains when room is made: enough for one more, and of the live    *)
(* entries all, or all but the one that expires soonest.                   *)
LEMMA RemainingProperties ==
  ASSUME EntriesInv, NEW d \in Domains, NEW keys \in Remaining(d)
  PROVE  /\ keys \subseteq Stored(entries)
         /\ d \notin Stored(entries) => Cardinality(keys) < MaxEntries
         /\ \/ Live(entries) \subseteq keys
            \/ /\ Live(entries) = Stored(entries)
               /\ \E s \in Live(entries) :
                     /\ keys = Live(entries) \ {s}
                     /\ \A k \in Live(entries) : entries[s].expires <= entries[k].expires
<1> DEFINE live == Live(entries)
<1>1. /\ Cardinality(Stored(entries)) \in Nat /\ Cardinality(live) \in Nat /\ IsFiniteSet(live)
      /\ live \subseteq Stored(entries) /\ Cardinality(live) <= Cardinality(Stored(entries))
      /\ IsFiniteSet(Stored(entries))
  BY EntriesAreFinite
<1>2. Cardinality(Stored(entries)) <= MaxEntries /\ MaxEntries \in Nat
  BY DnsCacheAssumption DEF EntriesInv, Bounded
<1>3. CASE d \in Stored(entries) \/ Cardinality(Stored(entries)) < MaxEntries
  BY <1>1, <1>2, <1>3 DEF Remaining
<1>4. CASE d \notin Stored(entries) /\ Cardinality(Stored(entries)) >= MaxEntries
  <2>1. keys \in EvictLocked
    BY <1>4 DEF Remaining
  <2>2. CASE Cardinality(live) < MaxEntries
    BY <1>1, <2>1, <2>2 DEF EvictLocked
  <2>3. CASE Cardinality(live) >= MaxEntries
    <3>1. PICK s \in live : keys = live \ {s} /\ \A k \in live : entries[s].expires <= entries[k].expires
      BY <1>1, <1>2, <2>1, <2>3 DEF EvictLocked
    <3>2. Cardinality(keys) = Cardinality(live) - 1
      BY <1>1, <3>1, FS_RemoveElement
    <3>3. live = Stored(entries)
      <4>1. Cardinality(Stored(entries)) = Cardinality(live)
        BY <1>1, <1>2, <2>3
      <4> QED
        BY <1>1, <4>1, FS_Subset
    <3> QED
      BY <1>1, <1>2, <3>1, <3>2, <3>3
  <2> QED
    BY <1>1, <1>2, <2>2, <2>3
<1> QED
  BY <1>1, <1>2, <1>3, <1>4

(* What is stored after an answer was.                                     *)
LEMMA StoredAfterwards ==
  ASSUME EntriesInv, NEW d \in Domains, NEW keys \in SUBSET Domains, NEW o \in Cacheable,
         entries' = [Only(entries, keys) EXCEPT ![d] = [outcome |-> o, expires |-> now + TTL]]
  PROVE  /\ Stored(entries') = (keys \cap Stored(entries)) \cup {d}
         /\ entries' \in [Domains -> Entry \cup {NoEntry}]
         /\ \A k \in keys \ {d} : entries'[k] = entries[k]
         /\ entries'[d].expires = now + TTL
<1> DEFINE new == [outcome |-> o, expires |-> now + TTL]
<1>1. new \in Entry /\ new # NoEntry
  <2>1. now + TTL \in Nat
    BY DnsCacheAssumption DEF EntriesInv, DnsTypeOK, Time
  <2>2. new \in [outcome : Cacheable, expires : Nat]
    BY <2>1
  <2> QED
    BY <2>2, DnsCacheAssumption DEF Entry, Cacheable
<1>2. /\ entries' = [k \in Domains |-> IF k = d THEN new ELSE IF k \in keys THEN entries[k] ELSE NoEntry]
      /\ new.expires = now + TTL
  BY DEF Only
<1>3. entries \in [Domains -> Entry \cup {NoEntry}]
  BY DEF EntriesInv, DnsTypeOK
<1> HIDE DEF new
<1>4. /\ entries' \in [Domains -> Entry \cup {NoEntry}]
      /\ \A k \in keys \ {d} : entries'[k] = entries[k]
      /\ entries'[d] = new
  BY <1>1, <1>2, <1>3
<1>5. Stored(entries') = (keys \cap Stored(entries)) \cup {d}
  BY <1>1, <1>2 DEF Stored
<1> QED
  BY <1>2, <1>4, <1>5

LEMMA InitEntriesInv == DnsInit => EntriesInv
<1> SUFFICES ASSUME DnsInit PROVE EntriesInv
  OBVIOUS
<1>1. DnsTypeOK
  BY DnsCacheAssumption DEF DnsInit, DnsTypeOK, Time
<1>2. Stored(entries) = {}
  BY DEF DnsInit, Stored
<1>3. Bounded
  BY <1>2, DnsCacheAssumption, FS_EmptySet DEF Bounded
<1> QED
  BY <1>1, <1>2, <1>3 DEF EntriesInv

LEMMA NextEntriesInv == EntriesInv /\ [DnsNext]_dnsVars => EntriesInv'
<1> SUFFICES ASSUME EntriesInv, [DnsNext]_dnsVars PROVE EntriesInv'
  OBVIOUS
<1>0. DnsTypeOK /\ TTL \in Nat /\ MaxEntries \in Nat /\ MaxTime \in Nat /\ now \in Nat
      /\ \A d \in Stored(entries) : entries[d].expires \in Nat
  BY DnsCacheAssumption DEF EntriesInv, DnsTypeOK, Time, Stored, Entry
<1>1. ASSUME NEW t \in Resolvers, NEW d \in Domains, Lookup(t, d)
      PROVE  EntriesInv'
  <2>1. DnsTypeOK'
    BY <1>0, <1>1 DEF DnsTypeOK, Lookup, Live, Stored, Entry, Outcomes
  <2>2. Stored(entries') \subseteq Stored(entries) /\ \A k \in Stored(entries') : entries'[k] = entries[k]
    BY <1>0, <1>1 DEF Stored, Lookup, DnsTypeOK
  <2>3. Cardinality(Stored(entries')) <= Cardinality(Stored(entries))
    BY <2>2, EntriesAreFinite, FS_Subset
  <2>4. Bounded'
    BY <1>0, <2>3, EntriesAreFinite DEF Bounded, EntriesInv
  <2>5. now' = now
    BY <1>1 DEF Lookup
  <2> QED
    BY <1>0, <2>1, <2>2, <2>4, <2>5 DEF EntriesInv
<1>2. ASSUME NEW t \in Resolvers, StoreAnswer(t)
      PROVE  EntriesInv'
  <2>1. CASE answer[t] \in Cacheable
    <3>1. domain[t] \in Domains
      BY <1>0 DEF DnsTypeOK
    <3>2. PICK keys \in Remaining(domain[t]) :
             entries' = [Only(entries, keys) EXCEPT
                           ![domain[t]] = [outcome |-> answer[t], expires |-> now + TTL]]
      BY <1>2, <2>1 DEF StoreAnswer
    <3>3. keys \subseteq Stored(entries) /\ (domain[t] \notin Stored(entries) => Cardinality(keys) < MaxEntries)
      BY <3>1, <3>2, RemainingProperties
    <3>4. keys \in SUBSET Domains
      BY <3>3 DEF Stored
    <3>5. /\ Stored(entries') = (keys \cap Stored(entries)) \cup {domain[t]}
          /\ entries' \in [Domains -> Entry \cup {NoEntry}]
          /\ \A k \in keys \ {domain[t]} : entries'[k] = entries[k]
          /\ entries'[domain[t]].expires = now + TTL
      BY <2>1, <3>1, <3>2, <3>4, StoredAfterwards
    <3>6. DnsTypeOK' /\ now' = now
      BY <1>0, <1>2, <3>5 DEF StoreAnswer, DnsTypeOK
    <3>7. Stored(entries') = keys \cup {domain[t]}
      BY <3>3, <3>5
    <3>8. Bounded'
      <4>1. IsFiniteSet(keys) /\ Cardinality(keys) \in Nat /\ Cardinality(keys) <= Cardinality(Stored(entries))
        BY <3>3, EntriesAreFinite, FS_Subset, FS_CardinalityType
      <4>2. CASE domain[t] \in Stored(entries)
        <5>1. Stored(entries') \subseteq Stored(entries)
          BY <3>3, <3>7, <4>2
        <5>2. Cardinality(Stored(entries')) <= Cardinality(Stored(entries))
          BY <5>1, EntriesAreFinite, FS_Subset
        <5> QED
          BY <1>0, <5>2, EntriesAreFinite DEF Bounded, EntriesInv
      <4>3. CASE domain[t] \notin Stored(entries)
        <5>1. Cardinality(keys) < MaxEntries
          BY <3>3, <4>3
        <5>2. Cardinality(Stored(entries')) <= Cardinality(keys) + 1
          <6>1. Cardinality(keys \cup {domain[t]}) = IF domain[t] \in keys THEN Cardinality(keys) ELSE Cardinality(keys) + 1
            BY <4>1, FS_AddElement
          <6> QED
            BY <3>7, <4>1, <6>1
        <5>3. Cardinality(Stored(entries')) \in Nat
          BY EntriesAreFinite
        <5> QED
          BY <1>0, <4>1, <5>1, <5>2, <5>3 DEF Bounded
      <4> QED
        BY <4>2, <4>3
    <3> QED
      BY <1>0, <3>3, <3>5, <3>6, <3>7, <3>8 DEF EntriesInv
  <2>2. CASE answer[t] \notin Cacheable
    BY <1>0, <1>2, <2>2 DEF StoreAnswer, EntriesInv, DnsTypeOK, Bounded, Stored
  <2> QED
    BY <2>1, <2>2
<1>3. ASSUME NEW t \in Resolvers, ResolveUncached(t) \/ ReturnAnswer(t)
      PROVE  EntriesInv'
  BY <1>0, <1>3 DEF ResolveUncached, ReturnAnswer, EntriesInv, DnsTypeOK, Bounded, Stored
<1>4. CASE Tick
  <2>1. now' = now + 1 /\ now' \in Time /\ UNCHANGED <<entries, phase, domain, answer>>
    BY <1>0, <1>4 DEF Tick, Time, DnsTypeOK
  <2>2. DnsTypeOK' /\ Bounded' /\ Stored(entries') = Stored(entries)
    BY <1>0, <2>1 DEF DnsTypeOK, EntriesInv, Bounded, Stored
  <2> QED
    BY <1>0, <2>1, <2>2 DEF EntriesInv
<1>5. CASE UNCHANGED dnsVars
  BY <1>0, <1>5 DEF dnsVars, EntriesInv, DnsTypeOK, Bounded, Stored
<1> QED
  BY <1>1, <1>2, <1>3, <1>4, <1>5 DEF DnsNext, ResolverStep

(* Bounded: "The map is bounded to DNS_CACHE_MAX_ENTRIES", whatever number *)
(* of threads store over each other and evict.                             *)
THEOREM BoundedCorrect == DnsSpec => []Bounded
<1>1. EntriesInv => Bounded
  BY DEF EntriesInv
<1> QED
  BY <1>1, InitEntriesInv, NextEntriesInv, PTL DEF DnsSpec

(* EvictsSoonest: an answer that makes room drops expired entries first,   *)
(* then the live one closest to its expiry, and never a second.            *)
THEOREM EvictsSoonestCorrect == DnsSpec => EvictsSoonest
<1> DEFINE Evicts(t) ==
      LET dropped == Live(entries) \ Stored(entries')
          kept == Stored(entries') \ {domain[t]}
      IN dropped # {} =>
            /\ Cardinality(dropped) = 1
            /\ Live(entries) = Stored(entries)
            /\ \A d \in dropped, k \in kept : entries[d].expires <= entries[k].expires
<1>1. ASSUME EntriesInv, [DnsNext]_dnsVars, NEW t \in Resolvers, phase[t] = "store", phase'[t] = "return"
      PROVE  Evicts(t)
  <2>0. domain[t] \in Domains /\ Live(entries) \subseteq Stored(entries)
    BY <1>1, EntriesAreFinite DEF EntriesInv, DnsTypeOK
  <2>1. StoreAnswer(t)
    BY <1>1 DEF EntriesInv, DnsTypeOK, DnsNext, ResolverStep, Lookup, ResolveUncached, StoreAnswer,
                ReturnAnswer, Tick, dnsVars
  <2>2. CASE answer[t] \notin Cacheable
    <3>1. entries' = entries
      BY <2>1, <2>2 DEF StoreAnswer
    <3> QED
      BY <2>0, <3>1
  <2>3. CASE answer[t] \in Cacheable
    <3>1. PICK keys \in Remaining(domain[t]) :
             entries' = [Only(entries, keys) EXCEPT
                           ![domain[t]] = [outcome |-> answer[t], expires |-> now + TTL]]
      BY <2>1, <2>3 DEF StoreAnswer
    <3>2. /\ keys \subseteq Stored(entries)
          /\ \/ Live(entries) \subseteq keys
             \/ /\ Live(entries) = Stored(entries)
                /\ \E s \in Live(entries) :
                      /\ keys = Live(entries) \ {s}
                      /\ \A k \in Live(entries) : entries[s].expires <= entries[k].expires
      BY <1>1, <2>0, <3>1, RemainingProperties
    <3>3. Stored(entries') = keys \cup {domain[t]}
      <4>1. keys \in SUBSET Domains
        BY <3>2 DEF Stored
      <4>2. Stored(entries') = (keys \cap Stored(entries)) \cup {domain[t]}
        BY <1>1, <2>0, <2>3, <3>1, <4>1, StoredAfterwards
      <4> QED
        BY <3>2, <4>2
    <3>4. CASE Live(entries) \subseteq keys
      BY <3>3, <3>4
    <3>5. ASSUME Live(entries) = Stored(entries), NEW s \in Live(entries), keys = Live(entries) \ {s},
                 \A k \in Live(entries) : entries[s].expires <= entries[k].expires
          PROVE  Evicts(t)
      <4>1. Live(entries) \ Stored(entries') \subseteq {s} /\ Stored(entries') \ {domain[t]} \subseteq Live(entries)
        BY <3>3, <3>5
      <4>2. CASE Live(entries) \ Stored(entries') = {}
        BY <4>2
      <4>3. CASE Live(entries) \ Stored(entries') = {s}
        BY <3>5, <4>1, <4>3, FS_Singleton
      <4> QED
        BY <4>1, <4>2, <4>3
    <3> QED
      BY <3>2, <3>4, <3>5
  <2> QED
    BY <2>2, <2>3
<1>2. EntriesInv /\ [DnsNext]_dnsVars =>
        [\A t \in Resolvers : phase[t] = "store" /\ phase'[t] = "return" => Evicts(t)]_dnsVars
  BY <1>1
<1> QED
  BY <1>2, InitEntriesInv, NextEntriesInv, PTL DEF DnsSpec, EvictsSoonest

(* FreshHits: no row is answered from an entry of TTL seconds ago, through *)
(* all the stores over a live entry and the evictions of others.           *)
THEOREM FreshHitsCorrect == DnsSpec => FreshHits
<1>1. ASSUME EntriesInv, [DnsNext]_dnsVars, NEW t \in Resolvers, phase[t] = "idle", phase'[t] = "return"
      PROVE  now - (entries[domain'[t]].expires - TTL) \in 0..TTL - 1
  <2>1. PICK d \in Domains : Lookup(t, d)
    BY <1>1 DEF EntriesInv, DnsTypeOK, DnsNext, ResolverStep, Lookup, ResolveUncached, StoreAnswer,
                ReturnAnswer, Tick, dnsVars
  <2>2. d \in Live(entries) /\ domain'[t] = d
    BY <1>1, <2>1 DEF Lookup, EntriesInv, DnsTypeOK
  <2>3. /\ d \in Stored(entries) /\ now < entries[d].expires
        /\ entries[d].expires \in Nat /\ entries[d].expires <= now + TTL
        /\ now \in Nat /\ TTL \in Nat
    BY <1>1, <2>2, DnsCacheAssumption DEF EntriesInv, DnsTypeOK, Live, Stored, Entry, Time
  <2> QED
    BY <2>2, <2>3
<1>2. EntriesInv /\ [DnsNext]_dnsVars =>
        [\A t \in Resolvers : phase[t] = "idle" /\ phase'[t] = "return" =>
            now - (entries[domain'[t]].expires - TTL) \in 0..TTL - 1]_dnsVars
  BY <1>1
<1> QED
  BY <1>2, InitEntriesInv, NextEntriesInv, PTL DEF DnsSpec, FreshHits
=============================================================================
