------------------------------ MODULE LRUCache ------------------------------
(***************************************************************************)
(* The result cache of the NER model (LRUCache in                          *)
(* src/src/include/anofox_ner.hpp) and the inference that fills it         *)
(* (RunSingleInference in src/src/anofox_ner.cpp).  Threads look up and    *)
(* store the entities of texts while SET anofox_ner_cache_size changes the *)
(* capacity.  Every operation of the cache is one critical section of its  *)
(* mutex, hence one action; an inference runs between two of them.         *)
(*                                                                         *)
(* The entities inferred for a text are represented by the text itself.    *)
(***************************************************************************)
EXTENDS Integers, Sequences, FiniteSets, Functions

CONSTANTS
    Texts,       \* texts to run the model on
    Detectors,     \* threads that run inferences
    Capacities,  \* values of anofox_ner_cache_size
    DefaultCapacity,
    Nothing      \* no text; also the result {} of a failed inference

ASSUME CacheAssumption ==
    /\ IsFiniteSet(Texts)
    /\ Capacities \subseteq Nat /\ DefaultCapacity \in Capacities
    /\ Nothing \notin Texts

VARIABLES
    capacity,  \* capacity_
    lruList,   \* lru_list_: keys, most recently used first
    cache,     \* cache_: key -> value
    newer,     \* history: <<k, j>> when k was used after j's last use
    place,        \* where RunSingleInference is in each thread
    todo,      \* texts of the batch a thread has not run yet
    text,      \* the text each thread is running
    result     \* the entities each thread has for it

cacheVars == <<capacity, lruList, cache, newer>>
callVars == <<todo, text, result>>
lruVars == <<cacheVars, place, callVars>>

CacheInit ==
    /\ capacity = DefaultCapacity
    /\ lruList = <<>>
    /\ cache = [k \in {} |-> Nothing]
    /\ newer = {}
    /\ place = [t \in Detectors |-> "idle"]
    /\ todo = [t \in Detectors |-> {}]
    /\ text = [t \in Detectors |-> Nothing]
    /\ result = [t \in Detectors |-> Nothing]

-----------------------------------------------------------------------------
(* The cache.                                                              *)
Keys == DOMAIN cache

Used(k) == {p \in newer : p[1] # k /\ p[2] # k} \cup ({k} \X (Texts \ {k}))

(* list.splice(begin, it): the i-th element moves to the front.            *)
MovedToFront(s, i) ==
    [j \in 1..Len(s) |-> IF j = 1 THEN s[i] ELSE IF j <= i THEN s[j - 1] ELSE s[j]]

(* Mutant: a hit does not refresh the entry.                               *)
TouchNothing(k) == UNCHANGED lruList /\ newer' = Used(k)

Touch(k) ==
    /\ \E i \in 1..Len(lruList) : lruList[i] = k /\ lruList' = MovedToFront(lruList, i)
    /\ newer' = Used(k)

(* How many entries the loop "while size() > n and the list is not empty"  *)
(* leaves, and the keys it erases from the back of the list.               *)
Left(n) ==
    LET excess == Cardinality(Keys) - n IN
    IF excess <= 0 THEN Len(lruList)
    ELSE IF excess >= Len(lruList) THEN 0
    ELSE Len(lruList) - excess

Evicted(n) == {lruList[i] : i \in (Left(n) + 1)..Len(lruList)}

KeepRecent(n) == SubSeq(lruList, 1, Left(n))

(* Put of a new key: entries are evicted down to capacity - 1 before it.   *)
Insert(k, v) ==
    LET n == capacity - 1
        kept == Keys \ Evicted(n) IN
    /\ lruList' = <<k>> \o KeepRecent(n)
    /\ cache' = [j \in kept \cup {k} |-> IF j = k THEN v ELSE cache[j]]
    /\ newer' = Used(k)

Update(k, v) == Touch(k) /\ cache' = [cache EXCEPT ![k] = v]

(* Mutant: no check of the capacity under the lock (issue #50).            *)
PutUnchecked(k, v) == IF k \in Keys THEN Update(k, v) ELSE Insert(k, v)

(* Put; with capacity 0 the cache is disabled.                             *)
Put(k, v) ==
    IF capacity = 0 THEN UNCHANGED <<lruList, cache, newer>>
    ELSE IF k \in Keys THEN Update(k, v)
    ELSE Insert(k, v)

(* Mutant: the eviction erases the list but not the map.                   *)
ShrinkList(n) == lruList' = KeepRecent(n) /\ UNCHANGED cache

Shrink(n) ==
    /\ lruList' = KeepRecent(n)
    /\ cache' = [j \in Keys \ Evicted(n) |-> cache[j]]

-----------------------------------------------------------------------------
(* ExtractEntities and ExtractEntitiesBatch: the distinct texts of a       *)
(* batch, one of them at a time in the order of an unordered map.          *)
StartBatch(t) == \E batch \in SUBSET Texts \ {{}} :
    /\ place[t] = "idle" /\ place' = [place EXCEPT ![t] = "next"]
    /\ todo' = [todo EXCEPT ![t] = batch]
    /\ UNCHANGED <<cacheVars, text, result>>

NextText(t) ==
    /\ place[t] = "next"
    /\ IF todo[t] = {}
       THEN /\ place' = [place EXCEPT ![t] = "idle"]
            /\ UNCHANGED <<todo, text, result>>
       ELSE \E k \in todo[t] :
            /\ place' = [place EXCEPT ![t] = "get"]
            /\ todo' = [todo EXCEPT ![t] = @ \ {k}]
            /\ text' = [text EXCEPT ![t] = k]
            /\ result' = [result EXCEPT ![t] = Nothing]
    /\ UNCHANGED cacheVars

(* RunSingleInference: result_cache_->Get.                                 *)
Get(t) ==
    /\ place[t] = "get"
    /\ IF text[t] \in Keys
       THEN /\ Touch(text[t])
            /\ result' = [result EXCEPT ![t] = cache[text[t]]]
            /\ place' = [place EXCEPT ![t] = "return"]
       ELSE /\ UNCHANGED <<lruList, newer, result>>
            /\ place' = [place EXCEPT ![t] = "infer"]
    /\ UNCHANGED <<capacity, cache, todo, text>>

(* NERInterruptScope::Check throws and ends the statement.                 *)
Interrupt(t) ==
    /\ place[t] = "infer" /\ place' = [place EXCEPT ![t] = "idle"]
    /\ todo' = [todo EXCEPT ![t] = {}]
    /\ UNCHANGED <<cacheVars, text, result>>

(* Mutant: the {} of a failed inference is stored as well.                 *)
InferAndStore(t) ==
    /\ place[t] = "infer" /\ place' = [place EXCEPT ![t] = "put"]
    /\ \/ result' = [result EXCEPT ![t] = text[t]]
       \/ UNCHANGED result
    /\ UNCHANGED <<cacheVars, todo, text>>

(* Tokenize and run the model; an error is traced and returns {}.          *)
Infer(t) ==
    /\ \/ /\ place[t] = "infer" /\ place' = [place EXCEPT ![t] = "put"]
          /\ result' = [result EXCEPT ![t] = text[t]]
       \/ /\ place[t] = "infer" /\ place' = [place EXCEPT ![t] = "failed"]
          /\ UNCHANGED result
    /\ UNCHANGED <<cacheVars, todo, text>>

Store(t) ==
    /\ place[t] = "put" /\ place' = [place EXCEPT ![t] = "return"]
    /\ Put(text[t], result[t])
    /\ UNCHANGED <<capacity, callVars>>

Return(t) ==
    /\ place[t] \in {"return", "failed"} /\ place' = [place EXCEPT ![t] = "next"]
    /\ UNCHANGED <<cacheVars, callVars>>

(* SET anofox_ner_cache_size                                               *)
SetCapacity == \E n \in Capacities :
    /\ capacity' = n
    /\ Shrink(n)
    /\ UNCHANGED <<newer, place, callVars>>

(* ClearCache                                                              *)
Clear ==
    /\ lruList' = <<>>
    /\ cache' = [k \in {} |-> Nothing]
    /\ UNCHANGED <<capacity, newer, place, callVars>>

RunSingleInference(t) ==
    Get(t) \/ Interrupt(t) \/ Infer(t) \/ Store(t) \/ Return(t)

CacheNext ==
    \/ \E t \in Detectors : StartBatch(t) \/ NextText(t) \/ RunSingleInference(t)
    \/ SetCapacity
    \/ Clear

CacheSpec == CacheInit /\ [][CacheNext]_lruVars

-----------------------------------------------------------------------------
CacheTypeOK ==
    /\ capacity \in Capacities
    /\ lruList \in Seq(Texts)
    /\ Keys \subseteq Texts /\ \A k \in Keys : cache[k] \in Texts
    /\ newer \subseteq Texts \X Texts
    /\ place \in [Detectors -> {"idle", "next", "get", "infer", "put", "failed", "return"}]
    /\ todo \in [Detectors -> SUBSET Texts]
    /\ text \in [Detectors -> Texts \cup {Nothing}]
    /\ result \in [Detectors -> Texts \cup {Nothing}]

(* The map and the list, which every operation updates side by side, hold  *)
(* the same keys, and the list holds each of them once: no entry is out of *)
(* the eviction loop's reach and no map entry's iterator dangles.          *)
ListIsMap ==
    /\ Keys = Range(lruList)
    /\ \A i, j \in 1..Len(lruList) : lruList[i] = lruList[j] => i = j

(* The cache never holds more entries than the capacity in force, although *)
(* SET anofox_ner_cache_size can shrink it, to 0 too, between the Get of a *)
(* text and the Put of its result (issue #50).                             *)
WithinCapacity == Cardinality(Keys) <= capacity

(* What a statement gets for a text is what the model infers for it; a     *)
(* failed inference is not remembered, so only the call that failed has {}.*)
OwnResult == \A t \in Detectors : place[t] = "return" => result[t] = text[t]

(* Least recently used: an entry leaves the cache, by a Put or a smaller   *)
(* capacity, only while every entry that stays was used after it.          *)
EvictsLeastRecent ==
    [][\A k \in Keys, j \in Keys' : k \notin Keys' => <<j, k>> \in newer']_lruVars
=============================================================================
