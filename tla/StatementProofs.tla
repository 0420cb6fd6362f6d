--------------------------- MODULE StatementProofs ---------------------------
(***************************************************************************)
(* Proofs about a statement that uses PII functions: what it runs with     *)
(* (StatementSettings), for any connections, workers and SETs, and what    *)
(* its scan of a table reports (PIIScan), for any tables, texts, settings  *)
(* and changes by other connections.                                       *)
(*                                                                         *)
(* A report is true by an invariant of the matches on their way to it:     *)
(* those of the value at hand and of the column so far are of enabled      *)
(* types, and an entity among them means that the model is loaded, which   *)
(* it stays; and what Detect found is found again, step by step, when Mask *)
(* detects once more.                                                      *)
(***************************************************************************)
EXTENDS StatementSettings, PIIScan, Integers, FunctionTheorems, FiniteSetTheorems, SequenceTheorems, TLAPS

(* A worker inside Get holds the mutex of its connection, and works for a  *)
(* statement that runs.                                                    *)
Exclusive ==
    \A c \in Connections, w \in Workers :
        pc[c][w] # "idle" => mutex[c] = w /\ running[c]

(* A worker that takes a snapshot found none; one that copies it has one.  *)
Tested ==
    \A c \in Connections, w \in Workers :
        /\ pc[c][w] = "take" => snapshot[c] = None
        /\ pc[c][w] = "copy" => snapshot[c] # None

(* The chunks of a running statement have seen its snapshot only, which is *)
(* no older than the statement.                                            *)
SeenSnapshot ==
    \A c \in Connections : running[c] =>
        /\ began[c] <= config
        /\ seen[c] \subseteq {snapshot[c]}
        /\ snapshot[c] = None => seen[c] = {}
        /\ snapshot[c] # None => began[c] <= snapshot[c]

(* The inductive invariant.  What a statement has seen outlives it, so the *)
(* two properties are parts of it.                                         *)
SettingsInv == SettingsTypeOK /\ Exclusive /\ Tested /\ SeenSnapshot /\ OneConfiguration /\ CurrentConfiguration

-----------------------------------------------------------------------------
LEMMA InitEstablishes == SettingsInit => SettingsInv
BY SettingsAssumption
   DEF SettingsInit, SettingsInv, SettingsTypeOK, Exclusive, Tested, SeenSnapshot, OneConfiguration, CurrentConfiguration

(* A SET changes the settings and nothing a statement has taken.           *)
LEMMA SetPreserves == SettingsInv /\ Set => SettingsInv'
<1> SUFFICES ASSUME SettingsInv, Set PROVE SettingsInv'
    OBVIOUS
<1> USE SettingsAssumption DEF SettingsInv, Set
<1>1. SettingsTypeOK'
    BY DEF SettingsTypeOK
<1>2. Exclusive' /\ Tested' /\ OneConfiguration' /\ CurrentConfiguration'
    BY DEF Exclusive, Tested, OneConfiguration, CurrentConfiguration
<1>3. SeenSnapshot'
    BY DEF SeenSnapshot, SettingsTypeOK
<1>4. QED
    BY <1>1, <1>2, <1>3

(* A statement begins with no snapshot and nothing seen.                   *)
LEMMA QueryBeginPreserves ==
    ASSUME SettingsInv, NEW c \in Connections, QueryBegin(c) PROVE SettingsInv'
<1> USE SettingsAssumption DEF SettingsInv, QueryBegin, Reset
<1>1. \A w \in Workers : pc[c][w] = "idle"
    BY DEF Exclusive
<1>2. SettingsTypeOK'
    BY DEF SettingsTypeOK
<1>3. Exclusive'
    BY DEF Exclusive, SettingsTypeOK
<1>4. Tested'
    BY <1>1 DEF Tested, SettingsTypeOK
<1>5. SeenSnapshot'
    BY DEF SeenSnapshot, SettingsTypeOK
<1>6. OneConfiguration' /\ CurrentConfiguration'
    BY DEF OneConfiguration, CurrentConfiguration, SettingsTypeOK
<1>7. QED
    BY <1>2, <1>3, <1>4, <1>5, <1>6

LEMMA QueryEndPreserves ==
    ASSUME SettingsInv, NEW c \in Connections, QueryEnd(c) PROVE SettingsInv'
<1> USE SettingsAssumption DEF SettingsInv, QueryEnd, Reset
<1>1. SettingsTypeOK'
    BY DEF SettingsTypeOK
<1>2. Exclusive'
    BY DEF Exclusive, SettingsTypeOK
<1>3. Tested'
    BY DEF Tested, SettingsTypeOK
<1>4. SeenSnapshot'
    BY DEF SeenSnapshot, SettingsTypeOK
<1>5. OneConfiguration' /\ CurrentConfiguration'
    BY DEF OneConfiguration, CurrentConfiguration
<1>6. QED
    BY <1>1, <1>2, <1>3, <1>4, <1>5

(* Folding happens outside of a statement, where nobody tests the snapshot. *)
LEMMA FoldConstantPreserves ==
    ASSUME SettingsInv, NEW c \in Connections, FoldConstant(c) PROVE SettingsInv'
<1> USE SettingsAssumption DEF SettingsInv, FoldConstant
<1>1. \A w \in Workers : pc[c][w] = "idle"
    BY DEF Exclusive
<1>2. SettingsTypeOK'
    BY DEF SettingsTypeOK
<1>3. Exclusive'
    BY DEF Exclusive
<1>4. Tested'
    BY <1>1 DEF Tested, SettingsTypeOK
<1>5. SeenSnapshot'
    BY DEF SeenSnapshot, SettingsTypeOK
<1>6. OneConfiguration' /\ CurrentConfiguration'
    BY DEF OneConfiguration, CurrentConfiguration
<1>7. QED
    BY <1>2, <1>3, <1>4, <1>5, <1>6

-----------------------------------------------------------------------------
(* Get finds the mutex free, so no other worker is inside.                 *)
LEMMA GetPreserves ==
    ASSUME SettingsInv, NEW c \in Connections, NEW w \in Workers, Get(c, w) PROVE SettingsInv'
<1> USE SettingsAssumption DEF SettingsInv, Get, Goto
<1>1. SettingsTypeOK'
    BY DEF SettingsTypeOK
<1>2. \A v \in Workers : pc[c][v] = "idle"
    BY DEF Exclusive
<1>3. Exclusive'
    BY <1>2 DEF Exclusive, SettingsTypeOK
<1>4. Tested'
    BY DEF Tested, SettingsTypeOK
<1>5. SeenSnapshot' /\ OneConfiguration' /\ CurrentConfiguration'
    BY DEF SeenSnapshot, OneConfiguration, CurrentConfiguration
<1>6. QED
    BY <1>1, <1>3, <1>4, <1>5

LEMMA HasSnapshotPreserves ==
    ASSUME SettingsInv, NEW c \in Connections, NEW w \in Workers, HasSnapshot(c, w) PROVE SettingsInv'
<1> USE SettingsAssumption DEF SettingsInv, HasSnapshot, Goto
<1>1. SettingsTypeOK'
    <2>1. PICK to \in {"take", "copy"} : pc' = [pc EXCEPT ![c][w] = to]
        OBVIOUS
    <2>2. pc' \in [Connections -> [Workers -> {"idle", "test", "take", "copy"}]]
        BY <2>1 DEF SettingsTypeOK
    <2>3. \A d \in Connections : mutex'[d] # None => pc'[d][mutex'[d]] # "idle"
        BY <2>1 DEF SettingsTypeOK
    <2>4. QED
        BY <2>2, <2>3 DEF SettingsTypeOK
<1>2. Exclusive'
    BY DEF Exclusive, SettingsTypeOK
<1>3. Tested'
    BY DEF Tested, SettingsTypeOK
<1>4. SeenSnapshot' /\ OneConfiguration' /\ CurrentConfiguration'
    BY DEF SeenSnapshot, OneConfiguration, CurrentConfiguration
<1>5. QED
    BY <1>1, <1>2, <1>3, <1>4

(* The worker that takes the snapshot is the only one inside, and found    *)
(* none: the statement has seen nothing yet.                               *)
LEMMA TakePreserves ==
    ASSUME SettingsInv, NEW c \in Connections, NEW w \in Workers, Take(c, w) PROVE SettingsInv'
<1> USE SettingsAssumption DEF SettingsInv, Take, Goto
<1>1. SettingsTypeOK'
    BY DEF SettingsTypeOK
<1>2. \A v \in Workers : v # w => pc[c][v] = "idle"
    BY DEF Exclusive
<1>3. snapshot[c] = None /\ running[c]
    BY DEF Exclusive, Tested
<1>4. Exclusive'
    BY DEF Exclusive, SettingsTypeOK
<1>5. Tested'
    BY <1>2 DEF Tested, SettingsTypeOK
<1>6. SeenSnapshot'
    BY <1>3 DEF SeenSnapshot, SettingsTypeOK
<1>7. OneConfiguration' /\ CurrentConfiguration'
    BY DEF OneConfiguration, CurrentConfiguration
<1>8. QED
    BY <1>1, <1>4, <1>5, <1>6, <1>7

(* A chunk adds the snapshot to what the statement has seen: it is all of  *)
(* it.                                                                     *)
LEMMA CopyPreserves ==
    ASSUME SettingsInv, NEW c \in Connections, NEW w \in Workers, Copy(c, w) PROVE SettingsInv'
<1> USE SettingsAssumption DEF SettingsInv, Copy, Goto
<1>1. snapshot[c] \in 0..MaxSets /\ running[c] /\ mutex[c] = w
    BY DEF Exclusive, Tested, SettingsTypeOK
<1>2. seen[c] \subseteq {snapshot[c]} /\ began[c] <= snapshot[c]
    BY <1>1 DEF SeenSnapshot
<1>3. seen'[c] = {snapshot[c]} /\ \A d \in Connections : d # c => seen'[d] = seen[d]
    BY <1>2 DEF SettingsTypeOK
<1>4. SettingsTypeOK'
    BY <1>1 DEF SettingsTypeOK
<1>5. Exclusive'
    BY <1>1 DEF Exclusive, SettingsTypeOK
<1>6. Tested'
    BY DEF Tested, SettingsTypeOK
<1>7. SeenSnapshot'
    BY <1>1, <1>2, <1>3 DEF SeenSnapshot
<1>8. OneConfiguration' /\ CurrentConfiguration'
    BY <1>2, <1>3 DEF OneConfiguration, CurrentConfiguration
<1>9. QED
    BY <1>4, <1>5, <1>6, <1>7, <1>8

-----------------------------------------------------------------------------
LEMMA StepPreserves == SettingsInv /\ [SettingsNext]_settingsVars => SettingsInv'
<1> SUFFICES ASSUME SettingsInv, [SettingsNext]_settingsVars PROVE SettingsInv'
    OBVIOUS
<1>1. CASE UNCHANGED settingsVars
    BY <1>1 DEF settingsVars, SettingsInv, SettingsTypeOK, Exclusive, Tested, SeenSnapshot, OneConfiguration, CurrentConfiguration
<1>2. CASE SettingsNext
    BY <1>2, SetPreserves, QueryBeginPreserves, QueryEndPreserves, FoldConstantPreserves, GetPreserves,
       HasSnapshotPreserves, TakePreserves, CopyPreserves
       DEF SettingsNext, WorkerStep
<1>3. QED
    BY <1>1, <1>2

LEMMA Invariance == SettingsSpec => []SettingsInv
BY InitEstablishes, StepPreserves, PTL DEF SettingsSpec

(* Every variable stays in its type, and a mutex that is held has a worker *)
(* inside Get.                                                             *)
THEOREM TypeCorrect == SettingsSpec => []SettingsTypeOK
BY Invariance, PTL DEF SettingsInv

(* No statement mixes two configurations: StatementSettings::Get.          *)
THEOREM OneConfigurationCorrect == SettingsSpec => []OneConfiguration
BY Invariance, PTL DEF SettingsInv

(* No statement uses settings older than those in force when it began:     *)
(* QueryBegin and QueryEnd drop the snapshot.                              *)
THEOREM CurrentConfigurationCorrect == SettingsSpec => []CurrentConfiguration
BY Invariance, PTL DEF SettingsInv

-----------------------------------------------------------------------------
(* An interval of numbers from 1 has as many elements as its last.         *)
LEMMA IntervalSize ==
  ASSUME NEW n \in Nat
  PROVE  IsFiniteSet(1..n) /\ Cardinality(1..n) = n
<1>1. n \in Int /\ 1 \in Int
  OBVIOUS
<1>2. /\ IsFiniteSet(1..n)
      /\ Cardinality(1..n) = IF 1 > n THEN 0 ELSE n - 1 + 1
  BY <1>1, FS_Interval, Zenon
<1> QED
  BY <1>2

(* A finite set can be put in the order of any ranks, ties in some order.  *)
LEMMA OrderExists ==
  ASSUME NEW S, IsFiniteSet(S), NEW r \in [S -> Nat]
  PROVE  \E s \in [1..Cardinality(S) -> S] :
            \A i, j \in DOMAIN s : i < j => s[i] # s[j] /\ r[s[i]] <= r[s[j]]
<1> DEFINE n == Cardinality(S)
<1>1. n \in Nat /\ ExistsBijection(1..n, S) /\ IsFiniteSet(1..n) /\ Cardinality(1..n) = n
  BY FS_CardinalityType, IntervalSize
<1>2. PICK g \in Bijection(1..n, S) : TRUE
  BY <1>1 DEF ExistsBijection
<1> DEFINE Place(x) == CHOOSE i \in 1..n : g[i] = x
           Precedes(a, b) == r[a] < r[b] \/ (r[a] = r[b] /\ Place(a) < Place(b))
           UpTo(b) == {a \in S : Precedes(a, b) \/ a = b}
<1>3. \A x \in S : Place(x) \in 1..n /\ g[Place(x)] = x
  <2>1. \A x \in S : \E i \in 1..n : g[i] = x
    BY <1>2 DEF Bijection, Surjection
  <2> QED
    BY <2>1
<1> HIDE DEF Place, n
<1>4. \A a, b \in S : Place(a) \in Nat /\ r[a] \in Nat /\ (Place(a) = Place(b) => a = b)
  BY <1>1, <1>3
<1>5. /\ \A a, b \in S : a = b \/ Precedes(a, b) \/ Precedes(b, a)
      /\ \A a, b \in S : ~(Precedes(a, b) /\ Precedes(b, a))
      /\ \A a, b, c \in S : Precedes(a, b) /\ Precedes(b, c) => Precedes(a, c)
      /\ \A a \in S : ~Precedes(a, a)
  BY <1>4
<1>6. \A a, b \in S : Precedes(a, b) => r[a] <= r[b]
  BY <1>4
<1> HIDE DEF Precedes
<1>7. \A b \in S : IsFiniteSet(UpTo(b)) /\ Cardinality(UpTo(b)) \in 1..n
  <2>1. ASSUME NEW b \in S
        PROVE  IsFiniteSet(UpTo(b)) /\ Cardinality(UpTo(b)) \in 1..n
    <3>1. UpTo(b) \in SUBSET S /\ b \in UpTo(b)
      OBVIOUS
    <3>2. IsFiniteSet(UpTo(b)) /\ Cardinality(UpTo(b)) <= n
      BY <3>1, FS_Subset DEF n
    <3>3. Cardinality(UpTo(b)) \in Nat /\ Cardinality(UpTo(b)) # 0
      BY <3>1, <3>2, FS_CardinalityType, FS_EmptySet
    <3> QED
      BY <1>1, <3>2, <3>3
  <2> QED
    BY <2>1
<1>8. \A a, b \in S : Precedes(a, b) => Cardinality(UpTo(a)) < Cardinality(UpTo(b))
  <2>1. ASSUME NEW a \in S, NEW b \in S, Precedes(a, b)
        PROVE  Cardinality(UpTo(a)) < Cardinality(UpTo(b))
    <3>1. UpTo(a) \in SUBSET UpTo(b) /\ UpTo(a) # UpTo(b)
      BY <1>5, <2>1
    <3>2. /\ Cardinality(UpTo(a)) <= Cardinality(UpTo(b))
          /\ Cardinality(UpTo(a)) # Cardinality(UpTo(b))
      BY <1>7, <3>1, FS_Subset
    <3>3. Cardinality(UpTo(a)) \in Nat /\ Cardinality(UpTo(b)) \in Nat
      <4>1. Cardinality(UpTo(a)) \in 1..n /\ Cardinality(UpTo(b)) \in 1..n
        BY <1>7
      <4> HIDE DEF UpTo
      <4> QED
        BY <1>1, <4>1
    <3> HIDE DEF UpTo
    <3> QED
      BY <3>2, <3>3
  <2> QED
    BY <2>1
<1> DEFINE f == [b \in S |-> Cardinality(UpTo(b))]
<1>9. f \in [S -> 1..n]
  BY <1>7
<1> HIDE DEF UpTo
<1>10. \A a, b \in S : Precedes(a, b) => f[a] < f[b]
  BY <1>8
<1> HIDE DEF f
<1>11. f \in Injection(S, 1..n)
  <2>1. \A a, b \in S : f[a] = f[b] => a = b
    BY <1>1, <1>5, <1>9, <1>10
  <2> QED
    BY <1>9, <2>1 DEF Injection, IsInjective
<1>12. f \in Surjection(S, 1..n)
  BY <1>1, <1>11, FS_Injection DEF n
<1> DEFINE s == [i \in 1..n |-> CHOOSE x \in S : f[x] = i]
<1>13. \A i \in 1..n : s[i] \in S /\ f[s[i]] = i
  <2>1. \A i \in 1..n : \E x \in S : f[x] = i
    BY <1>12 DEF Surjection
  <2> QED
    BY <2>1
<1>14. s \in [1..n -> S] /\ \A i, j \in 1..n : i # j => s[i] # s[j]
  BY <1>13
<1>15. DOMAIN s = 1..n
  OBVIOUS
<1> HIDE DEF s
<1>16. \A i, j \in 1..n : i < j => r[s[i]] <= r[s[j]]
  <2>1. ASSUME NEW i \in 1..n, NEW j \in 1..n, i < j
        PROVE  r[s[i]] <= r[s[j]]
    <3>1. ~Precedes(s[j], s[i]) /\ s[i] # s[j]
      BY <1>1, <1>10, <1>13, <2>1
    <3> QED
      BY <1>5, <1>6, <1>13, <3>1
  <2> QED
    BY <2>1
<1>17. s \in [1..Cardinality(S) -> S] /\ \A i, j \in DOMAIN s : i < j => s[i] # s[j] /\ r[s[i]] <= r[s[j]]
  <2>1. \A i, j \in 1..n : i < j => s[i] # s[j]
    BY <1>1, <1>14
  <2> QED
    BY <1>14, <1>15, <1>16, <2>1 DEF n
<1> QED
  BY <1>17

(* The matches of a text, sorted: as many and no others.                   *)
LEMMA SortedProperties ==
  ASSUME NEW matches, IsFiniteSet(matches), \A m \in matches : m[2] \in Nat
  PROVE  Sorted(matches) \in [1..Cardinality(matches) -> matches]
<1>1. [m \in matches |-> m[2]] \in [matches -> Nat]
  OBVIOUS
<1>2. \E s \in [1..Cardinality(matches) -> matches] : \A i, j \in DOMAIN s :
         i < j => s[i] # s[j] /\ [m \in matches |-> m[2]][s[i]] <= [m \in matches |-> m[2]][s[j]]
  BY <1>1, OrderExists
<1>3. \E s \in [1..Cardinality(matches) -> matches] : \A i, j \in DOMAIN s :
         i < j => s[i] # s[j] /\ s[i][2] <= s[j][2]
  BY <1>2
<1> QED
  BY <1>3 DEF Sorted, Ordered

(* The numbers of rows, ascending.                                         *)
LEMMA AscendingProperties ==
  ASSUME NEW numbers \in SUBSET Nat, IsFiniteSet(numbers)
  PROVE  Ascending(numbers) \in [1..Cardinality(numbers) -> numbers]
<1>1. [n \in numbers |-> n] \in [numbers -> Nat]
  OBVIOUS
<1>2. \E s \in [1..Cardinality(numbers) -> numbers] : \A i, j \in DOMAIN s :
         i < j => s[i] # s[j] /\ [n \in numbers |-> n][s[i]] <= [n \in numbers |-> n][s[j]]
  BY <1>1, OrderExists
<1>3. \E s \in [1..Cardinality(numbers) -> numbers] : \A i, j \in DOMAIN s :
         i < j => s[i] # s[j] /\ s[i] <= s[j]
  BY <1>2
<1> QED
  BY <1>3 DEF Ascending, Ordered
-----------------------------------------------------------------------------
Elements(s) == {s[i] : i \in 1..Len(s)}
IsSeq(s) == s \in Seq(Elements(s))

(* What may be read of a table, and what is found in it.                   *)
Values == DOMAIN Reading \cup {Null, Fails}
Lines == [text : Values, id : Values]
Findings == Types \X Nat

CursorTypes ==
    /\ committed \in Tables
    /\ cursor \in [rows : Seq(Lines), batch : Seq(Lines), row : Nat, matches : SUBSET Findings,
                   tried : BOOLEAN, detected : {Null} \cup SUBSET Findings, values : Nat,
                   found : Seq((DOMAIN Reading) \X Findings)]
    /\ \A i \in 1..Len(cursor.batch) : cursor.batch[i].text # Fails

(* A match of a text: of an enabled type, and of a pattern, or found when  *)
(* the model was asked; an entity is one of the model that is loaded, and  *)
(* stays so.                                                               *)
TrueOf(t, m) ==
    /\ IsEnabled(m[1])
    /\ \/ m \in Reading[t].patterns
       \/ /\ WantsNER /\ Reading[t].letters
          /\ m \in Reading[t].dictionary \/ (m \in Reading[t].entities /\ ner = "LOADED")

InCell == step \in {"patterns", "found"} \cup NERTypes \/ (step = "require" /\ ~IsScan)

(* The value that is looked at.                                            *)
Cell ==
    /\ InCell => cursor.batch # <<>> /\ Line.text \in DOMAIN Reading
    /\ step \in NERTypes => WantsNER /\ Reading[Line.text].letters
    /\ step \in NERTypes \cup {"found"} => \A m \in cursor.matches : TrueOf(Line.text, m)

(* What Detect found of the patterns of a text is found again while Mask   *)
(* detects.                                                                *)
FoundAgain(m) ==
    /\ TrueOf(Line.text, m)
    /\ step \in NERTypes \cup {"found"} /\ m[1] = "EMAIL" => m \in cursor.matches

Masking ==
    cursor.detected # Null /\ step # "failed" =>
        InCell /\ ~IsScan /\ \A m \in cursor.detected : FoundAgain(m)

(* What was found in the column.                                           *)
Findable(m) ==
    /\ m[1] \in Types /\ IsEnabled(m[1])
    /\ m[1] = "ORGANIZATION" => WantsNER /\ ner = "LOADED"

Between ==
    /\ step \in {"idle", "plan", "open"} => cursor = NoCursor
    /\ step = "idle" => report = <<>>

Report == IsSeq(report) /\ FoundWasChecked /\ PatternsAreMasked

ScanInv ==
    /\ CursorTypes /\ Between /\ Cell /\ Masking
    /\ \A i \in 1..Len(cursor.found) : Findable(cursor.found[i][2])
    /\ Report

-----------------------------------------------------------------------------
(* A sequence, by its elements.                                            *)
LEMMA SequenceElements ==
  ASSUME NEW S, NEW s \in Seq(S)
  PROVE  IsSeq(s) /\ Elements(s) \subseteq S
<1>1. Len(s) \in Nat /\ s \in [1..Len(s) -> S]
  BY LenProperties
<1>2. s \in [1..Len(s) -> Elements(s)] /\ Elements(s) \subseteq S
  BY <1>1 DEF Elements
<1>3. s \in Seq(Elements(s))
  <2> HIDE DEF Elements
  <2> QED
    BY <1>1, <1>2, SeqDef
<1> QED
  BY <1>2, <1>3 DEF IsSeq

(* What is put behind a sequence comes to its elements.                    *)
LEMMA ConcatElements ==
  ASSUME NEW s, NEW t, IsSeq(s), IsSeq(t)
  PROVE  /\ IsSeq(s \o t)
         /\ \A x \in Elements(s \o t) : x \in Elements(s) \/ x \in Elements(t)
<1> DEFINE S == Elements(s) \cup Elements(t)
<1>1. s \in Seq(S) /\ t \in Seq(S)
  <2>1. s \in Seq(Elements(s)) /\ t \in Seq(Elements(t))
    BY DEF IsSeq
  <2>2. Elements(s) \subseteq S /\ Elements(t) \subseteq S
    OBVIOUS
  <2> HIDE DEF S
  <2> QED
    BY <2>1, <2>2, SeqMonotonic
<1>2. s \o t \in Seq(S)
  <2> HIDE DEF S
  <2> QED
    BY <1>1, ConcatProperties
<1>3. IsSeq(s \o t) /\ Elements(s \o t) \subseteq S
  <2> HIDE DEF S
  <2> QED
    BY <1>2, SequenceElements
<1> QED
  BY <1>3

(* A row, and no row.                                                      *)
LEMMA ShortSequences ==
  /\ IsSeq(<<>>) /\ Elements(<<>>) = {}
  /\ \A x : IsSeq(<<x>>) /\ Elements(<<x>>) = {x}
<1>1. IsSeq(<<>>) /\ Elements(<<>>) = {}
  <2> DEFINE s == <<>>
  <2>1. s \in Seq({}) /\ Len(s) = 0
    BY EmptySeq
  <2> HIDE DEF s
  <2>2. IsSeq(s)
    BY <2>1, SequenceElements
  <2>3. Elements(s) = {}
    BY <2>1 DEF Elements
  <2> QED
    BY <2>2, <2>3 DEF s
<1>2. ASSUME NEW x PROVE IsSeq(<<x>>) /\ Elements(<<x>>) = {x}
  <2>1. <<x>> \in Seq({x}) /\ Len(<<x>>) = 1 /\ <<x>>[1] = x
    OBVIOUS
  <2>2. Elements(<<x>>) = {<<x>>[i] : i \in {1}}
    BY <2>1 DEF Elements
  <2> QED
    BY <2>1, <2>2, SequenceElements
<1> QED
  BY <1>1, <1>2

(* A list of as many as a number says.                                     *)
LEMMA ListElements ==
  ASSUME NEW n \in Nat, NEW f \in [1..n -> Findings], NEW t
  PROVE  /\ [i \in 1..n |-> <<t, f[i]>>] \in Seq({t} \X Findings)
         /\ Len([i \in 1..n |-> <<t, f[i]>>]) = n
<1>1. [i \in 1..n |-> <<t, f[i]>>] \in [1..n -> {t} \X Findings]
  OBVIOUS
<1> QED
  BY <1>1, SeqDef

-----------------------------------------------------------------------------
(* The matches of a text are finitely many, of types of their own.         *)
LEMMA TrueMatches ==
  ASSUME NEW t \in DOMAIN Reading, NEW M, \A m \in M : TrueOf(t, m)
  PROVE  /\ M \in SUBSET Findings /\ IsFiniteSet(M)
         /\ \A m \in M : Findable(m)
<1> DEFINE All == Reading[t].patterns \cup Reading[t].entities \cup Reading[t].dictionary
<1>1. M \in SUBSET All
  BY DEF TrueOf
<1>2. IsFiniteSet(All)
  BY ScanAssumption, FS_Union
<1>3. /\ Reading[t].patterns \subseteq {"EMAIL"} \X Nat
      /\ Reading[t].entities \subseteq NERTypes \X Nat
      /\ Reading[t].dictionary \subseteq {"NAME"} \X Nat
  BY ScanAssumption
<1>4. M \in SUBSET Findings
  BY <1>1, <1>3 DEF Findings, Types, NERTypes
<1>5. \A m \in M : Findable(m)
  BY <1>3 DEF TrueOf, Findable, Types, NERTypes
<1>6. IsFiniteSet(M)
  BY <1>1, <1>2, FS_Subset
<1> QED
  BY <1>4, <1>5, <1>6

(* What the query returns of a column.                                     *)
LEMMA StreamType ==
  ASSUME NEW table \in Tables, NEW name, Readable(table, WithId({name}))
  PROVE  Stream(table, name) \in Seq(Lines)
<1> DEFINE R == Returned(table, name)
           rows == Ascending(R)
<1>1. Len(table.rows) \in Nat /\ R \in SUBSET (1..Len(table.rows))
  BY ScanAssumption DEF Returned
<1>2. IsFiniteSet(R) /\ R \in SUBSET Nat
  BY <1>1, IntervalSize, FS_Subset
<1>3. rows \in [1..Cardinality(R) -> R] /\ Cardinality(R) \in Nat
  BY <1>2, AscendingProperties, FS_CardinalityType
<1>4. Len(rows) = Cardinality(R)
  BY <1>3
<1>5. name \in Names(table) /\ (request.id # Null => request.id \in Names(table))
  BY DEF Readable, WithId
<1>6. \A i \in R : /\ table.rows[i][name] \in Values
                   /\ request.id # Null => table.rows[i][request.id] \in Values
  BY <1>1, <1>5, ScanAssumption DEF Values
<1> HIDE DEF R
<1>7. \A k \in 1..Len(rows) :
         [text |-> table.rows[rows[k]][name],
          id |-> IF request.id = Null THEN Null ELSE table.rows[rows[k]][request.id]] \in Lines
  BY <1>3, <1>4, <1>6 DEF Lines, Values
<1> HIDE DEF rows
<1>8. Stream(table, name) =
         [k \in 1..Len(rows) |->
            [text |-> table.rows[rows[k]][name],
             id |-> IF request.id = Null THEN Null ELSE table.rows[rows[k]][request.id]]]
  BY DEF Stream, rows, R
<1>9. Stream(table, name) \in [1..Len(rows) -> Lines]
  BY <1>7, <1>8
<1> QED
  BY <1>3, <1>4, <1>9, SeqDef
-----------------------------------------------------------------------------
(* A session that starts.                                                 *)
LEMMA InitScanInv == ScanInit => ScanInv
<1> SUFFICES ASSUME ScanInit PROVE ScanInv
  OBVIOUS
<1> USE DEF ScanInit
<1>1. cursor.found = <<>> /\ cursor.batch = <<>> /\ cursor.detected = Null /\ Len(<<>>) = 0
  BY DEF NoCursor
<1>2. CursorTypes
  <2>1. \A S : <<>> \in Seq(S)
    BY EmptySeq
  <2> QED
    BY <1>1, <2>1 DEF CursorTypes, NoCursor
<1>3. Report
  BY ShortSequences DEF Report, FoundWasChecked, PatternsAreMasked, Rows, Elements
<1> QED
  BY <1>1, <1>2, <1>3 DEF ScanInv, Between, Cell, Masking, InCell, NERTypes

(* What other connections do: the statement stays, and a model that is     *)
(* loaded stays loaded.                                                    *)
LEMMA OthersKeep ==
  ASSUME ScanInv, UNCHANGED statement, committed' \in Tables, ner = "LOADED" => ner' = "LOADED"
  PROVE  ScanInv'
<1> USE DEF statement
<1>1. CursorTypes' /\ Between'
  BY DEF ScanInv, CursorTypes, Between
<1>2. UNCHANGED <<InCell, IsScan, WantsNER, Rows, Line>> /\ \A t : IsEnabled(t)' = IsEnabled(t)
  BY DEF InCell, IsScan, WantsNER, Rows, Line, IsEnabled
<1>3. \A t, m : TrueOf(t, m) => TrueOf(t, m)'
  BY <1>2 DEF TrueOf
<1>4. \A m : Findable(m) => Findable(m)'
  BY <1>2 DEF Findable
<1>5. Cell'
  BY <1>2, <1>3 DEF ScanInv, Cell
<1>6. \A m : FoundAgain(m) => FoundAgain(m)'
  BY <1>2, <1>3 DEF FoundAgain
<1>7. Masking'
  BY <1>2, <1>6 DEF ScanInv, Masking
<1>8. Report'
  BY <1>2 DEF ScanInv, Report, FoundWasChecked, PatternsAreMasked, IsSeq, Elements
<1> QED
  BY <1>1, <1>4, <1>5, <1>7, <1>8 DEF ScanInv

(* A column is done with, and its rows are as they should be.              *)
LEMMA CloseKeeps ==
  ASSUME ScanInv, NEW rows, CloseWith(rows), IsSeq(rows),
         \A row \in Elements(rows) :
            /\ IsScan /\ row.type # Null =>
                 row.type \in row.checked /\ (row.type = "ORGANIZATION" => row.model)
            /\ ~IsScan => (row.match[1] = "EMAIL" => row.match \in row.masked)
  PROVE  ScanInv'
<1>1. /\ report' = report \o rows /\ cursor' = NoCursor /\ step' = "open"
      /\ UNCHANGED <<others, request, using>>
  BY DEF CloseWith
<1>2. cursor'.found = <<>> /\ cursor'.batch = <<>> /\ cursor'.detected = Null /\ Len(<<>>) = 0
  BY <1>1 DEF NoCursor
<1>3. CursorTypes'
  <2>1. \A S : <<>> \in Seq(S)
    BY EmptySeq
  <2> QED
    BY <1>1, <1>2, <2>1 DEF ScanInv, CursorTypes, NoCursor, others
<1>4. IsScan' = IsScan
  BY <1>1 DEF IsScan
<1>5. IsSeq(report') /\ \A x \in Rows' : x \in Rows \/ x \in Elements(rows)
  BY <1>1, ConcatElements DEF ScanInv, Report, Rows, Elements
<1>6. Report'
  <2>1. FoundWasChecked /\ PatternsAreMasked
    BY DEF ScanInv, Report
  <2>2. FoundWasChecked'
    BY <1>4, <1>5, <2>1 DEF FoundWasChecked
  <2>3. PatternsAreMasked'
    BY <1>4, <1>5, <2>1 DEF PatternsAreMasked
  <2>4. IsSeq(report)'
    BY <1>5 DEF IsSeq, Elements
  <2> QED
    BY <2>2, <2>3, <2>4 DEF Report
<1> QED
  BY <1>1, <1>2, <1>3, <1>6 DEF ScanInv, Between, Cell, Masking, InCell, NERTypes
-----------------------------------------------------------------------------
(* A row of pii_scan_table that says what was found.                       *)
ScannedRow(type, count, samples) ==
    [StatusRow("scanned", cursor.values) EXCEPT !.type = type, !.count = count, !.samples = samples]

(* The rows of a column with what was checked.                             *)
LEMMA RecordedElements ==
  ASSUME NEW s, IsSeq(s)
  PROVE  LET rows == [i \in 1..Len(s) |-> Recorded(s[i])]
         IN  IsSeq(rows) /\ \A x \in Elements(rows) : \E row \in Elements(s) : x = Recorded(row)
<1> DEFINE rows == [i \in 1..Len(s) |-> Recorded(s[i])]
           S == {Recorded(s[i]) : i \in 1..Len(s)}
<1>1. Len(s) \in Nat
  BY LenProperties DEF IsSeq
<1>2. rows \in [1..Len(s) -> S]
  OBVIOUS
<1>3. rows \in Seq(S) /\ \A x \in S : \E row \in Elements(s) : x = Recorded(row)
  <2>1. \A x \in S : \E row \in Elements(s) : x = Recorded(row)
    BY DEF Elements
  <2> HIDE DEF S, rows
  <2> QED
    BY <1>1, <1>2, <2>1, SeqDef
<1> HIDE DEF S, rows
<1>4. IsSeq(rows) /\ Elements(rows) \subseteq S
  BY <1>3, SequenceElements
<1> QED
  BY <1>3, <1>4 DEF rows

(* The steps of a column.                                                  *)
LEMMA ColumnStepsKeep == ScanInv /\ ColumnSteps => ScanInv'
<1> SUFFICES ASSUME ScanInv, ColumnSteps PROVE ScanInv'
  OBVIOUS
<1>1. \A values : /\ IsSeq(ErrorRows(values))
                  /\ \A row \in Elements(ErrorRows(values)) : IsScan /\ row.type = Null
  BY ShortSequences DEF ErrorRows, StatusRow
<1>2. CASE Skip
  <2>1. IsScan /\ StatusRow("skipped", 0).type = Null
    BY <1>2 DEF Skip, StatusRow
  <2> QED
    BY <1>2, <2>1, ShortSequences, CloseKeeps DEF Skip
<1>3. CASE OpenFails
  BY <1>1, <1>3, CloseKeeps DEF OpenFails
<1>4. CASE FetchFails
  BY <1>1, <1>4, CloseKeeps DEF FetchFails
<1>5. CASE Open
  <2>1. committed \in Tables
    BY DEF ScanInv, CursorTypes
  <2> DEFINE stream == Stream(committed, Head(columns).name)
  <2>2. stream \in Seq(Lines)
    BY <1>5, <2>1, StreamType DEF Open
  <2>3. /\ cursor' = [NoCursor EXCEPT !.rows = stream] /\ step' = "fetch"
        /\ UNCHANGED <<others, request, using, columns, report>>
    BY <1>5 DEF Open
  <2> HIDE DEF stream
  <2>4. CursorTypes'
    <3>1. \A S : <<>> \in Seq(S)
      BY EmptySeq
    <3>2. cursor' = [rows |-> stream, batch |-> <<>>, row |-> 0, matches |-> {}, tried |-> FALSE,
                     detected |-> Null, values |-> 0, found |-> <<>>]
      BY <2>3 DEF NoCursor
    <3>3. cursor'.batch = <<>> /\ Len(<<>>) = 0
      BY <3>2
    <3>4. cursor' \in [rows : Seq(Lines), batch : Seq(Lines), row : Nat, matches : SUBSET Findings,
                       tried : BOOLEAN, detected : {Null} \cup SUBSET Findings, values : Nat,
                       found : Seq((DOMAIN Reading) \X Findings)]
      BY <2>2, <3>1, <3>2
    <3> QED
      BY <2>1, <2>3, <3>3, <3>4 DEF CursorTypes, others
  <2>5. cursor'.found = <<>> /\ cursor'.detected = Null /\ Len(<<>>) = 0
    BY <2>3 DEF NoCursor
  <2>6. Report'
    BY <2>3 DEF ScanInv, Report, FoundWasChecked, PatternsAreMasked, Rows, IsScan, IsSeq, Elements
  <2> QED
    BY <2>3, <2>4, <2>5, <2>6 DEF ScanInv, Between, Cell, Masking, InCell, NERTypes
<1>6. CASE Fetch
  <2> DEFINE n == IF Len(cursor.rows) < ChunkSize THEN Len(cursor.rows) ELSE ChunkSize
  <2>1. cursor.rows \in Seq(Lines) /\ Len(cursor.rows) \in Nat /\ \A i \in 1..Len(cursor.rows) : cursor.rows[i] \in Lines
    BY LenProperties, ElementOfSeq DEF ScanInv, CursorTypes
  <2>2. n \in Nat /\ n <= Len(cursor.rows)
    BY <2>1, ScanAssumption
  <2>3. Chunk = SubSeq(cursor.rows, 1, n)
    BY DEF Chunk
  <2> HIDE DEF n
  <2>4. Chunk \in Seq(Lines) /\ Len(Chunk) = n
    BY <2>1, <2>2, <2>3, SubSeqProperties
  <2>5. SubSeq(cursor.rows, Len(Chunk) + 1, Len(cursor.rows)) \in Seq(Lines)
    BY <2>1, <2>2, <2>4, SubSeqProperties
  <2>6. /\ cursor' = [cursor EXCEPT !.batch = Chunk,
                        !.rows = SubSeq(cursor.rows, Len(Chunk) + 1, Len(cursor.rows)),
                        !.values = cursor.values + Len(Chunk)]
        /\ step' = IF IsScan THEN BeginDetect("text") ELSE "text"
        /\ step = "fetch" /\ Chunk # <<>> /\ ~ChunkFails
        /\ UNCHANGED <<others, request, using, columns, report>>
    BY <1>6 DEF Fetch
  <2>7. CursorTypes'
    <3>1. cursor.values + Len(Chunk) \in Nat
      BY <2>2, <2>4 DEF ScanInv, CursorTypes
    <3>2. cursor' \in [rows : Seq(Lines), batch : Seq(Lines), row : Nat, matches : SUBSET Findings,
                       tried : BOOLEAN, detected : {Null} \cup SUBSET Findings, values : Nat,
                       found : Seq((DOMAIN Reading) \X Findings)]
      BY <2>4, <2>5, <2>6, <3>1 DEF ScanInv, CursorTypes
    <3>3. cursor'.batch = Chunk
      BY <2>6 DEF ScanInv, CursorTypes
    <3>4. \A k \in 1..Len(Chunk) : Chunk[k].text # Fails
      BY <2>6 DEF ChunkFails
    <3> QED
      BY <2>6, <3>2, <3>3, <3>4 DEF ScanInv, CursorTypes, others
  <2>8. cursor'.found = cursor.found /\ cursor'.detected = Null
    BY <2>6 DEF ScanInv, CursorTypes, Masking, InCell, NERTypes
  <2>9. step' \in {"require", "text"} /\ (step' = "require" => IsScan')
    BY <2>6 DEF BeginDetect, IsScan
  <2>10. Report'
    BY <2>6 DEF ScanInv, Report, FoundWasChecked, PatternsAreMasked, Rows, IsScan, IsSeq, Elements
  <2>11. \A m : Findable(m) => Findable(m)'
    BY <2>6 DEF Findable, IsEnabled, WantsNER, others
  <2> QED
    BY <2>7, <2>8, <2>9, <2>10, <2>11 DEF ScanInv, Between, Cell, Masking, InCell, NERTypes
<1>7. CASE EndOfChunk
  <2>1. /\ step = "text" /\ step' = "fetch"
        /\ UNCHANGED <<others, request, using, columns, cursor, report>>
    BY <1>7 DEF EndOfChunk
  <2>2. cursor.detected = Null
    BY <2>1 DEF ScanInv, Masking, InCell, NERTypes
  <2>3. CursorTypes'
    BY <2>1 DEF ScanInv, CursorTypes, others
  <2>4. Report'
    BY <2>1 DEF ScanInv, Report, FoundWasChecked, PatternsAreMasked, Rows, IsScan, IsSeq, Elements
  <2>5. \A m : Findable(m) => Findable(m)'
    BY <2>1 DEF Findable, IsEnabled, WantsNER, others
  <2> QED
    BY <2>1, <2>2, <2>3, <2>4, <2>5 DEF ScanInv, Between, Cell, Masking, InCell, NERTypes
<1>8. CASE EndOfColumn
  <2>1. CASE ~IsScan
    BY <1>8, <2>1, ShortSequences, CloseKeeps DEF EndOfColumn
  <2>2. CASE IsScan
    <3>1. /\ IsSeq(ColumnRows)
          /\ \A row \in Elements(ColumnRows) :
                \/ row = StatusRow("no_match", cursor.values)
                \/ \E type \in FoundTypes : \E count, samples : row = ScannedRow(type, count, samples)
      <4>1. ASSUME NEW type
            PROVE  /\ IsSeq(TypeRow(type))
                   /\ \A row \in Elements(TypeRow(type)) :
                         type \in FoundTypes /\ \E count, samples : row = ScannedRow(type, count, samples)
        <5> DEFINE found == FoundOf(type)
                   samples == SubSeq(found, 1, IF Len(found) < MaxSamples THEN Len(found) ELSE MaxSamples)
        <5>1. CASE type \notin FoundTypes
          BY <5>1, ShortSequences DEF TypeRow
        <5>2. CASE type \in FoundTypes
          <6>1. TypeRow(type) = <<ScannedRow(type, Len(found), samples)>>
            BY <5>2 DEF TypeRow, ScannedRow
          <6> QED
            BY <5>2, <6>1, ShortSequences
        <5> QED
          BY <5>1, <5>2
      <4>2. CASE cursor.found = <<>>
        BY <4>2, ShortSequences DEF ColumnRows
      <4>3. CASE cursor.found # <<>>
        <5>1. ColumnRows = (TypeRow("EMAIL") \o TypeRow("NAME")) \o TypeRow("ORGANIZATION")
          BY <4>3 DEF ColumnRows
        <5>2. /\ IsSeq(TypeRow("EMAIL") \o TypeRow("NAME"))
              /\ \A x \in Elements(TypeRow("EMAIL") \o TypeRow("NAME")) :
                    x \in Elements(TypeRow("EMAIL")) \/ x \in Elements(TypeRow("NAME"))
          BY <4>1, ConcatElements
        <5>3. /\ IsSeq(ColumnRows)
              /\ \A x \in Elements(ColumnRows) :
                    \/ x \in Elements(TypeRow("EMAIL") \o TypeRow("NAME"))
                    \/ x \in Elements(TypeRow("ORGANIZATION"))
          BY <4>1, <5>1, <5>2, ConcatElements
        <5> QED
          BY <4>1, <5>2, <5>3
      <4> QED
        BY <4>2, <4>3
    <3>2. ASSUME NEW type \in FoundTypes
          PROVE  /\ type \in Types /\ IsEnabled(type)
                 /\ type = "ORGANIZATION" => WantsNER /\ ner = "LOADED"
      BY <3>2 DEF ScanInv, Findable, FoundTypes
    <3>3. ASSUME NEW type \in FoundTypes, NEW count, NEW samples
          PROVE  LET row == Recorded(ScannedRow(type, count, samples))
                 IN  row.type = type /\ type \in row.checked /\ (type = "ORGANIZATION" => row.model)
      BY <3>2 DEF Recorded, ScannedRow, StatusRow, CheckedPIITypes, NERUnavailable, NERTypes
    <3>4. Recorded(StatusRow("no_match", cursor.values)).type = Null
      BY DEF Recorded, StatusRow
    <3> DEFINE rows == [i \in 1..Len(ColumnRows) |-> Recorded(ColumnRows[i])]
    <3>5. /\ IsSeq(rows)
          /\ \A x \in Elements(rows) : \E row \in Elements(ColumnRows) : x = Recorded(row)
      BY <3>1, RecordedElements
    <3>6. CloseWith(rows)
      BY <1>8, <2>2 DEF EndOfColumn
    <3> HIDE DEF rows
    <3>7. \A x \in Elements(rows) :
             x.type # Null => x.type \in x.checked /\ (x.type = "ORGANIZATION" => x.model)
      BY <3>1, <3>3, <3>4, <3>5
    <3> QED
      BY <2>2, <3>5, <3>6, <3>7, CloseKeeps
  <2> QED
    BY <2>1, <2>2
<1> QED
  BY <1>2, <1>3, <1>4, <1>5, <1>6, <1>7, <1>8 DEF ColumnSteps
-----------------------------------------------------------------------------
(* What stays when a step only moves the cursor on within a column: the    *)
(* rows so far, and what the matches are judged by.                        *)
LEMMA WithinColumn ==
  ASSUME ScanInv, UNCHANGED <<committed, request, using, columns, report>>, ner = "LOADED" => ner' = "LOADED"
  PROVE  /\ Report' /\ IsScan' = IsScan /\ WantsNER' = WantsNER /\ committed' \in Tables
         /\ \A t : IsEnabled(t)' = IsEnabled(t)
         /\ \A t, m : TrueOf(t, m) => TrueOf(t, m)'
         /\ \A m : Findable(m) => Findable(m)'
<1>1. IsScan' = IsScan /\ WantsNER' = WantsNER /\ committed' \in Tables
  BY DEF IsScan, WantsNER, ScanInv, CursorTypes
<1>2. \A t : IsEnabled(t)' = IsEnabled(t)
  BY DEF IsEnabled
<1>3. Report'
  BY <1>1 DEF ScanInv, Report, FoundWasChecked, PatternsAreMasked, Rows, IsSeq, Elements
<1> QED
  BY <1>1, <1>2, <1>3 DEF TrueOf, Findable

(* The first value of the batch, and the batch without it.                 *)
LEMMA FirstLine ==
  ASSUME ScanInv, cursor.batch # <<>>
  PROVE  /\ Line \in Lines /\ Line.text # Fails /\ Tail(cursor.batch) \in Seq(Lines)
         /\ \A i \in 1..Len(Tail(cursor.batch)) : Tail(cursor.batch)[i].text # Fails
<1>1. cursor.batch \in Seq(Lines) /\ \A i \in 1..Len(cursor.batch) : cursor.batch[i].text # Fails
  BY DEF ScanInv, CursorTypes
<1>2. /\ Tail(cursor.batch) \in Seq(Lines) /\ Len(Tail(cursor.batch)) = Len(cursor.batch) - 1
      /\ \A i \in 1..Len(Tail(cursor.batch)) : Tail(cursor.batch)[i] = cursor.batch[i + 1]
      /\ Head(cursor.batch) \in Lines /\ Len(cursor.batch) \in Nat \ {0}
  BY <1>1, HeadTailProperties, EmptySeq
<1>3. Head(cursor.batch) = cursor.batch[1]
  BY <1>1, <1>2
<1> QED
  BY <1>1, <1>2, <1>3 DEF Line

(* The step to the next value.                                             *)
LEMMA NextValueKeeps == ScanInv /\ NextValue => ScanInv'
<1> SUFFICES ASSUME ScanInv, NextValue PROVE ScanInv'
  OBVIOUS
<1>1. /\ step = "text" /\ cursor.batch # <<>> /\ UNCHANGED <<others, request, using, columns, report>>
      /\ UNCHANGED ner
  BY DEF NextValue, others
<1>2. /\ Report' /\ IsScan' = IsScan /\ committed' \in Tables
      /\ \A m : Findable(m) => Findable(m)'
  BY <1>1, WithinColumn DEF others
<1>3. /\ Line \in Lines /\ Line.text # Fails /\ Tail(cursor.batch) \in Seq(Lines)
      /\ \A i \in 1..Len(Tail(cursor.batch)) : Tail(cursor.batch)[i].text # Fails
  BY <1>1, FirstLine
<1>4. cursor.detected = Null
  BY <1>1 DEF ScanInv, Masking, InCell, NERTypes
<1>5. CASE Line.text = Null
  <2>1. cursor' = [cursor EXCEPT !.row = cursor.row + 1, !.batch = Tail(cursor.batch)] /\ step' = "text"
    BY <1>1, <1>5 DEF NextValue
  <2>0. cursor.row + 1 \in Nat
    BY DEF ScanInv, CursorTypes
  <2>2. CursorTypes' /\ cursor'.found = cursor.found /\ cursor'.detected = Null
    BY <1>2, <1>3, <1>4, <2>1, <2>0 DEF ScanInv, CursorTypes
  <2> QED
    BY <1>2, <2>1, <2>2 DEF ScanInv, Between, Cell, Masking, InCell, NERTypes
<1>6. CASE Line.text # Null
  <2>1. /\ cursor' = [cursor EXCEPT !.row = cursor.row + 1]
        /\ step' = IF IsScan THEN "patterns" ELSE BeginDetect("patterns")
    BY <1>1, <1>6 DEF NextValue
  <2>0. cursor.row + 1 \in Nat
    BY DEF ScanInv, CursorTypes
  <2>2. /\ CursorTypes' /\ cursor'.found = cursor.found /\ cursor'.detected = Null
        /\ cursor'.batch = cursor.batch
    BY <1>2, <1>4, <2>1, <2>0 DEF ScanInv, CursorTypes
  <2>3. step' \in {"patterns", "require"}
    BY <2>1 DEF BeginDetect
  <2>4. Line' = Line /\ Line.text \in DOMAIN Reading
    BY <1>3, <1>6, <2>2 DEF Line, Lines, Values
  <2> QED
    BY <1>1, <1>2, <2>2, <2>3, <2>4 DEF ScanInv, Between, Cell, Masking, InCell, NERTypes
<1> QED
  BY <1>5, <1>6

(* RequireModel, before the patterns or before the values of a chunk.      *)
LEMMA RequireModelKeeps == ScanInv /\ RequireModel => ScanInv'
<1> SUFFICES ASSUME ScanInv, RequireModel PROVE ScanInv'
  OBVIOUS
<1>1. /\ step = "require"
      /\ UNCHANGED <<committed, states, reachable, settings, changes, request, using, columns, report>>
  BY DEF RequireModel
<1>2. ner = "LOADED" => ner' = "LOADED"
  BY DEF RequireModel
<1>3. /\ Report' /\ IsScan' = IsScan /\ committed' \in Tables
      /\ \A t, m : TrueOf(t, m) => TrueOf(t, m)'
      /\ \A m : Findable(m) => Findable(m)'
  BY <1>1, <1>2, WithinColumn
<1>4. /\ \E tried \in BOOLEAN : cursor' = [cursor EXCEPT !.tried = tried]
      /\ step' \in {"require", "failed"} \cup (IF IsScan THEN {"text"} ELSE {"patterns"})
  <2>1. cursor = [cursor EXCEPT !.tried = cursor.tried] /\ cursor.tried \in BOOLEAN
    BY DEF ScanInv, CursorTypes
  <2> QED
    BY <1>1, <2>1 DEF RequireModel
<1>5. CursorTypes' /\ UNCHANGED <<cursor.found, cursor.batch, cursor.matches, cursor.detected>>
  BY <1>3, <1>4 DEF ScanInv, CursorTypes
<1>6. Line' = Line
  BY <1>5 DEF Line
<1>7. InCell' => InCell
  BY <1>1, <1>3, <1>4 DEF InCell, NERTypes
<1>8. Cell'
  BY <1>4, <1>5, <1>6, <1>7 DEF ScanInv, Cell, NERTypes
<1>9. Masking'
  <2> SUFFICES ASSUME cursor'.detected # Null, step' # "failed"
               PROVE  InCell' /\ ~IsScan' /\ \A m \in cursor'.detected : FoundAgain(m)'
    BY DEF Masking
  <2>1. ~IsScan /\ \A m \in cursor.detected : TrueOf(Line.text, m)
    BY <1>1, <1>5 DEF ScanInv, Masking, FoundAgain
  <2>2. step' \in {"require", "patterns"}
    BY <1>4, <2>1
  <2> QED
    BY <1>3, <1>5, <1>6, <2>1, <2>2 DEF InCell, FoundAgain, NERTypes
<1> QED
  BY <1>3, <1>4, <1>5, <1>8, <1>9 DEF ScanInv, Between
(* The patterns are looked for.                                            *)
LEMMA DetectPatternsKeeps == ScanInv /\ DetectPatterns => ScanInv'
<1> SUFFICES ASSUME ScanInv, DetectPatterns PROVE ScanInv'
  OBVIOUS
<1> DEFINE M == MatchesFound(Reading[Line.text].patterns)
<1>1. /\ step = "patterns" /\ cursor' = [cursor EXCEPT !.matches = M]
      /\ step' = IF WantsNER /\ Reading[Line.text].letters THEN "NAME" ELSE "found"
      /\ UNCHANGED <<others, request, using, columns, report>>
  BY DEF DetectPatterns
<1>2. /\ Report' /\ IsScan' = IsScan /\ WantsNER' = WantsNER /\ committed' \in Tables
      /\ \A t, m : TrueOf(t, m) => TrueOf(t, m)'
      /\ \A m : Findable(m) => Findable(m)'
  BY <1>1, WithinColumn DEF others
<1>3. InCell /\ cursor.batch # <<>> /\ Line.text \in DOMAIN Reading
  BY <1>1 DEF ScanInv, Cell, InCell
<1>4. /\ \A m \in M : TrueOf(Line.text, m)
      /\ \A m \in Reading[Line.text].patterns : IsEnabled(m[1]) => m \in M
  BY DEF MatchesFound, TrueOf
<1> HIDE DEF M
<1>5. M \in SUBSET Findings
  BY <1>3, <1>4, TrueMatches
<1>6. /\ CursorTypes' /\ cursor'.matches = M
      /\ UNCHANGED <<cursor.found, cursor.batch, cursor.detected>>
  BY <1>1, <1>2, <1>5 DEF ScanInv, CursorTypes
<1>7. Line' = Line
  BY <1>6 DEF Line
<1>8. Cell'
  BY <1>1, <1>2, <1>3, <1>4, <1>6, <1>7 DEF Cell, NERTypes
<1>9. Masking'
  <2> SUFFICES ASSUME cursor'.detected # Null, NEW m \in cursor'.detected
               PROVE  InCell' /\ ~IsScan' /\ FoundAgain(m)'
    BY <1>1, <1>6, <1>2 DEF Masking, ScanInv, InCell, NERTypes
  <2>1. ~IsScan /\ TrueOf(Line.text, m)
    BY <1>1, <1>6 DEF ScanInv, Masking, FoundAgain
  <2>2. /\ \A p \in Reading[Line.text].entities : p[1] \in {"NAME", "ORGANIZATION"}
        /\ \A p \in Reading[Line.text].dictionary : p[1] = "NAME"
    BY <1>3, ScanAssumption DEF NERTypes
  <2>3. m[1] = "EMAIL" => m \in M
    BY <1>4, <2>1, <2>2 DEF TrueOf
  <2>4. step' \in {"NAME", "found"}
    BY <1>1
  <2> QED
    BY <1>2, <1>6, <1>7, <2>1, <2>2, <2>3, <2>4 DEF FoundAgain, InCell, NERTypes
<1> QED
  BY <1>1, <1>2, <1>6, <1>8, <1>9 DEF ScanInv, Between

(* The model is loaded when the first detection needs it.                  *)
LEMMA EnsureInitializedKeeps == ScanInv /\ EnsureInitialized => ScanInv'
<1> SUFFICES ASSUME ScanInv, EnsureInitialized PROVE ScanInv'
  OBVIOUS
<1>1. /\ cursor' = [cursor EXCEPT !.tried = TRUE] /\ ner # "LOADED" /\ step \in NERTypes
      /\ UNCHANGED <<committed, states, reachable, settings, changes, step, request, using, columns, report>>
  BY DEF EnsureInitialized
<1>2. /\ Report' /\ IsScan' = IsScan /\ WantsNER' = WantsNER /\ committed' \in Tables
      /\ \A t, m : TrueOf(t, m) => TrueOf(t, m)'
      /\ \A m : Findable(m) => Findable(m)'
  BY <1>1, WithinColumn
<1>3. CursorTypes' /\ UNCHANGED <<cursor.found, cursor.batch, cursor.matches, cursor.detected>>
  BY <1>1, <1>2 DEF ScanInv, CursorTypes
<1>4. Line' = Line
  BY <1>3 DEF Line
<1>5. Cell' /\ InCell' = InCell
  BY <1>1, <1>2, <1>3, <1>4 DEF ScanInv, Cell, InCell
<1>6. \A m : FoundAgain(m) => FoundAgain(m)'
  BY <1>1, <1>2, <1>3, <1>4 DEF FoundAgain
<1>7. Masking'
  BY <1>1, <1>2, <1>3, <1>5, <1>6 DEF ScanInv, Masking
<1> QED
  BY <1>1, <1>2, <1>3, <1>5, <1>7 DEF ScanInv, Between, NERTypes

(* What the model, or the dictionary, has of a type is added.              *)
LEMMA FindMatchesKeeps == ScanInv /\ FindMatches => ScanInv'
<1> SUFFICES ASSUME ScanInv, FindMatches PROVE ScanInv'
  OBVIOUS
<1>0. PICK answers \in BOOLEAN :
         /\ answers => ner = "LOADED"
         /\ cursor' = [cursor EXCEPT !.tried = FALSE,
                        !.matches = cursor.matches \cup MatchesFound(Recognized(step, answers))]
  BY DEF FindMatches
<1> DEFINE N == MatchesFound(Recognized(step, answers))
<1>1. /\ step \in NERTypes
      /\ cursor' = [cursor EXCEPT !.tried = FALSE, !.matches = cursor.matches \cup N]
      /\ step' = IF step = "NAME" THEN "ORGANIZATION" ELSE "found"
      /\ UNCHANGED <<others, request, using, columns, report>>
  BY <1>0 DEF FindMatches
<1>2. /\ Report' /\ IsScan' = IsScan /\ WantsNER' = WantsNER /\ committed' \in Tables
      /\ \A t, m : TrueOf(t, m) => TrueOf(t, m)'
      /\ \A m : Findable(m) => Findable(m)'
  BY <1>1, WithinColumn DEF others
<1>3. /\ InCell /\ cursor.batch # <<>> /\ Line.text \in DOMAIN Reading
      /\ WantsNER /\ Reading[Line.text].letters /\ \A m \in cursor.matches : TrueOf(Line.text, m)
  BY <1>1 DEF ScanInv, Cell, InCell
<1>4. \A m \in N : TrueOf(Line.text, m)
  BY <1>0, <1>3 DEF MatchesFound, Recognized, OfType, TrueOf
<1> HIDE DEF N
<1>6. cursor.matches \cup N \in SUBSET Findings
  BY <1>3, <1>4, TrueMatches
<1>7. /\ CursorTypes' /\ cursor'.matches = cursor.matches \cup N
      /\ UNCHANGED <<cursor.found, cursor.batch, cursor.detected>>
  BY <1>1, <1>2, <1>6 DEF ScanInv, CursorTypes
<1>8. Line' = Line
  BY <1>7 DEF Line
<1>9. Cell'
  BY <1>1, <1>2, <1>3, <1>4, <1>7, <1>8 DEF Cell, NERTypes
<1>10. Masking'
  <2> SUFFICES ASSUME cursor'.detected # Null, NEW m \in cursor'.detected
               PROVE  FoundAgain(m)'
    BY <1>1, <1>2, <1>7 DEF ScanInv, Masking, InCell, NERTypes
  <2>1. FoundAgain(m) /\ TrueOf(Line.text, m)
    BY <1>1, <1>7 DEF ScanInv, Masking, FoundAgain, NERTypes
  <2>2. TrueOf(Line.text, m)' /\ Reading[Line'.text] = Reading[Line.text]
    BY <1>2, <1>8, <2>1
  <2>3. m[1] = "EMAIL" => m \in cursor.matches
    BY <1>1, <2>1 DEF FoundAgain
  <2> QED
    BY <1>7, <2>2, <2>3 DEF FoundAgain
<1> QED
  BY <1>1, <1>2, <1>7, <1>9, <1>10 DEF ScanInv, Between
-----------------------------------------------------------------------------
(* The matches of a value go to those of the column.                       *)
LEMMA CountKeeps == ScanInv /\ Count => ScanInv'
<1> SUFFICES ASSUME ScanInv, Count PROVE ScanInv'
  OBVIOUS
<1> DEFINE M == cursor.matches
           n == Cardinality(M)
           sorted == Sorted(M)
           more == [i \in 1..n |-> <<Line.text, sorted[i]>>]
<1>1. /\ step = "found" /\ IsScan /\ step' = "text"
      /\ UNCHANGED <<others, request, using, columns, report>>
      /\ cursor' = [cursor EXCEPT !.batch = Tail(cursor.batch), !.matches = {},
                      !.found = cursor.found \o [i \in 1..Len(sorted) |-> <<Line.text, sorted[i]>>]]
  BY DEF Count
<1>2. /\ Report' /\ IsScan' = IsScan /\ committed' \in Tables
      /\ \A m : Findable(m) => Findable(m)'
  BY <1>1, WithinColumn DEF others
<1>3. cursor.batch # <<>> /\ Line.text \in DOMAIN Reading /\ \A m \in M : TrueOf(Line.text, m)
  BY <1>1 DEF ScanInv, Cell, InCell
<1>4. /\ Tail(cursor.batch) \in Seq(Lines)
      /\ \A i \in 1..Len(Tail(cursor.batch)) : Tail(cursor.batch)[i].text # Fails
  BY <1>3, FirstLine
<1>5. M \in SUBSET Findings /\ IsFiniteSet(M) /\ \A m \in M : Findable(m)
  BY <1>3, TrueMatches
<1>6. sorted \in [1..n -> M] /\ n \in Nat
  <2>1. \A m \in M : m[2] \in Nat
    BY <1>5 DEF Findings
  <2> QED
    BY <1>5, <2>1, SortedProperties, FS_CardinalityType
<1> HIDE DEF n, sorted
<1>7. Len(sorted) = n
  BY <1>6
<1>8. more \in Seq({Line.text} \X Findings) /\ Len(more) = n
  <2>1. sorted \in [1..n -> Findings]
    BY <1>5, <1>6
  <2> QED
    BY <1>6, <2>1, ListElements
<1>9. \A i \in 1..n : Findable(more[i][2])
  BY <1>5, <1>6
<1>10. cursor'.found = cursor.found \o more
  BY <1>1, <1>7 DEF ScanInv, CursorTypes
<1> HIDE DEF more, M
<1>11. cursor.found \in Seq((DOMAIN Reading) \X Findings) /\ more \in Seq((DOMAIN Reading) \X Findings)
  <2>1. {Line.text} \X Findings \subseteq (DOMAIN Reading) \X Findings
    BY <1>3
  <2>2. cursor.found \in Seq((DOMAIN Reading) \X Findings)
    BY DEF ScanInv, CursorTypes
  <2> QED
    BY <1>8, <2>1, <2>2, SeqMonotonic
<1>12. /\ cursor.found \o more \in Seq((DOMAIN Reading) \X Findings)
       /\ Len(cursor.found \o more) = Len(cursor.found) + n
       /\ \A i \in 1..Len(cursor.found) + n : (cursor.found \o more)[i] =
             IF i <= Len(cursor.found) THEN cursor.found[i] ELSE more[i - Len(cursor.found)]
       /\ Len(cursor.found) \in Nat
  BY <1>8, <1>11, ConcatProperties, LenProperties
<1>13. /\ CursorTypes' /\ cursor'.detected = cursor.detected
  <2>1. cursor' = [cursor EXCEPT !.batch = Tail(cursor.batch), !.matches = {}, !.found = cursor.found \o more]
    BY <1>1, <1>7 DEF more
  <2> QED
    BY <1>2, <1>4, <1>12, <2>1 DEF ScanInv, CursorTypes
<1>14. ASSUME NEW i \in 1..Len(cursor'.found)
       PROVE  Findable(cursor.found[i][2])'
  <2>1. i \in 1..Len(cursor.found) + n
    BY <1>10, <1>12
  <2>2. CASE i <= Len(cursor.found)
    <3>1. i \in 1..Len(cursor.found) /\ cursor'.found[i] = cursor.found[i]
      BY <1>10, <1>12, <2>1, <2>2
    <3> QED
      BY <1>2, <3>1 DEF ScanInv
  <2>3. CASE ~(i <= Len(cursor.found))
    <3>1. i - Len(cursor.found) \in 1..n /\ cursor'.found[i] = more[i - Len(cursor.found)]
      BY <1>6, <1>10, <1>12, <2>1, <2>3
    <3> QED
      BY <1>2, <1>9, <3>1
  <2> QED
    BY <2>2, <2>3
<1>15. cursor.detected = Null
  BY <1>1 DEF ScanInv, Masking
<1> QED
  BY <1>1, <1>2, <1>13, <1>14, <1>15 DEF ScanInv, Between, Cell, Masking, InCell, NERTypes

(* pii_audit_table goes on to mask what was detected.                      *)
LEMMA DetectedKeeps == ScanInv /\ Detected => ScanInv'
<1> SUFFICES ASSUME ScanInv, Detected PROVE ScanInv'
  OBVIOUS
<1>1. /\ step = "found" /\ ~IsScan /\ cursor.detected = Null
      /\ UNCHANGED <<others, request, using, columns, report>>
  BY DEF Detected
<1>2. /\ Report' /\ IsScan' = IsScan /\ committed' \in Tables
      /\ \A t, m : TrueOf(t, m) => TrueOf(t, m)'
      /\ \A m : Findable(m) => Findable(m)'
  BY <1>1, WithinColumn DEF others
<1>3. cursor.batch # <<>> /\ Line.text \in DOMAIN Reading /\ \A m \in cursor.matches : TrueOf(Line.text, m)
  BY <1>1 DEF ScanInv, Cell, InCell
<1>4. CASE cursor.matches = {}
  <2>1. cursor' = [cursor EXCEPT !.batch = Tail(cursor.batch)] /\ step' = "text"
    BY <1>4 DEF Detected
  <2>2. CursorTypes' /\ cursor'.found = cursor.found /\ cursor'.detected = Null
    BY <1>1, <1>2, <1>3, <2>1, FirstLine DEF ScanInv, CursorTypes
  <2> QED
    BY <1>2, <2>1, <2>2 DEF ScanInv, Between, Cell, Masking, InCell, NERTypes
<1>5. CASE cursor.matches # {}
  <2>1. /\ cursor' = [cursor EXCEPT !.detected = cursor.matches, !.matches = {}]
        /\ step' = BeginDetect("patterns")
    BY <1>5 DEF Detected
  <2>2. /\ CursorTypes' /\ cursor'.detected = cursor.matches
        /\ UNCHANGED <<cursor.found, cursor.batch>>
    BY <1>2, <2>1 DEF ScanInv, CursorTypes
  <2>3. step' \in {"patterns", "require"}
    BY <2>1 DEF BeginDetect
  <2>4. Line' = Line
    BY <2>2 DEF Line
  <2>5. Cell'
    BY <1>3, <2>2, <2>3, <2>4 DEF Cell, NERTypes
  <2>6. Masking'
    BY <1>1, <1>2, <1>3, <2>2, <2>3, <2>4 DEF Masking, FoundAgain, InCell, NERTypes
  <2> QED
    BY <1>2, <2>2, <2>3, <2>5, <2>6 DEF ScanInv, Between
<1> QED
  BY <1>4, <1>5

(* The rows of what was detected, beside the masked value.                 *)
LEMMA MaskedKeeps == ScanInv /\ Masked => ScanInv'
<1> SUFFICES ASSUME ScanInv, Masked PROVE ScanInv'
  OBVIOUS
<1> DEFINE D == cursor.detected
           n == Cardinality(D)
           sorted == Sorted(D)
           S == {AuditRow(m) : m \in D}
           rows == [i \in 1..n |-> AuditRow(sorted[i])]
<1>1. /\ step = "found" /\ ~IsScan /\ D # Null /\ step' = "text"
      /\ report' = report \o [i \in 1..Len(sorted) |-> AuditRow(sorted[i])]
      /\ cursor' = [cursor EXCEPT !.batch = Tail(cursor.batch), !.matches = {}, !.detected = Null]
      /\ UNCHANGED <<others, request, using, columns>>
  BY DEF Masked
<1>2. cursor.batch # <<>> /\ Line.text \in DOMAIN Reading
  BY <1>1 DEF ScanInv, Cell, InCell
<1>3. \A m \in D : TrueOf(Line.text, m) /\ (m[1] = "EMAIL" => m \in cursor.matches)
  BY <1>1 DEF ScanInv, Masking, FoundAgain
<1>4. D \in SUBSET Findings /\ IsFiniteSet(D)
  BY <1>2, <1>3, TrueMatches
<1>5. sorted \in [1..n -> D] /\ n \in Nat
  <2>1. \A m \in D : m[2] \in Nat
    BY <1>4 DEF Findings
  <2> QED
    BY <1>4, <2>1, SortedProperties, FS_CardinalityType
<1> HIDE DEF n, sorted
<1>6. Len(sorted) = n
  BY <1>5
<1>7. rows \in [1..n -> S]
  BY <1>5
<1>8. report' = report \o rows
  BY <1>1, <1>6
<1>9. \A row \in S : row.match[1] = "EMAIL" => row.match \in row.masked
  BY <1>3 DEF AuditRow
<1> HIDE DEF rows, S, D
<1>10. rows \in Seq(S)
  BY <1>5, <1>7, SeqDef
<1>11. IsSeq(rows) /\ Elements(rows) \subseteq S
  BY <1>10, SequenceElements
<1>12. IsSeq(report') /\ \A x \in Rows' : x \in Rows \/ x \in S
  <2>1. IsSeq(report)
    BY DEF ScanInv, Report
  <2> QED
    BY <1>8, <1>11, <2>1, ConcatElements DEF Rows, Elements
<1>13. IsScan' = IsScan /\ committed' \in Tables
  BY <1>1 DEF IsScan, ScanInv, CursorTypes, others
<1>14. Report'
  <2>1. PatternsAreMasked
    BY DEF ScanInv, Report
  <2>2. PatternsAreMasked'
    BY <1>1, <1>9, <1>12, <1>13, <2>1 DEF PatternsAreMasked
  <2>3. FoundWasChecked'
    BY <1>1, <1>13 DEF FoundWasChecked
  <2>4. IsSeq(report)'
    BY <1>12 DEF IsSeq, Elements
  <2> QED
    BY <2>2, <2>3, <2>4 DEF Report
<1>15. CursorTypes' /\ cursor'.found = cursor.found /\ cursor'.detected = Null
  BY <1>1, <1>2, <1>13, FirstLine DEF ScanInv, CursorTypes
<1>16. \A m : Findable(m) => Findable(m)'
  BY <1>1 DEF Findable, IsEnabled, WantsNER, others
<1> QED
  BY <1>1, <1>14, <1>15, <1>16 DEF ScanInv, Between, Cell, Masking, InCell, NERTypes

-----------------------------------------------------------------------------
(* Every step keeps the invariant.                                         *)
LEMMA NextScanInv == ScanInv /\ [ScanNext]_scanVars => ScanInv'
<1> SUFFICES ASSUME ScanInv, [ScanNext]_scanVars PROVE ScanInv'
  OBVIOUS
<1>0. committed \in Tables
  BY DEF ScanInv, CursorTypes
<1>1. CASE Others
  <2>1. UNCHANGED statement /\ committed' \in Tables
    BY <1>0, <1>1
    DEF Others, Commit, SetOption, OtherLoad, DownloadEnds, RequestReload, SetAutoDownload
  <2>2. ner = "LOADED" => ner' = "LOADED"
    BY <1>1 DEF Others, Commit, SetOption, OtherLoad, DownloadEnds, RequestReload, SetAutoDownload
  <2> QED
    BY <2>1, <2>2, OthersKeep
<1>2. CASE Bind
  <2>1. /\ step = "idle" /\ step' \in {"failed", "plan"} /\ UNCHANGED <<committed, ner, using, cursor, report>>
    BY <1>2 DEF Bind
  <2>2. cursor = NoCursor /\ report = <<>>
    BY <2>1 DEF ScanInv, Between
  <2>3. cursor.found = <<>> /\ cursor.batch = <<>> /\ cursor.detected = Null /\ Len(<<>>) = 0
    BY <2>2 DEF NoCursor
  <2>4. CursorTypes'
    BY <2>1 DEF ScanInv, CursorTypes
  <2>5. Report'
    BY <2>1, <2>2, ShortSequences DEF Report, FoundWasChecked, PatternsAreMasked, Rows, Elements, IsSeq
  <2> QED
    BY <2>1, <2>2, <2>3, <2>4, <2>5 DEF ScanInv, Between, Cell, Masking, InCell, NERTypes
<1>3. CASE Start
  <2>1. /\ step = "plan" /\ step' = "open" /\ UNCHANGED <<committed, ner, request, cursor, report>>
    BY <1>3 DEF Start, others
  <2>2. cursor = NoCursor
    BY <2>1 DEF ScanInv, Between
  <2>3. cursor.found = <<>> /\ cursor.batch = <<>> /\ cursor.detected = Null /\ Len(<<>>) = 0
    BY <2>2 DEF NoCursor
  <2>4. CursorTypes'
    BY <2>1 DEF ScanInv, CursorTypes
  <2>5. Report'
    BY <2>1 DEF ScanInv, Report, FoundWasChecked, PatternsAreMasked, Rows, Elements, IsSeq, IsScan
  <2> QED
    BY <2>1, <2>2, <2>3, <2>4, <2>5 DEF ScanInv, Between, Cell, Masking, InCell, NERTypes
<1>4. CASE StartFails \/ Interrupt \/ Finish
  <2>1. /\ step' \in {"failed", "done"} /\ (step' = "done" => step = "open")
        /\ UNCHANGED <<others, request, using, columns, cursor, report>>
    BY <1>4 DEF StartFails, Interrupt, Finish, Fail
  <2>2. step' = "done" => cursor.detected = Null
    BY <2>1 DEF ScanInv, Masking, InCell, NERTypes
  <2>3. CursorTypes'
    BY <2>1 DEF ScanInv, CursorTypes, others
  <2>4. /\ Report' /\ \A m : Findable(m) => Findable(m)'
    BY <2>1, WithinColumn DEF others
  <2> QED
    BY <2>1, <2>2, <2>3, <2>4 DEF ScanInv, Between, Cell, Masking, InCell, NERTypes
<1>5. CASE UNCHANGED scanVars
  BY <1>0, <1>5, OthersKeep DEF scanVars, others, statement
<1> QED
  BY <1>1, <1>2, <1>3, <1>4, <1>5, ColumnStepsKeep, NextValueKeeps, RequireModelKeeps, DetectPatternsKeeps,
     EnsureInitializedKeeps, FindMatchesKeeps, CountKeeps, DetectedKeeps, MaskedKeeps
  DEF ScanNext, ValueSteps

(* FoundWasChecked: what pii_scan_table says was found, it says was        *)
(* checked and by which model, however many columns, chunks and values     *)
(* there are and whenever the model comes to be loaded between them.       *)
THEOREM FoundWasCheckedCorrect == ScanSpec => []FoundWasChecked
<1>1. ScanInv => FoundWasChecked
  BY DEF ScanInv, Report
<1> QED
  BY <1>1, InitScanInv, NextScanInv, PTL DEF ScanSpec

(* PatternsAreMasked: an address that pii_audit_table finds in a value is  *)
(* hidden in its masked value, through every change of the settings and    *)
(* the model, and whichever inferences fail.                               *)
THEOREM PatternsAreMaskedCorrect == ScanSpec => []PatternsAreMasked
<1>1. ScanInv => PatternsAreMasked
  BY DEF ScanInv, Report
<1> QED
  BY <1>1, InitScanInv, NextScanInv, PTL DEF ScanSpec
=============================================================================
