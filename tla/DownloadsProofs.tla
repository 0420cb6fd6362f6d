-------------------------- MODULE DownloadsProofs ---------------------------
(***************************************************************************)
(* Proofs about AssetDownload and PyLoader, for any number of inodes,      *)
(* chunks, attempts and deaths, and any number of published builds, and    *)
(* about PostalManager.                                                    *)
(***************************************************************************)
EXTENDS AssetDownload, PyLoader, PostalManager, FiniteSetTheorems, TLAPS

(* Six values make a set of at most six.                                   *)
LEMMA SixValues ==
  ASSUME NEW a, NEW b, NEW c, NEW d, NEW e, NEW f
  PROVE  LET S == {a, b, c, d, e, f} IN IsFiniteSet(S) /\ Cardinality(S) \in 0..6
<1> DEFINE S == {a, b, c, d, e, f}
<1> DEFINE value == [i \in 1..6 |->
                       IF i = 1 THEN a ELSE IF i = 2 THEN b ELSE IF i = 3 THEN c
                       ELSE IF i = 4 THEN d ELSE IF i = 5 THEN e ELSE f]
<1>1. value \in Surjection(1..6, S)
  <2>1. value \in [1..6 -> S]
    OBVIOUS
  <2>2. /\ value[1] = a /\ value[2] = b /\ value[3] = c
        /\ value[4] = d /\ value[5] = e /\ value[6] = f
    OBVIOUS
  <2> HIDE DEF value
  <2>3. \A x \in S : \E i \in 1..6 : value[i] = x
    BY <2>2
  <2> QED
    BY <2>1, <2>3 DEF Surjection
<1>2. IsFiniteSet(1..6) /\ Cardinality(1..6) = 6
  <2>1. 1 \in Int /\ 6 \in Int
    OBVIOUS
  <2>2. IsFiniteSet(1..6) /\ Cardinality(1..6) = IF 1 > 6 THEN 0 ELSE 6 - 1 + 1
    BY <2>1, FS_Interval, Zenon
  <2> QED
    BY <2>2
<1> HIDE DEF S, value
<1>3. IsFiniteSet(S) /\ Cardinality(S) <= Cardinality(1..6)
  BY <1>1, <1>2, FS_Surjection
<1>4. Cardinality(S) \in Nat
  BY <1>3, FS_CardinalityType
<1>5. IsFiniteSet(S) /\ Cardinality(S) \in 0..6
  BY <1>2, <1>3, <1>4
<1> QED
  BY <1>5 DEF S

(* A set smaller than Inodes leaves an inode that is not in it.            *)
LEMMA FreshIsUnused ==
  ASSUME NEW used, IsFiniteSet(used), Cardinality(used) < Cardinality(Inodes)
  PROVE  Fresh(used) \in Inodes \ used
<1>1. ~(Inodes \subseteq used)
  <2>1. SUFFICES ASSUME Inodes \in SUBSET used PROVE FALSE
    OBVIOUS
  <2>2. Cardinality(Inodes) <= Cardinality(used)
    BY <2>1, FS_Subset
  <2>3. Cardinality(Inodes) \in Nat /\ Cardinality(used) \in Nat
    BY AssetAssumption, FS_CardinalityType
  <2> QED
    BY <2>2, <2>3
<1>2. PICK i \in Inodes : i \notin used
  BY <1>1
<1> QED
  BY <1>2 DEF Fresh

(* There is always an inode that no path and no open file names.           *)
LEMMA FreshExists == Fresh(InUse) \in Inodes \ InUse
<1> DEFINE P == {tmp["tokenizer"], dest["tokenizer"], legacy["tokenizer"],
                 tmp["model"], dest["model"], legacy["model"]}
           H == {handle[p] : p \in Processes}
           h == [p \in Processes |-> handle[p]]
<1>1. InUse = P \cup H
  BY DEF InUse, Files
<1>2. IsFiniteSet(P) /\ Cardinality(P) \in 0..6
  BY SixValues
<1>3. h \in Surjection(Processes, H)
  BY DEF Surjection
<1>4. IsFiniteSet(Processes) /\ Cardinality(Processes) \in Nat
  BY AssetAssumption, FS_CardinalityType
<1> HIDE DEF P, H, h
<1>5. IsFiniteSet(H) /\ Cardinality(H) <= Cardinality(Processes)
  BY <1>3, <1>4, FS_Surjection
<1>6. /\ IsFiniteSet(P \cup H)
      /\ Cardinality(P \cup H) = Cardinality(P) + Cardinality(H) - Cardinality(P \cap H)
  BY <1>2, <1>5, FS_Union
<1>7. Cardinality(H) \in Nat /\ Cardinality(P \cap H) \in Nat
  <2>1. P \cap H \in SUBSET P
    OBVIOUS
  <2> QED
    BY <2>1, <1>2, <1>5, FS_Subset, FS_CardinalityType
<1>8. Cardinality(Inodes) \in Nat /\ Cardinality(Inodes) > 6 + Cardinality(Processes)
  BY AssetAssumption, FS_CardinalityType
<1>9. Cardinality(P \cup H) < Cardinality(Inodes)
  BY <1>2, <1>4, <1>5, <1>6, <1>7, <1>8
<1> QED
  BY <1>1, <1>6, <1>9, FreshIsUnused

-----------------------------------------------------------------------------
(* What is in place, now or by an older version, is a finished transfer.   *)
InPlaceIsFinished ==
    \A f \in Files : /\ dest[f] # Nil => Finished(dest[f])
                     /\ legacy[f] # Nil => Finished(legacy[f])

(* No temporary path names an inode that another path names.               *)
TmpApart ==
    \A f, g \in Files : tmp[f] # Nil =>
        tmp[f] \notin {dest[g], legacy[g]} /\ (f # g => tmp[f] # tmp[g])

(* The open file is the temporary one, and holds what has been received.   *)
HandleIsTmp ==
    \A p \in Processes :
        IF at[p] = "fetch"
        THEN handle[p] = tmp[file[p]] /\ written[p] < Chunks /\ content[handle[p]] = 1..written[p]
        ELSE handle[p] = Nil

(* A file about to be moved into place is a finished transfer.             *)
RenamesFinished ==
    \A p \in Processes : at[p] = "rename" => tmp[file[p]] # Nil /\ Finished(tmp[file[p]])

AssetsInv == AssetsTypeOK /\ InPlaceIsFinished /\ TmpApart /\ HandleIsTmp /\ RenamesFinished

-----------------------------------------------------------------------------
LEMMA AssetsInitType == AssetsInit => AssetsTypeOK
<1> SUFFICES ASSUME AssetsInit PROVE AssetsTypeOK
  OBVIOUS
<1>1. PICK m, k \in Inodes :
        /\ content = [i \in Inodes |-> IF i \in {m, k} THEN Whole ELSE {}]
        /\ legacy \in {NoFiles, [f \in Files |-> IF f = "model" THEN m ELSE k]}
  BY DEF AssetsInit
<1>2. content \in [Inodes -> SUBSET Whole] /\ legacy \in [Files -> Inodes \cup {Nil}]
  BY <1>1 DEF NoFiles
<1>3. /\ installed \in BOOLEAN
      /\ tmp \in [Files -> Inodes \cup {Nil}] /\ dest \in [Files -> Inodes \cup {Nil}]
  BY DEF AssetsInit, NoFiles
<1>4. file \in [Processes -> Files] /\ tries \in [Processes -> 1..MaxTries]
  BY AssetAssumption DEF AssetsInit, Files
<1>5. /\ handle \in [Processes -> Inodes \cup {Nil}] /\ written \in [Processes -> 0..Chunks]
      /\ deaths \in 0..MaxDeaths
  BY AssetAssumption DEF AssetsInit
<1> QED
  BY <1>2, <1>3, <1>4, <1>5 DEF AssetsInit, AssetsTypeOK

(* Every step keeps the types, whichever process takes it.                 *)
LEMMA AssetsTypeStep == AssetsTypeOK /\ [AssetsNext]_assetVars => AssetsTypeOK'
<1> SUFFICES ASSUME AssetsTypeOK, [AssetsNext]_assetVars PROVE AssetsTypeOK'
  OBVIOUS
<1> USE AssetAssumption DEF AssetsTypeOK, GoOn, fs, assetLocals, Files
<1>1. ASSUME NEW p \in Processes, Migrate(p) PROVE AssetsTypeOK'
  BY <1>1 DEF Migrate
<1>2. ASSUME NEW p \in Processes, MigrateFiles(p) PROVE AssetsTypeOK'
  <2>1. CASE Move(p, "move_model", "model", "move_tokenizer")
    BY <2>1 DEF Move
  <2>2. CASE Move(p, "move_tokenizer", "tokenizer", "exists")
    BY <2>2 DEF Move
  <2> QED
    BY <1>2, <2>1, <2>2 DEF MigrateFiles
<1>3. ASSUME NEW p \in Processes, AssetsExist(p) PROVE AssetsTypeOK'
  BY <1>3 DEF AssetsExist
<1>4. ASSUME NEW p \in Processes, OpenTmp(p) PROVE AssetsTypeOK'
  <2>1. PICK i \in Inodes : /\ content' = [content EXCEPT ![i] = {}]
                            /\ tmp' = [tmp EXCEPT ![file[p]] = i]
                            /\ handle' = [handle EXCEPT ![p] = i]
    BY <1>4 DEF OpenTmp
  <2> QED
    BY <1>4, <2>1 DEF OpenTmp
<1>5. ASSUME NEW p \in Processes, OpenTmpFails(p) PROVE AssetsTypeOK'
  BY <1>5 DEF OpenTmpFails
<1>6. ASSUME NEW p \in Processes, Fetch(p) PROVE AssetsTypeOK'
  BY <1>6 DEF Fetch, Whole
<1>7. ASSUME NEW p \in Processes, FetchFails(p) PROVE AssetsTypeOK'
  BY <1>7 DEF FetchFails
<1>8. ASSUME NEW p \in Processes, Close(p) PROVE AssetsTypeOK'
  BY <1>8 DEF Close, Whole
<1>9. ASSUME NEW p \in Processes, Rename(p) PROVE AssetsTypeOK'
  BY <1>9 DEF Rename
<1>10. ASSUME NEW p \in Processes, RetryOrGiveUp(p) PROVE AssetsTypeOK'
  BY <1>10 DEF RetryOrGiveUp
<1>11. ASSUME NEW p \in Processes, BothExist(p) PROVE AssetsTypeOK'
  BY <1>11 DEF BothExist
<1>12. ASSUME NEW p \in Processes, StartAgain(p) PROVE AssetsTypeOK'
  BY <1>12 DEF StartAgain
<1>13. ASSUME NEW p \in Processes, ProcessDies(p) PROVE AssetsTypeOK'
  BY <1>13 DEF ProcessDies
<1>14. CASE UNCHANGED assetVars
  BY <1>14 DEF assetVars
<1> QED
  BY <1>1, <1>2, <1>3, <1>4, <1>5, <1>6, <1>7, <1>8, <1>9, <1>10, <1>11, <1>12, <1>13, <1>14
     DEF AssetsNext, Load

(* Type correctness: whatever the processes of a user do to each other's   *)
(* downloads, paths name inodes, a download in progress has its file open, *)
(* and no file is attempted more than max_retries times.                   *)
THEOREM AssetsTypeCorrect == AssetsSpec => []AssetsTypeOK
BY AssetsInitType, AssetsTypeStep, PTL DEF AssetsSpec

(* A load that goes on finds both files, however many processes download:  *)
(* a path once filled is never emptied.                                    *)
LEMMA PairStep == AssetsTypeOK /\ PairMatched /\ [AssetsNext]_assetVars => PairMatched'
<1> SUFFICES ASSUME AssetsTypeOK, PairMatched, [AssetsNext]_assetVars PROVE PairMatched'
  OBVIOUS
<1>1. \A f \in Files : dest[f] # Nil => dest'[f] # Nil
  <2>1. ASSUME NEW p \in Processes, MigrateFiles(p)
        PROVE  \A f \in Files : dest[f] # Nil => dest'[f] # Nil
    BY <2>1 DEF MigrateFiles, Move, AssetsTypeOK
  <2>2. ASSUME NEW p \in Processes, Rename(p)
        PROVE  \A f \in Files : dest[f] # Nil => dest'[f] # Nil
    BY <2>2 DEF Rename, AssetsTypeOK
  <2>3. UNCHANGED dest \/ \E p \in Processes : MigrateFiles(p) \/ Rename(p)
    BY DEF AssetsNext, Load, Migrate, AssetsExist, OpenTmp, OpenTmpFails, Fetch, FetchFails, Close,
           RetryOrGiveUp, BothExist, StartAgain, ProcessDies, assetVars, fs
  <2> QED
    BY <2>1, <2>2, <2>3
<1>2. \A p \in Processes :
        at'[p] = "ready" => at[p] = "ready" \/ \A f \in Files : dest[f] # Nil
  <2> SUFFICES ASSUME NEW p \in Processes, at'[p] = "ready", at[p] # "ready"
               PROVE  \A f \in Files : dest[f] # Nil
    OBVIOUS
  <2>1. PICK q \in Processes : Migrate(q) \/ Load(q) \/ StartAgain(q) \/ ProcessDies(q)
    BY DEF AssetsNext, assetVars
  <2>2. ASSUME Migrate(q) \/ MigrateFiles(q) \/ OpenTmp(q) \/ OpenTmpFails(q) \/ Fetch(q)
               \/ FetchFails(q) \/ Close(q) \/ Rename(q) \/ RetryOrGiveUp(q)
               \/ StartAgain(q) \/ ProcessDies(q)
        PROVE  FALSE
    <3>1. at' = at \/ \E x : x # "ready" /\ at' = [at EXCEPT ![q] = x]
      BY <2>2 DEF Migrate, MigrateFiles, Move, OpenTmp, OpenTmpFails, Fetch, FetchFails, Close, Rename,
                  RetryOrGiveUp, StartAgain, ProcessDies, GoOn
    <3> QED
      BY <3>1 DEF AssetsTypeOK
  <2>3. AssetsExist(q) \/ BothExist(q)
    BY <2>1, <2>2 DEF Load
  <2> QED
    BY <2>3 DEF AssetsExist, BothExist, GoOn, AssetsTypeOK
<1> QED
  BY <1>1, <1>2 DEF PairMatched

(* "Both assets must exist as a matched pair before declaring success",    *)
(* for any number of processes that share the directory.                   *)
THEOREM PairMatchedCorrect == AssetsSpec => []PairMatched
<1>1. AssetsInit => PairMatched
  BY DEF AssetsInit, PairMatched
<1> QED
  BY <1>1, AssetsInitType, AssetsTypeStep, PairStep, PTL DEF AssetsSpec

-----------------------------------------------------------------------------
LEMMA AssetsInvInit == AssetsInit => AssetsInv
<1> SUFFICES ASSUME AssetsInit PROVE AssetsInv
  OBVIOUS
<1>1. PICK m, k \in Inodes :
        /\ content = [i \in Inodes |-> IF i \in {m, k} THEN Whole ELSE {}]
        /\ legacy \in {NoFiles, [f \in Files |-> IF f = "model" THEN m ELSE k]}
  BY DEF AssetsInit
<1>2. InPlaceIsFinished /\ TmpApart
  BY <1>1 DEF AssetsInit, InPlaceIsFinished, TmpApart, NoFiles, Files, Finished
<1>3. HandleIsTmp /\ RenamesFinished
  BY DEF AssetsInit, HandleIsTmp, RenamesFinished
<1> QED
  BY <1>2, <1>3, AssetsInitType DEF AssetsInv

(* A process that moves along, and leaves the paths and the open file of   *)
(* it as they are, keeps the invariant, unless it enters the two places    *)
(* that promise something of the temporary file.                           *)
LEMMA MovingAlong ==
  ASSUME AssetsInv, NEW p \in Processes, NEW to, to \notin {"fetch", "rename"},
         AssetsTypeOK', at' = [at EXCEPT ![p] = to], handle' = [handle EXCEPT ![p] = Nil],
         UNCHANGED <<content, tmp, dest, legacy, written>>,
         \A q \in Processes : q # p => file'[q] = file[q]
  PROVE  AssetsInv'
<1> USE DEF AssetsInv, AssetsTypeOK, Finished
<1>1. InPlaceIsFinished' /\ TmpApart'
  BY DEF InPlaceIsFinished, TmpApart
<1>2. HandleIsTmp'
  BY DEF HandleIsTmp
<1>3. RenamesFinished'
  BY DEF RenamesFinished
<1> QED
  BY <1>1, <1>2, <1>3

(* What the other processes that download rely on, when a process does     *)
(* something to the temporary file of its own file f.                      *)
LEMMA OthersApart ==
  ASSUME AssetsInv, NEW p \in Processes, NEW f \in Files, file[p] = f,
         \A q \in Processes : q # p /\ at[q] \in {"fetch", "rename"} => file[q] # f,
         \A q \in Processes : q # p => UNCHANGED <<at[q], file[q], handle[q], written[q]>>,
         \A g \in Files : g # f => tmp'[g] = tmp[g],
         \A g \in Files : g # f /\ tmp[g] # Nil => content'[tmp[g]] = content[tmp[g]]
  PROVE  /\ \A q \in Processes : q # p =>
              IF at'[q] = "fetch"
              THEN /\ handle'[q] = tmp'[file'[q]] /\ written'[q] < Chunks
                   /\ content'[handle'[q]] = 1..written'[q]
              ELSE handle'[q] = Nil
         /\ \A q \in Processes : q # p /\ at'[q] = "rename" =>
              tmp'[file'[q]] # Nil /\ Finished(tmp[file[q]])'
<1> SUFFICES ASSUME NEW q \in Processes, q # p
             PROVE  /\ IF at'[q] = "fetch"
                       THEN /\ handle'[q] = tmp'[file'[q]] /\ written'[q] < Chunks
                            /\ content'[handle'[q]] = 1..written'[q]
                       ELSE handle'[q] = Nil
                    /\ at'[q] = "rename" => tmp'[file'[q]] # Nil /\ Finished(tmp[file[q]])'
  OBVIOUS
<1> DEFINE g == file[q]
<1>1. g \in Files /\ at'[q] = at[q] /\ file'[q] = g /\ handle'[q] = handle[q] /\ written'[q] = written[q]
  BY DEF AssetsInv, AssetsTypeOK
<1>2. IF at[q] = "fetch"
      THEN handle[q] = tmp[g] /\ written[q] < Chunks /\ content[handle[q]] = 1..written[q]
      ELSE handle[q] = Nil
  BY DEF AssetsInv, HandleIsTmp
<1>3. at[q] = "rename" => tmp[g] # Nil /\ Finished(tmp[g])
  BY DEF AssetsInv, RenamesFinished
<1>4. at[q] = "fetch" => tmp[g] # Nil
  BY <1>2, AssetAssumption DEF AssetsInv, AssetsTypeOK
<1>5. at[q] \in {"fetch", "rename"} => g # f
  OBVIOUS
<1> HIDE DEF g
<1>6. at[q] \in {"fetch", "rename"} => tmp'[g] = tmp[g] /\ content'[tmp[g]] = content[tmp[g]]
  BY <1>1, <1>3, <1>4, <1>5
<1>7. CASE at[q] = "fetch"
  BY <1>1, <1>2, <1>6, <1>7
<1>8. CASE at[q] = "rename"
  <2>1. tmp'[file'[q]] = tmp[g] /\ content'[tmp[g]] = content[tmp[g]] /\ tmp[g] # Nil
    BY <1>1, <1>3, <1>6, <1>8
  <2>2. Finished(tmp[file[q]])'
    BY <1>3, <1>8, <2>1 DEF Finished
  <2> QED
    BY <1>1, <1>2, <1>8, <2>1, <2>2
<1>9. CASE at[q] \notin {"fetch", "rename"}
  BY <1>1, <1>2, <1>9
<1> QED
  BY <1>7, <1>8, <1>9

(* Processes that do not download one file at one time keep the invariant. *)
LEMMA AssetsInvStep ==
  ASSUME ~Sharing, ~Sharing', AssetsInv, [AssetsNext]_assetVars
  PROVE  AssetsInv'
<1> USE AssetAssumption DEF AssetsInv, GoOn, fs, assetLocals
<1>0. AssetsTypeOK'
  BY AssetsTypeStep
<1>1. ASSUME NEW p \in Processes,
             \/ Migrate(p) \/ AssetsExist(p) \/ OpenTmpFails(p) \/ RetryOrGiveUp(p)
             \/ BothExist(p) \/ StartAgain(p)
      PROVE  AssetsInv'
  <2>1. at[p] # "fetch" /\ handle[p] = Nil
    BY <1>1 DEF Migrate, AssetsExist, OpenTmpFails, RetryOrGiveUp, BothExist, StartAgain, HandleIsTmp
  <2>2. \E to : to \notin {"fetch", "rename"} /\ at' = [at EXCEPT ![p] = to]
    BY <1>1 DEF Migrate, AssetsExist, OpenTmpFails, RetryOrGiveUp, BothExist, StartAgain
  <2>3. UNCHANGED <<content, tmp, dest, legacy, written, handle>>
    BY <1>1 DEF Migrate, AssetsExist, OpenTmpFails, RetryOrGiveUp, BothExist, StartAgain
  <2>4. handle' = [handle EXCEPT ![p] = Nil]
    BY <2>1, <2>3 DEF AssetsTypeOK
  <2>5. \A q \in Processes : q # p => file'[q] = file[q]
    BY <1>1 DEF Migrate, AssetsExist, OpenTmpFails, RetryOrGiveUp, BothExist, StartAgain, AssetsTypeOK
  <2> QED
    BY <1>0, <2>2, <2>3, <2>4, <2>5, MovingAlong
<1>2. ASSUME NEW p \in Processes, ProcessDies(p) PROVE AssetsInv'
  <2>1. \A q \in Processes : q # p => file'[q] = file[q]
    BY <1>2 DEF ProcessDies
  <2> QED
    BY <1>0, <1>2, <2>1, MovingAlong DEF ProcessDies
<1>3. ASSUME NEW p \in Processes, MigrateFiles(p) PROVE AssetsInv'
  <2> USE <1>3 DEF MigrateFiles, Move, AssetsTypeOK
  <2>1. InPlaceIsFinished'
    BY DEF InPlaceIsFinished, Finished
  <2>2. TmpApart'
    BY DEF TmpApart
  <2>3. HandleIsTmp' /\ RenamesFinished'
    BY DEF HandleIsTmp, RenamesFinished, Finished
  <2> QED
    BY <1>0, <2>1, <2>2, <2>3
<1>4. ASSUME NEW p \in Processes, OpenTmp(p) PROVE AssetsInv'
  <2> DEFINE f == file[p]
             i == IF tmp[f] = Nil THEN Fresh(InUse) ELSE tmp[f]
  <2>1. f \in Files /\ i \in Inodes
    BY FreshExists DEF AssetsTypeOK
  <2>2. /\ content' = [content EXCEPT ![i] = {}] /\ tmp' = [tmp EXCEPT ![f] = i]
        /\ handle' = [handle EXCEPT ![p] = i] /\ written' = [written EXCEPT ![p] = 0]
        /\ at' = [at EXCEPT ![p] = "fetch"] /\ UNCHANGED <<dest, legacy, file>>
    BY <1>4 DEF OpenTmp
  <2>3. \A g \in Files : i \notin {dest[g], legacy[g]} /\ (g # f => i # tmp[g])
    <3>1. CASE tmp[f] = Nil
      <4>1. i = Fresh(InUse) /\ i \notin InUse
        BY <3>1, FreshExists
      <4>2. \A g \in Files : {tmp[g], dest[g], legacy[g]} \subseteq InUse
        BY DEF InUse
      <4> HIDE DEF i
      <4> QED
        BY <4>1, <4>2
    <3>2. CASE tmp[f] # Nil
      BY <3>2, <2>1 DEF TmpApart
    <3> QED
      BY <3>1, <3>2
  <2>10. \A q \in Processes : q # p /\ at[q] \in {"fetch", "rename"} => file[q] # f
    <3>1. at'[p] = "fetch" /\ \A q \in Processes : q # p => at'[q] = at[q]
      BY <2>2 DEF AssetsTypeOK
    <3> QED
      BY <2>2, <3>1 DEF Sharing
  <2>11. file[p] = f
    OBVIOUS
  <2> HIDE DEF i, f
  <2>4. InPlaceIsFinished'
    BY <2>1, <2>2, <2>3 DEF InPlaceIsFinished, Finished, AssetsTypeOK
  <2>5. TmpApart'
    BY <2>1, <2>2, <2>3 DEF TmpApart, AssetsTypeOK
  <2>6. /\ \A q \in Processes : q # p => UNCHANGED <<at[q], file[q], handle[q], written[q]>>
        /\ \A g \in Files : g # f => tmp'[g] = tmp[g]
        /\ \A g \in Files : g # f /\ tmp[g] # Nil => content'[tmp[g]] = content[tmp[g]]
    BY <2>1, <2>2, <2>3 DEF AssetsTypeOK
  <2>7. at'[p] = "fetch" /\ handle'[p] = i /\ written'[p] = 0 /\ tmp'[f] = i /\ content'[i] = {}
    BY <2>1, <2>2 DEF AssetsTypeOK
  <2>8. /\ handle'[p] = tmp'[file'[p]] /\ written'[p] < Chunks
        /\ content'[handle'[p]] = 1..written'[p]
    <3>1. {} = 1..0 /\ 0 < Chunks
      OBVIOUS
    <3> QED
      BY <2>2, <2>7, <2>11, <3>1
  <2>12. /\ \A q \in Processes : q # p =>
              IF at'[q] = "fetch"
              THEN /\ handle'[q] = tmp'[file'[q]] /\ written'[q] < Chunks
                   /\ content'[handle'[q]] = 1..written'[q]
              ELSE handle'[q] = Nil
        /\ \A q \in Processes : q # p /\ at'[q] = "rename" =>
              tmp'[file'[q]] # Nil /\ Finished(tmp[file[q]])'
    BY <2>1, <2>6, <2>10, <2>11, OthersApart
  <2>9. HandleIsTmp' /\ RenamesFinished'
    BY <2>7, <2>8, <2>12 DEF HandleIsTmp, RenamesFinished
  <2> QED
    BY <1>0, <2>4, <2>5, <2>9
<1>5. ASSUME NEW p \in Processes, Fetch(p) \/ Close(p) PROVE AssetsInv'
  <2> DEFINE i == handle[p]
             f == file[p]
  <2>1. /\ at[p] = "fetch" /\ f \in Files /\ i = tmp[f] /\ i \in Inodes
        /\ content[i] = 1..written[p] /\ written[p] \in Nat /\ written[p] < Chunks
    BY <1>5 DEF Fetch, Close, HandleIsTmp, AssetsTypeOK
  <2>2. /\ \E c : c \in Whole /\ content' \in {content, [content EXCEPT ![i] = @ \cup {c}]}
        /\ UNCHANGED <<tmp, dest, legacy, file>>
    <3>1. CASE Fetch(p)
      <4>1. written[p] + 1 \in Whole
        BY <2>1, <3>1 DEF Fetch, Whole
      <4> QED
        BY <3>1, <4>1 DEF Fetch
    <3>2. CASE Close(p)
      <4>1. Chunks \in Whole
        BY DEF Whole
      <4> QED
        BY <3>2, <4>1 DEF Close
    <3> QED
      BY <1>5, <3>1, <3>2
  <2>3. /\ \A g \in Files : i \notin {dest[g], legacy[g]}
        /\ \A g \in Files : g # f /\ tmp[g] # Nil => i # tmp[g]
    BY <2>1 DEF TmpApart
  <2>4. InPlaceIsFinished' /\ TmpApart'
    BY <2>1, <2>2, <2>3 DEF InPlaceIsFinished, TmpApart, Finished, AssetsTypeOK
  <2>5. \A q \in Processes : q # p /\ at[q] \in {"fetch", "rename"} => file[q] # f
    BY <2>1 DEF Sharing
  <2>6. \A q \in Processes : q # p => UNCHANGED <<at[q], file[q], handle[q], written[q]>>
    BY <1>5 DEF Fetch, Close, AssetsTypeOK
  <2>7. \A g \in Files : g # f /\ tmp[g] # Nil => content'[tmp[g]] = content[tmp[g]]
    BY <2>1, <2>2, <2>3 DEF AssetsTypeOK
  <2>10. /\ \A q \in Processes : q # p =>
              IF at'[q] = "fetch"
              THEN /\ handle'[q] = tmp'[file'[q]] /\ written'[q] < Chunks
                   /\ content'[handle'[q]] = 1..written'[q]
              ELSE handle'[q] = Nil
        /\ \A q \in Processes : q # p /\ at'[q] = "rename" =>
              tmp'[file'[q]] # Nil /\ Finished(tmp[file[q]])'
    BY <2>1, <2>2, <2>5, <2>6, <2>7, OthersApart
  <2>8. CASE Fetch(p)
    <3>1. /\ content' = [content EXCEPT ![i] = @ \cup {written[p] + 1}] /\ at'[p] = "fetch"
          /\ written'[p] = written[p] + 1 /\ written[p] < Chunks - 1 /\ handle'[p] = i /\ tmp'[f] = i
      BY <2>1, <2>8 DEF Fetch, AssetsTypeOK
    <3>2. content'[i] = 1..written'[p] /\ written'[p] < Chunks
      BY <2>1, <3>1 DEF AssetsTypeOK
    <3>3. file'[p] = f
      BY <2>2
    <3> HIDE DEF i, f
    <3>4. HandleIsTmp' /\ RenamesFinished'
      BY <2>10, <3>1, <3>2, <3>3 DEF HandleIsTmp, RenamesFinished
    <3> QED
      BY <1>0, <2>4, <3>4
  <2>9. CASE Close(p)
    <3>1. at'[p] = "rename" /\ handle'[p] = Nil /\ tmp'[f] = i /\ written[p] = Chunks - 1
      BY <2>1, <2>9 DEF Close, AssetsTypeOK
    <3>2. Whole \ {Chunks} \subseteq content[i]
      BY <2>1, <3>1 DEF Whole
    <3>3. Whole \ {Chunks} \subseteq content'[i]
      BY <2>1, <2>2, <3>2 DEF AssetsTypeOK
    <3>4. tmp'[file'[p]] = i /\ i # Nil
      BY <2>1, <2>2, <3>1
    <3>5. Finished(tmp[file[p]])'
      BY <3>3, <3>4 DEF Finished
    <3>6. HandleIsTmp' /\ RenamesFinished'
      BY <2>10, <3>1, <3>4, <3>5 DEF HandleIsTmp, RenamesFinished
    <3> QED
      BY <1>0, <2>4, <3>6
  <2> QED
    BY <1>5, <2>8, <2>9
<1>6. ASSUME NEW p \in Processes, FetchFails(p) \/ Rename(p) PROVE AssetsInv'
  <2> DEFINE f == file[p]
  <2>1. /\ f \in Files /\ at[p] \in {"fetch", "rename"}
        /\ at[p] = "rename" => handle[p] = Nil /\ tmp[f] # Nil /\ Finished(tmp[f])
    BY <1>6 DEF FetchFails, Rename, HandleIsTmp, RenamesFinished, AssetsTypeOK
  <2>2. /\ UNCHANGED <<content, legacy>> /\ handle'[p] = Nil
        /\ \E to : to \notin {"fetch", "rename"} /\ at' = [at EXCEPT ![p] = to]
        /\ \/ Rename(p) /\ dest' = [dest EXCEPT ![f] = tmp[f]] /\ tmp' = [tmp EXCEPT ![f] = Nil]
           \/ UNCHANGED dest /\ (UNCHANGED tmp \/ tmp' = [tmp EXCEPT ![f] = Nil])
    BY <1>6, <2>1 DEF FetchFails, Rename, AssetsTypeOK
  <2>3. at[p] = "rename" \/ UNCHANGED dest
    BY <1>6 DEF FetchFails, Rename
  <2>4. \A q \in Processes : q # p => UNCHANGED <<at[q], file[q], handle[q], written[q]>>
    BY <1>6 DEF FetchFails, Rename, AssetsTypeOK
  <2>5. \A q \in Processes : q # p /\ at[q] \in {"fetch", "rename"} => file[q] # f
    BY <2>1 DEF Sharing
  <2>6. at'[p] \notin {"fetch", "rename"}
    BY <2>2 DEF AssetsTypeOK
  <2>7. file[p] = f
    OBVIOUS
  <2> HIDE DEF f
  <2>8. InPlaceIsFinished'
    BY <2>1, <2>2, <2>3 DEF InPlaceIsFinished, Finished, AssetsTypeOK, Rename
  <2>9. TmpApart'
    BY <2>1, <2>2 DEF TmpApart, AssetsTypeOK
  <2>10. /\ \A g \in Files : g # f => tmp'[g] = tmp[g]
         /\ \A g \in Files : g # f /\ tmp[g] # Nil => content'[tmp[g]] = content[tmp[g]]
    BY <2>1, <2>2 DEF AssetsTypeOK
  <2>11. HandleIsTmp' /\ RenamesFinished'
    BY <2>1, <2>2, <2>4, <2>5, <2>6, <2>7, <2>10, OthersApart DEF HandleIsTmp, RenamesFinished
  <2> QED
    BY <1>0, <2>8, <2>9, <2>11
<1>9. CASE UNCHANGED assetVars
  BY <1>9, <1>0 DEF assetVars, InPlaceIsFinished, TmpApart, HandleIsTmp, RenamesFinished, Finished
<1> QED
  BY <1>1, <1>2, <1>3, <1>4, <1>5, <1>6, <1>9 DEF AssetsNext, Load

(* What is moved into place is a finished transfer, and stays one, of any  *)
(* number of processes, however often they fail, die and load again, as    *)
(* long as no two of them download one file at one time: the run           *)
(* asset_shared shows what two processes that do can leave behind.         *)
THEOREM DestIsFinishedCorrect == AssetsSpec /\ []~Sharing => []DestIsFinished
<1>1. AssetsInv /\ [AssetsNext]_assetVars /\ ~Sharing /\ ~Sharing' => AssetsInv'
  BY AssetsInvStep
<1>2. AssetsInv => DestIsFinished
  BY DEF AssetsInv, InPlaceIsFinished, DestIsFinished
<1> QED
  BY <1>1, <1>2, AssetsInvInit, PTL DEF AssetsSpec

-----------------------------------------------------------------------------
(* What is on disk, and what may have been published by now.               *)
DiskTypes ==
    /\ builds \in 1..MaxBuilds
    /\ binary \in 1..builds \cup {NoFile, Damaged}
    /\ checksum \in 1..builds \cup {NoFile, Empty}
    /\ partial \in 1..builds \cup {NoFile, PartlyWritten, Damaged}
    /\ stage \in {"idle", "install", "cache", "sidecar", "archive", "write", "move", "checksum", "load"}
    /\ options \in [insecure : BOOLEAN, custom : BOOLEAN]

(* What a caller without insecure downloads has in hand at each stage.     *)
Downloading ==
    /\ stage \in {"sidecar", "archive", "write", "move"} => binary = NoFile
    /\ stage = "archive" => IF options.insecure THEN expected = NoFile ELSE expected \in 1..builds
    /\ stage \in {"write", "move"} =>
          /\ payload \in 1..builds \cup {Damaged}
          /\ IF options.insecure THEN expected = NoFile
             ELSE expected = payload /\ payload \in 1..builds
    /\ stage = "move" => partial = payload
    /\ stage = "checksum" => ~options.insecure /\ binary = payload /\ payload \in 1..builds
    /\ stage = "load" /\ ~options.insecure => binary \in 1..builds

(* A call has no result before it ends.                                    *)
NoResultYet == stage # "idle" => outcome = "none"

LoaderInv ==
    DiskTypes /\ Downloading /\ NoResultYet /\ LoadsVerified

-----------------------------------------------------------------------------
(* The current source fails: the next one starts, or all are raised.       *)
LEMMA SourceFailsKeeps ==
  ASSUME LoaderInv, NEW from \in {"install", "sidecar", "archive", "write", "move"}, SourceFails(from),
         UNCHANGED <<binary, checksum>>, partial' \in {partial, NoFile}
  PROVE  LoaderInv'
<1> USE DEF LoaderInv
<1>1. stage' \in {"idle", "install", "cache"} /\ stage = from
  BY DEF SourceFails, FirstStage, Step
<1>2. UNCHANGED <<builds, options, binary, checksum>>
  BY DEF SourceFails
<1>3. DiskTypes'
  BY <1>1, <1>2 DEF DiskTypes
<1>4. Downloading' /\ NoResultYet'
  BY <1>1, <1>2 DEF Downloading, NoResultYet, SourceFails, Step
<1>5. IF stage' = "idle" THEN outcome' = "raised" ELSE outcome' = "none"
  BY <1>1 DEF SourceFails, FirstStage, Step, NoResultYet
<1>6. LoadsVerified'
  BY <1>5 DEF LoadsVerified
<1> QED
  BY <1>3, <1>4, <1>6

(* The current URL fails: the other one is tried, or the source fails.     *)
LEMMA UrlFailsKeeps ==
  ASSUME LoaderInv, NEW from \in {"sidecar", "archive", "write", "move"}, UrlFails(from),
         UNCHANGED <<binary, checksum>>, partial' \in {partial, NoFile}
  PROVE  LoaderInv'
<1>1. CASE SourceFails(from)
  BY <1>1, SourceFailsKeeps
<1>2. CASE Step(from, "sidecar") /\ UNCHANGED <<builds, options, sources, outcome, failed>>
  <2> USE <1>2 DEF LoaderInv, Step
  <2>1. DiskTypes' /\ Downloading' /\ NoResultYet'
    BY DEF DiskTypes, Downloading, NoResultYet
  <2>2. LoadsVerified'
    BY DEF LoadsVerified, NoResultYet
  <2> QED
    BY <2>1, <2>2
<1> QED
  BY <1>1, <1>2 DEF UrlFails

LEMMA LoaderInvInit == LoaderInit => LoaderInv
<1> SUFFICES ASSUME LoaderInit PROVE LoaderInv
  OBVIOUS
<1>1. DiskTypes
  <2>1. 1 \in 1..MaxBuilds
    BY LoaderAssumption
  <2>2. options \in [insecure : BOOLEAN, custom : BOOLEAN]
    BY DEF LoaderInit
  <2>3. /\ builds = 1 /\ binary = NoFile /\ checksum = NoFile /\ partial = NoFile
        /\ stage = "idle"
    BY DEF LoaderInit
  <2> QED
    BY <2>1, <2>2, <2>3 DEF DiskTypes
<1>2. Downloading /\ NoResultYet
  BY DEF LoaderInit, Downloading, NoResultYet
<1>3. LoadsVerified
  BY DEF LoaderInit, LoadsVerified
<1> QED
  BY <1>1, <1>2, <1>3 DEF LoaderInv

LEMMA LoaderInvStep == LoaderInv /\ [LoaderNext]_loaderVars => LoaderInv'
<1> SUFFICES ASSUME LoaderInv, [LoaderNext]_loaderVars PROVE LoaderInv'
  OBVIOUS
<1> USE LoaderAssumption DEF cacheFiles, download
<1>1. CASE LoadInto
  BY <1>1 DEF LoadInto, FirstStage, LoaderInv, DiskTypes, Downloading, NoResultYet, LoadsVerified
<1>2. CASE InstallFromCommunity
  BY <1>2 DEF InstallFromCommunity, Leave, Step, LoaderInv, DiskTypes, Downloading, NoResultYet, LoadsVerified
<1>3. CASE LookInCache
  BY <1>3 DEF LookInCache, Step, LoaderInv, DiskTypes, Downloading, NoResultYet, LoadsVerified
<1>4. CASE CachedChecksumDiffers
  BY <1>4 DEF CachedChecksumDiffers, Leave, Step, LoaderInv, DiskTypes, Downloading, NoResultYet, LoadsVerified
<1>5. CASE FetchSidecar
  BY <1>5 DEF FetchSidecar, Step, LoaderInv, DiskTypes, Downloading, NoResultYet, LoadsVerified
<1>6. CASE FetchArchive
  BY <1>6 DEF FetchArchive, Step, LoaderInv, DiskTypes, Downloading, NoResultYet, LoadsVerified
<1>7. CASE WritePartial
  BY <1>7 DEF WritePartial, Step, LoaderInv, DiskTypes, Downloading, NoResultYet, LoadsVerified
<1>8. CASE MoveIntoPlace
  BY <1>8 DEF MoveIntoPlace, Step, LoaderInv, DiskTypes, Downloading, NoResultYet, LoadsVerified
<1>9. CASE WriteChecksum
  BY <1>9 DEF WriteChecksum, Step, LoaderInv, DiskTypes, Downloading, NoResultYet, LoadsVerified
<1>10. CASE ChecksumFails
  BY <1>10 DEF ChecksumFails, Leave, Step, LoaderInv, DiskTypes, Downloading, NoResultYet, LoadsVerified
<1>11. CASE LoadFile
  BY <1>11 DEF LoadFile, Leave, Step, LoaderInv, DiskTypes, Downloading, NoResultYet, LoadsVerified
<1>12. CASE LoadFails
  BY <1>12 DEF LoadFails, Leave, Step, LoaderInv, DiskTypes, Downloading, NoResultYet, LoadsVerified
<1>13. CASE MirrorPublishes
  BY <1>13 DEF MirrorPublishes, Step, LoaderInv, DiskTypes, Downloading, NoResultYet, LoadsVerified
<1>14. CASE Die
  BY <1>14 DEF Die, Step, LoaderInv, DiskTypes, Downloading, NoResultYet, LoadsVerified
<1>15. CASE CommunityFails
  BY <1>15, SourceFailsKeeps DEF CommunityFails
<1>16. CASE SidecarFails
  BY <1>16, UrlFailsKeeps DEF SidecarFails
<1>17. CASE ArchiveFails
  BY <1>17, UrlFailsKeeps DEF ArchiveFails
<1>18. CASE WriteFails
  BY <1>18, UrlFailsKeeps DEF WriteFails
<1>19. CASE UNCHANGED loaderVars
  BY <1>19 DEF loaderVars, LoaderInv, DiskTypes, Downloading, NoResultYet, LoadsVerified
<1> QED
  BY <1>1, <1>2, <1>3, <1>4, <1>5, <1>6, <1>7, <1>8, <1>9, <1>10, <1>11, <1>12, <1>13, <1>14, <1>15, <1>16, <1>17, <1>18, <1>19 DEF LoaderNext

(* "Only verified binaries": what a caller without insecure downloads gets *)
(* from the cache or the network is a published build, whatever callers of *)
(* insecure downloads left behind and wherever processes died.             *)
THEOREM LoadsVerifiedCorrect == LoaderSpec => []LoadsVerified
<1>1. LoaderInv => LoadsVerified
  BY DEF LoaderInv
<1> QED
  BY <1>1, LoaderInvInit, LoaderInvStep, PTL DEF LoaderSpec

(***************************************************************************)
(* PostalManager, for any number of threads, retries, crashes and SETs.    *)
(* The inductive invariant ties init_lock to the thread inside, and the    *)
(* stages libpostal holds to how far the setup of that thread is.          *)
(***************************************************************************)
Inside == {"initialize", "load", "download", "extract", "end_load", "setup", "publish"}

Types ==
    /\ pc \in [Threads -> Inside \cup {"idle", "ensure", "load_data", "use"}]
    /\ initialized \in BOOLEAN
    /\ loaded \in [Stage -> Dirs \cup {None}] /\ ready \subseteq Stage
    /\ setting \in {"default", "custom"}

Locked == \A t \in Threads : pc[t] \in Inside <=> init_lock = t

(* The stages set up before a call.                                        *)
Before(n) ==
    IF n = 1 THEN {} ELSE IF n \in {2, 3} THEN {"core"}
    ELSE IF n \in {4, 5} THEN {"core", "parser"} ELSE Stage

Held(stages, d) == ready = stages /\ loaded = [s \in Stage |-> IF s \in stages THEN d ELSE None]

(* The directory that the setting names.                                   *)
Named(d) == d \in Dirs /\ (d = "custom" <=> setting = "custom")

SettingUp ==
    \A t \in Threads :
        /\ pc[t] = "setup" => step \in 1..6 /\ Named(dir) /\ Held(Before(step), dir)
        /\ pc[t] = "publish" => Named(dir) /\ Held(Stage, dir)
        /\ pc[t] \in {"initialize", "setup", "publish"} => ~initialized
        /\ pc[t] \in {"load", "download", "extract", "end_load"} /\ caller = "parse" => ~initialized

Outside == \A t \in Threads : pc[t] \notin {"setup", "publish"}
NotSetUp == ~initialized /\ Outside => Held({}, None)
SetUpWhole == initialized => \E d \in Dirs : Named(d) /\ Held(Stage, d)
UseInitialized == \A t \in Threads : pc[t] = "use" => initialized

IInv == Types /\ Locked /\ SettingUp /\ NotSetUp /\ SetUpWhole /\ UseInitialized

LEMMA ResolvedIsNamed == setting \in {"default", "custom"} => Named(ResolveDataDirectory)
BY PostalAssumption DEF Named, ResolveDataDirectory, Dirs

LEMMA InitIInv == Init => IInv
BY PostalAssumption
   DEF Init, IInv, Types, Locked, SettingUp, NotSetUp, SetUpWhole, UseInitialized, Held, Inside,
       Stage, Dirs, None, Outside
(* While the lock is free no thread is inside; otherwise its owner only.   *)
LEMMA OneInside ==
    ASSUME IInv
    PROVE  /\ init_lock = NoThread => \A t \in Threads : pc[t] \notin Inside
           /\ \A t, u \in Threads : pc[t] \in Inside /\ u # t => pc[u] \notin Inside
BY PostalAssumption DEF IInv, Locked

(* Steps of a thread outside, which leave the manager alone.               *)
LEMMA OutsideSteps ==
    ASSUME IInv, NEW t \in Threads, StartParse(t) \/ StartLoadData(t) \/ Use(t) \/ SetAutoDownload(t)
    PROVE  IInv'
<1>1. /\ UNCHANGED <<setting, init_lock, initialized, ready, loaded, dir, step, caller>>
      /\ \A u \in Threads : \/ pc'[u] = pc[u]
                            \/ pc[u] \notin Inside /\ pc'[u] \in {"idle", "ensure", "load_data"}
                            \/ pc[u] \notin Inside /\ pc'[u] = "use" /\ initialized
      /\ pc' \in [Threads -> Inside \cup {"idle", "ensure", "load_data", "use"}]
  BY DEF StartParse, StartLoadData, Use, SetAutoDownload, Goto, manager, locals, IInv, Types, Inside
<1>2. Types' /\ Locked'
  BY <1>1 DEF IInv, Types, Locked, Inside
<1>3. SettingUp'
  BY <1>1 DEF IInv, SettingUp, Inside, Named, Held, Before
<1>4. NotSetUp' /\ SetUpWhole' /\ UseInitialized'
  BY <1>1 DEF IInv, NotSetUp, SetUpWhole, UseInitialized, Inside, Named, Held, Outside
<1> QED
  BY <1>2, <1>3, <1>4 DEF IInv

(* A thread takes the lock.                                                *)
LEMMA LockSteps ==
    ASSUME IInv, NEW t \in Threads, DoubleCheck(t) \/ LockLoadData(t)
    PROVE  IInv'
<1>1. /\ UNCHANGED <<setting, initialized, ready, loaded, dir, step>> /\ init_lock = NoThread
      /\ \A u \in Threads : pc[u] \notin Inside
      /\ \/ init_lock' = init_lock /\ initialized /\ pc' = [pc EXCEPT ![t] = "use"]
         \/ init_lock' = t /\ ~initialized /\ pc' = [pc EXCEPT ![t] = "initialize"]
         \/ init_lock' = t /\ pc' = [pc EXCEPT ![t] = "load"] /\ caller' = "load_data"
  BY OneInside DEF DoubleCheck, LockLoadData, Goto, locals
<1>2. Types' /\ Locked'
  BY <1>1, PostalAssumption DEF IInv, Types, Locked, Inside
<1>3. SettingUp'
  BY <1>1 DEF IInv, SettingUp, Inside, Types
<1>4. NotSetUp' /\ SetUpWhole' /\ UseInitialized'
  BY <1>1 DEF IInv, NotSetUp, SetUpWhole, UseInitialized, Inside, Named, Held, Outside, Types
<1> QED
  BY <1>2, <1>3, <1>4 DEF IInv

(* A thread inside goes on loading, with the manager as it is.             *)
LEMMA LoadSteps ==
    ASSUME IInv, NEW t \in Threads,
           UNCHANGED <<setting, init_lock, initialized, ready, loaded, caller>>,
           pc[t] \in {"load", "download", "extract"},
           pc' \in {[pc EXCEPT ![t] = p] : p \in {"download", "extract", "end_load"}}
    PROVE  IInv'
<1>1. Types' /\ Locked'
  BY DEF IInv, Types, Locked, Inside
<1>2. \A u \in Threads : u # t => pc'[u] = pc[u] /\ pc[u] \notin Inside
  BY OneInside DEF Inside, IInv, Types
<1>3. pc'[t] \in {"download", "extract", "end_load"}
  BY DEF IInv, Types
<1>4. SettingUp'
  BY <1>2, <1>3 DEF IInv, SettingUp, Inside
<1>5. NotSetUp' /\ SetUpWhole' /\ UseInitialized'
  BY <1>2, <1>3 DEF IInv, NotSetUp, SetUpWhole, UseInitialized, Inside, Named, Held, Outside
<1> QED
  BY <1>1, <1>4, <1>5 DEF IInv

(* A thread that has not begun to set up leaves.                           *)
LEMMA LeaveSteps ==
    ASSUME IInv, NEW t \in Threads, UNCHANGED <<setting, initialized, ready, loaded>>,
           NEW from \in {"initialize", "load", "download", "extract", "end_load"}, Unlock(t, from)
    PROVE  IInv'
<1>1. pc[t] = from /\ pc' = [pc EXCEPT ![t] = "idle"] /\ init_lock' = NoThread
  BY DEF Unlock, Goto
<1>2. \A u \in Threads : pc'[u] \notin Inside /\ (pc'[u] = "use" => pc[u] = "use")
  BY <1>1, OneInside DEF IInv, Types, Inside
<1>3. Types' /\ Locked'
  BY <1>1, <1>2, PostalAssumption DEF IInv, Types, Locked
<1>4. Outside
  BY <1>1, OneInside DEF Outside, Inside
<1>5. SettingUp' /\ UseInitialized'
  BY <1>2 DEF IInv, SettingUp, Inside, UseInitialized
<1>6. NotSetUp' /\ SetUpWhole'
  BY <1>4 DEF IInv, NotSetUp, SetUpWhole, Named, Held
<1> QED
  BY <1>3, <1>5, <1>6 DEF IInv
(* A thread begins to set up: libpostal holds nothing.                     *)
LEMMA BeginSetUp ==
    ASSUME IInv, NEW t \in Threads, UNCHANGED <<setting, init_lock, initialized, ready, loaded>>,
           ~initialized, NEW from \in {"initialize", "end_load"}, Goto(t, from, "setup"),
           step' = 1, dir' = ResolveDataDirectory
    PROVE  IInv'
<1>1. pc[t] = from /\ pc' = [pc EXCEPT ![t] = "setup"]
  BY DEF Goto
<1>2. \A u \in Threads : u # t => pc'[u] = pc[u] /\ pc[u] \notin Inside
  BY <1>1, OneInside DEF Inside, IInv, Types
<1>3. Types' /\ Locked'
  BY <1>1 DEF IInv, Types, Locked, Inside
<1>4. Outside
  BY <1>1, <1>2 DEF Outside, Inside
<1>5. Held({}, None) /\ Named(dir')
  BY <1>4, ResolvedIsNamed DEF IInv, NotSetUp, Types
<1>6. Held(Before(1), dir')
  BY <1>5 DEF Held, Before
<1>7. pc'[t] = "setup"
  BY <1>1 DEF IInv, Types
<1>8. SettingUp'
  BY <1>2, <1>5, <1>6, <1>7 DEF SettingUp, Inside, Named, Held, Before
<1>9. NotSetUp' /\ SetUpWhole' /\ UseInitialized'
  BY <1>2, <1>7 DEF IInv, NotSetUp, SetUpWhole, UseInitialized, Inside, Outside
<1> QED
  BY <1>3, <1>8, <1>9 DEF IInv

LEMMA CheckStatusStep ==
    ASSUME IInv, NEW t \in Threads, CheckStatus(t)
    PROVE  IInv'
<1>1. UNCHANGED <<setting, initialized, ready, loaded>>
  BY DEF CheckStatus
<1>2. CASE Unlock(t, "initialize")
  BY <1>1, <1>2, LeaveSteps
<1>3. CASE Goto(t, "initialize", "setup") /\ step' = 1 /\ dir' = ResolveDataDirectory /\ UNCHANGED init_lock
  <2>1. ~initialized
    BY <1>3 DEF Goto, IInv, SettingUp
  <2> QED
    BY <1>1, <1>3, <2>1, BeginSetUp
<1>4. CASE Goto(t, "initialize", "load") /\ caller' = "parse" /\ UNCHANGED <<init_lock, dir, step>>
  <2>1. ~initialized /\ pc[t] = "initialize" /\ pc' = [pc EXCEPT ![t] = "load"]
    BY <1>4 DEF Goto, IInv, SettingUp
  <2>2. \A u \in Threads : u # t => pc'[u] = pc[u] /\ pc[u] \notin Inside
    BY <2>1, OneInside DEF Inside, IInv, Types
  <2>3. Types' /\ Locked'
    BY <1>1, <1>4, <2>1 DEF IInv, Types, Locked, Inside
  <2>4. pc'[t] = "load"
    BY <2>1 DEF IInv, Types
  <2>5. SettingUp'
    BY <1>1, <2>1, <2>2, <2>4 DEF SettingUp, Inside
  <2>6. NotSetUp' /\ SetUpWhole' /\ UseInitialized'
    BY <1>1, <2>1, <2>2, <2>4 DEF IInv, NotSetUp, SetUpWhole, UseInitialized, Inside, Outside, Held
  <2> QED
    BY <2>3, <2>5, <2>6 DEF IInv
<1> QED
  BY <1>2, <1>3, <1>4 DEF CheckStatus

LEMMA EndLoadStep ==
    ASSUME IInv, NEW t \in Threads, EndLoad(t)
    PROVE  IInv'
<1>1. UNCHANGED <<setting, initialized, ready, loaded>>
  BY DEF EndLoad
<1>2. CASE Unlock(t, "end_load")
  BY <1>1, <1>2, LeaveSteps
<1>3. CASE /\ caller = "parse" /\ Goto(t, "end_load", "setup") /\ step' = 1
           /\ dir' = ResolveDataDirectory /\ UNCHANGED init_lock
  <2>1. ~initialized
    BY <1>3 DEF Goto, IInv, SettingUp
  <2> QED
    BY <1>1, <1>3, <2>1, BeginSetUp
<1> QED
  BY <1>2, <1>3 DEF EndLoad

(* A setup call succeeds: its stage is held.                               *)
LEMMA SetUpStep ==
    ASSUME IInv, NEW t \in Threads, SetUp(t)
    PROVE  IInv'
<1>1. /\ UNCHANGED <<setting, init_lock, initialized, caller, dir>> /\ pc[t] = "setup"
      /\ loaded' = [loaded EXCEPT ![Current] = dir] /\ ready' = ready \cup {Current}
  BY DEF SetUp, Loads
<1>2. \/ step < 6 /\ pc' = [pc EXCEPT ![t] = "setup"] /\ step' = step + 1
      \/ ~(step < 6) /\ pc' = [pc EXCEPT ![t] = "publish"] /\ step' = step
  BY DEF SetUp, Loads, Goto, LastStep, Stages
<1>3. step \in 1..6 /\ Named(dir) /\ Held(Before(step), dir) /\ ~initialized
  BY <1>1 DEF IInv, SettingUp
<1>4. \A u \in Threads : u # t => pc'[u] = pc[u] /\ pc[u] \notin Inside
  BY <1>1, <1>2, OneInside DEF Inside, IInv, Types
<1>5. Current \in Stage /\ Before(step) \cup {Current} = (IF step < 6 THEN Before(step + 1) ELSE Stage)
  BY <1>3 DEF Current, Stages, Stage, Before
<1>6. /\ ready' = Before(step) \cup {Current}
      /\ loaded' = [s \in Stage |-> IF s \in Before(step) \cup {Current} THEN dir ELSE None]
  <2>1. loaded = [s \in Stage |-> IF s \in Before(step) THEN dir ELSE None] /\ ready = Before(step)
    BY <1>3 DEF Held
  <2> QED
    BY <1>1, <1>5, <2>1
<1>7. Types' /\ Locked'
  BY <1>1, <1>2, <1>3, <1>5 DEF IInv, Types, Locked, Inside, Named
<1>8. SettingUp'
  <2>1. CASE step < 6
    <3>1. pc'[t] = "setup" /\ step' \in 1..6
      BY <1>2, <1>3, <2>1 DEF IInv, Types
    <3>2. step' = step + 1 /\ Before(step)' = Before(step) \cup {Current}
      BY <1>2, <1>5, <2>1, <3>1 DEF Before
    <3>3. Held(Before(step), dir)'
      BY <1>1, <1>6, <3>2 DEF Held
    <3> QED
      BY <1>1, <1>3, <1>4, <3>1, <3>3 DEF SettingUp, Inside, Named
  <2>2. CASE ~(step < 6)
    <3>1. pc'[t] = "publish"
      BY <1>2, <2>2 DEF IInv, Types
    <3>2. Before(step) \cup {Current} = Stage
      BY <1>5, <2>2
    <3>3. Held(Stage, dir)'
      BY <1>1, <1>6, <3>2 DEF Held
    <3> QED
      BY <1>1, <1>3, <1>4, <3>1, <3>3 DEF SettingUp, Inside, Named
  <2> QED
    BY <2>1, <2>2
<1>9. pc'[t] \in {"setup", "publish"}
  BY <1>2 DEF IInv, Types
<1>10. NotSetUp' /\ SetUpWhole' /\ UseInitialized'
  BY <1>1, <1>3, <1>4, <1>9 DEF IInv, NotSetUp, SetUpWhole, UseInitialized, Inside, Outside
<1> QED
  BY <1>7, <1>8, <1>10 DEF IInv

(* A setup call fails: the stages held are torn down.                      *)
LEMMA SetUpFailsStep ==
    ASSUME IInv, NEW t \in Threads, SetUpFails(t)
    PROVE  IInv'
<1>1. /\ pc[t] = "setup" /\ pc' = [pc EXCEPT ![t] = "idle"] /\ init_lock' = NoThread
      /\ loaded' = [s \in Stage |-> IF s \in ready THEN None ELSE loaded[s]]
      /\ ready' = {} /\ initialized' = FALSE /\ setting' = setting
  BY DEF SetUpFails, Unlock, Goto
<1>2. Held(Before(step), dir) /\ ~initialized
  BY <1>1 DEF IInv, SettingUp
<1>3. \A u \in Threads : pc'[u] \notin Inside /\ (pc'[u] = "use" => pc[u] = "use")
  BY <1>1, OneInside DEF IInv, Types, Inside
<1>4. Held({}, None)'
  BY <1>1, <1>2 DEF Held
<1>5. Types' /\ Locked'
  BY <1>1, <1>3, PostalAssumption DEF IInv, Types, Locked
<1>6. SettingUp' /\ UseInitialized'
  BY <1>1, <1>2, <1>3 DEF IInv, SettingUp, Inside, UseInitialized
<1> QED
  BY <1>1, <1>4, <1>5, <1>6 DEF IInv, NotSetUp, SetUpWhole

LEMMA PublishStep ==
    ASSUME IInv, NEW t \in Threads, Publish(t)
    PROVE  IInv'
<1>1. /\ pc[t] = "publish" /\ pc' = [pc EXCEPT ![t] = "use"] /\ init_lock' = NoThread
      /\ initialized' = TRUE /\ UNCHANGED <<setting, ready, loaded>>
  BY DEF Publish, Goto
<1>2. Named(dir) /\ Held(Stage, dir)
  BY <1>1 DEF IInv, SettingUp
<1>3. \A u \in Threads : pc'[u] \notin Inside
  BY <1>1, OneInside DEF IInv, Types, Inside
<1>4. Types' /\ Locked'
  BY <1>1, <1>3, PostalAssumption DEF IInv, Types, Locked
<1>5. SetUpWhole'
  BY <1>1, <1>2 DEF SetUpWhole, Named, Held
<1>6. SettingUp' /\ UseInitialized' /\ NotSetUp'
  BY <1>1, <1>3 DEF SettingUp, Inside, UseInitialized, NotSetUp
<1> QED
  BY <1>4, <1>5, <1>6 DEF IInv

LEMMA SetDirectoryStep ==
    ASSUME IInv, NEW t \in Threads, SetDataDirectory(t)
    PROVE  IInv'
<1>1. /\ init_lock = NoThread /\ ~initialized /\ UNCHANGED <<init_lock, initialized, ready, loaded, pc>>
      /\ setting' \in {"default", "custom"}
  BY DEF SetDataDirectory
<1>2. \A u \in Threads : pc[u] \notin Inside
  BY <1>1, OneInside
<1> QED
  BY <1>1, <1>2
     DEF IInv, Types, Locked, SettingUp, Inside, NotSetUp, SetUpWhole, UseInitialized, Outside, Held

LEMMA CrashStep == IInv /\ Crash => IInv'
<1> SUFFICES ASSUME IInv, Crash PROVE IInv'
  OBVIOUS
<1>1. /\ setting' = "default" /\ init_lock' = NoThread /\ initialized' = FALSE
      /\ ready' = {} /\ loaded' = [s \in Stage |-> None] /\ pc' = [t \in Threads |-> "idle"]
  BY DEF Crash
<1>2. Types' /\ Locked'
  BY <1>1, PostalAssumption DEF Types, Locked, Inside
<1>3. Held({}, None)'
  BY <1>1 DEF Held
<1> QED
  BY <1>1, <1>2, <1>3 DEF IInv, SettingUp, NotSetUp, SetUpWhole, UseInitialized

LEMMA NextIInv == IInv /\ [Next]_vars => IInv'
<1> SUFFICES ASSUME IInv, [Next]_vars PROVE IInv'
  OBVIOUS
<1>1. ASSUME NEW t \in Threads, BeginLoad(t) \/ Download(t) \/ OpenFails(t) \/ Extract(t) \/ ExtractFails(t)
      PROVE  IInv'
  <2>1. UNCHANGED <<setting, initialized, ready, loaded, caller>>
    BY <1>1 DEF BeginLoad, Download, OpenFails, Extract, ExtractFails, manager, locals
  <2>2. \/ Unlock(t, "load") \/ Unlock(t, "download") \/ Unlock(t, "extract")
        \/ /\ UNCHANGED init_lock /\ pc[t] \in {"load", "download", "extract"}
           /\ pc' \in {[pc EXCEPT ![t] = p] : p \in {"download", "extract", "end_load"}}
    BY <1>1 DEF BeginLoad, Download, OpenFails, Extract, ExtractFails, manager, Goto
  <2> QED
    BY <2>1, <2>2, LoadSteps, LeaveSteps
<1>2. CASE UNCHANGED vars
  BY <1>2 DEF vars, manager, locals, IInv, Types, Locked, SettingUp, NotSetUp, SetUpWhole,
     UseInitialized, Outside, Named, Held, Before
<1> QED
  BY <1>1, <1>2, OutsideSteps, LockSteps, CheckStatusStep, EndLoadStep, SetUpStep, SetUpFailsStep,
     PublishStep, SetDirectoryStep, CrashStep DEF Next, ThreadStep

(* The strengthening holds in every reachable state.                       *)
THEOREM InductiveInvariant == Spec => []IInv
BY InitIInv, NextIInv, PTL DEF Spec

(* InUseIsWhole: no thread, of any number, parses with a stage missing or  *)
(* from another directory than the setting names.                          *)
THEOREM InUseIsWholeCorrect == Spec => []InUseIsWhole
<1>1. IInv => InUseIsWhole
  BY DEF IInv, UseInitialized, SetUpWhole, InUseIsWhole, Named, Held
<1> QED
  BY <1>1, InductiveInvariant, PTL

(* StartsClean: a setup that failed leaves nothing behind, whatever call   *)
(* of it failed.                                                           *)
THEOREM StartsCleanCorrect == Spec => []StartsClean
<1>1. IInv => StartsClean
  BY DEF IInv, NotSetUp, StartsClean, Outside, Held
<1> QED
  BY <1>1, InductiveInvariant, PTL
-----------------------------------------------------------------------------
(* The data is extracted in the order of Assets, so that the parser's      *)
(* marker file is the last to appear.                                      *)
DataTypes == data \in [Dirs -> [Stage -> {"absent", "torn", "whole"}]]

ParserLast ==
    \A d \in Dirs : data[d]["parser"] # "absent" => data[d]["classifier"] = "whole" /\ data[d]["core"] = "whole"

Loading ==
    \A t \in Threads : pc[t] \in {"download", "extract"} =>
        /\ dir \in Dirs /\ step \in 1..3 /\ data[dir]["parser"] = "absent"
        /\ step > 1 => data[dir]["classifier"] = "whole"
        /\ step > 2 => data[dir]["core"] = "whole"

DataInv == DataTypes /\ ParserLast /\ Loading

(* A directory that counts as complete is whole but for the parser.        *)
OnlyTheParserTears ==
    \A d \in Dirs : Complete(d) => data[d]["classifier"] = "whole" /\ data[d]["core"] = "whole"

(* The asset that each step of the loop extracts.                          *)
LEMMA AssetOrder == Assets[1] = "classifier" /\ Assets[2] = "core" /\ Assets[3] = "parser" /\ Len(Assets) = 3
BY DEF Assets

LEMMA InitDataInv == Init => DataInv
BY DEF Init, DataInv, DataTypes, ParserLast, Loading, Stage, Dirs

(* Steps that leave the data alone, and start no download.                 *)
LEMMA DataStays ==
    ASSUME DataInv, UNCHANGED data,
           \A u \in Threads : pc'[u] \in {"download", "extract"} =>
               pc[u] \in {"download", "extract"} /\ UNCHANGED <<dir, step>>
    PROVE  DataInv'
BY DEF DataInv, DataTypes, ParserLast, Loading

(* A tar that stops leaves the order in which markers appear.              *)
LEMMA TornKeepsOrder ==
    ASSUME DataInv, NEW t \in Threads, pc[t] = "extract", Torn(dir, Assets[step])
    PROVE  DataTypes' /\ ParserLast'
<1>1. /\ dir \in Dirs /\ step \in 1..3 /\ data[dir]["parser"] = "absent"
      /\ step > 2 => data[dir]["classifier"] = "whole" /\ data[dir]["core"] = "whole"
  BY DEF DataInv, Loading
<1>2. Assets[step] \in Stage /\ (step < 3 => Assets[step] # "parser")
      /\ (step = 3 => Assets[step] = "parser")
  BY <1>1, AssetOrder DEF Stage
<1>3. CASE data' = data
  BY <1>3 DEF DataInv, DataTypes, ParserLast
<1>4. CASE data' = [data EXCEPT ![dir][Assets[step]] = "torn"]
  BY <1>1, <1>2, <1>4 DEF DataInv, DataTypes, ParserLast, Stage
<1> QED
  BY <1>3, <1>4 DEF Torn

LEMMA ExtractKeepsData ==
    ASSUME IInv, DataInv, NEW t \in Threads, Extract(t)
    PROVE  DataInv'
<1>1. /\ pc[t] = "extract" /\ data' = [data EXCEPT ![dir][Assets[step]] = "whole"] /\ dir' = dir
      /\ \/ step < 3 /\ step' = step + 1 /\ pc' = [pc EXCEPT ![t] = "download"]
         \/ ~(step < 3) /\ step' = step /\ pc' = [pc EXCEPT ![t] = "end_load"]
  BY AssetOrder DEF Extract, Goto
<1>2. /\ dir \in Dirs /\ step \in 1..3 /\ data[dir]["parser"] = "absent"
      /\ step > 1 => data[dir]["classifier"] = "whole"
      /\ step > 2 => data[dir]["core"] = "whole"
  BY <1>1 DEF DataInv, Loading
<1>3. DataTypes'
  BY <1>1, <1>2, AssetOrder DEF DataInv, DataTypes, Stage
<1>4. ParserLast'
  BY <1>1, <1>2, AssetOrder DEF DataInv, DataTypes, ParserLast, Stage
<1>5. \A u \in Threads : u # t => pc'[u] = pc[u] /\ pc[u] \notin Inside
  BY <1>1, OneInside DEF Inside, IInv, Types
<1>6. Loading'
  <2>1. CASE step < 3
    <3>1. /\ step' \in 1..3 /\ data'[dir]["parser"] = "absent" /\ data'[dir]["classifier"] = "whole"
          /\ step' > 2 => data'[dir]["core"] = "whole"
      BY <1>1, <1>2, <2>1, AssetOrder DEF DataInv, DataTypes, Stage
    <3> QED
      BY <1>1, <1>2, <1>5, <3>1 DEF Loading, Inside
  <2>2. CASE ~(step < 3)
    <3>1. pc'[t] = "end_load"
      BY <1>1, <2>2 DEF IInv, Types
    <3> QED
      BY <1>5, <3>1 DEF Loading, Inside
  <2> QED
    BY <2>1, <2>2
<1> QED
  BY <1>3, <1>4, <1>6 DEF DataInv

LEMMA BeginLoadKeepsData ==
    ASSUME IInv, DataInv, NEW t \in Threads, BeginLoad(t)
    PROVE  DataInv'
<1>1. pc[t] = "load" /\ UNCHANGED data
  BY DEF BeginLoad, Goto, Unlock
<1>2. \A u \in Threads : u # t => pc[u] \notin Inside
  BY <1>1, OneInside DEF Inside
<1>3. CASE pc' = [pc EXCEPT ![t] = "end_load"] \/ pc' = [pc EXCEPT ![t] = "idle"]
  <2>1. \A u \in Threads : pc'[u] \notin {"download", "extract"}
    BY <1>2, <1>3 DEF Inside, IInv, Types
  <2> QED
    BY <1>1, <2>1, DataStays
<1>4. CASE /\ ~DataPresent /\ pc' = [pc EXCEPT ![t] = "download"]
           /\ dir' = ResolveDataDirectory /\ step' = 1
  <2>1. dir' \in Dirs /\ ~Complete(dir')
    BY <1>4, ResolvedIsNamed DEF DataPresent, Named, IInv, Types
  <2>2. data'[dir']["parser"] = "absent"
    BY <1>1, <2>1 DEF Complete, DataInv, DataTypes, ParserLast, Stage
  <2>3. Loading'
    BY <1>4, <2>1, <2>2 DEF Loading
  <2> QED
    BY <1>1, <2>3 DEF DataInv, DataTypes, ParserLast
<1> QED
  BY <1>3, <1>4 DEF BeginLoad, Goto, Unlock

LEMMA NextDataInv == IInv /\ DataInv /\ [Next]_vars => DataInv'
<1> SUFFICES ASSUME IInv, DataInv, [Next]_vars PROVE DataInv'
  OBVIOUS
<1>1. ASSUME NEW t \in Threads, \/ StartParse(t) \/ StartLoadData(t) \/ Use(t) \/ Download(t)
                               \/ OpenFails(t) \/ SetDataDirectory(t) \/ SetAutoDownload(t)
                               \/ DoubleCheck(t) \/ LockLoadData(t) \/ SetUpFails(t) \/ Publish(t)
      PROVE  DataInv'
  <2>1. /\ UNCHANGED <<data, dir, step>>
        /\ \/ pc' = pc
           \/ \E p : p \notin {"download", "extract"} /\ pc' = [pc EXCEPT ![t] = p]
           \/ pc[t] = "download"
    BY <1>1 DEF StartParse, StartLoadData, Use, Download, OpenFails, SetDataDirectory, SetAutoDownload,
                DoubleCheck, LockLoadData, SetUpFails, Publish, Goto, Unlock, locals
  <2>2. \E p : pc' = pc \/ pc' = [pc EXCEPT ![t] = p]
    BY <1>1 DEF StartParse, StartLoadData, Use, Download, OpenFails, SetDataDirectory, SetAutoDownload,
                DoubleCheck, LockLoadData, SetUpFails, Publish, Goto, Unlock, locals
  <2>3. \A u \in Threads : pc'[u] \in {"download", "extract"} => pc[u] \in {"download", "extract"}
    BY <2>1, <2>2 DEF IInv, Types
  <2> QED
    BY <2>1, <2>3, DataStays
<1>2. ASSUME NEW t \in Threads, CheckStatus(t) \/ EndLoad(t) \/ SetUp(t) PROVE DataInv'
  <2>1. /\ UNCHANGED data /\ pc[t] \in {"initialize", "end_load", "setup"}
        /\ \E p : p \notin {"download", "extract"} /\ pc' = [pc EXCEPT ![t] = p]
    BY <1>2 DEF CheckStatus, EndLoad, SetUp, Loads, Goto, Unlock
  <2>2. \A u \in Threads : u # t => pc[u] \notin Inside
    BY <2>1, OneInside DEF Inside
  <2>3. \A u \in Threads : pc'[u] \notin {"download", "extract"}
    BY <2>1, <2>2 DEF Inside, IInv, Types
  <2> QED
    BY <2>1, <2>3, DataStays
<1>3. ASSUME NEW t \in Threads, ExtractFails(t) PROVE DataInv'
  <2>1. pc[t] = "extract" /\ Torn(dir, Assets[step]) /\ pc' = [pc EXCEPT ![t] = "idle"]
    BY <1>3 DEF ExtractFails, Unlock, Goto
  <2>2. \A u \in Threads : pc'[u] \notin {"download", "extract"}
    BY <2>1, OneInside DEF Inside, IInv, Types
  <2> QED
    BY <2>1, <2>2, TornKeepsOrder DEF DataInv, Loading
<1>4. CASE Crash
  <2>1. DataTypes' /\ ParserLast'
    BY <1>4, TornKeepsOrder DEF Crash, DataInv, DataTypes, ParserLast
  <2>2. Loading'
    BY <1>4 DEF Crash, Loading
  <2> QED
    BY <2>1, <2>2 DEF DataInv
<1>5. CASE UNCHANGED vars
  BY <1>5, DataStays DEF vars, locals
<1> QED
  BY <1>1, <1>2, <1>3, <1>4, <1>5, ExtractKeepsData, BeginLoadKeepsData DEF Next, ThreadStep

(* No step spoils a directory with the whole data, whatever loads, fails   *)
(* or crashes: the parser is missing wherever something is extracted.      *)
THEOREM WholeStaysWholeCorrect == Spec => WholeStaysWhole
<1>1. ASSUME IInv, DataInv, [Next]_vars
      PROVE  [\A d \in Dirs : (\A s \in Stage : data[d][s] = "whole") => data'[d] = data[d]]_vars
  <2>1. CASE \/ \E t \in Threads : Extract(t) \/ ExtractFails(t)
             \/ Crash /\ \E t \in Threads : pc[t] = "extract"
    <3>1. PICK t \in Threads : pc[t] = "extract"
      BY <2>1 DEF Extract, ExtractFails, Unlock, Goto
    <3>2. dir \in Dirs /\ data[dir]["parser"] = "absent"
      BY <1>1, <3>1 DEF DataInv, Loading
    <3>3. \A d \in Dirs \ {dir} : data'[d] = data[d]
      BY <1>1, <2>1, <3>2 DEF Extract, ExtractFails, Crash, Torn, DataInv, DataTypes
    <3> QED
      BY <3>2, <3>3 DEF Stage
  <2>2. CASE UNCHANGED data
    BY <2>2
  <2>3. \/ \E t \in Threads : Extract(t) \/ ExtractFails(t)
        \/ Crash /\ \E t \in Threads : pc[t] = "extract"
        \/ UNCHANGED data
    BY <1>1 DEF Next, ThreadStep, StartParse, StartLoadData, Use, Download, OpenFails, SetDataDirectory,
                SetAutoDownload, DoubleCheck, LockLoadData, SetUpFails, Publish, CheckStatus, EndLoad,
                SetUp, Loads, BeginLoad, Crash, vars
  <2> QED
    BY <2>1, <2>2, <2>3
<1> QED
  BY <1>1, InitIInv, NextIInv, InitDataInv, NextDataInv, PTL DEF Spec, WholeStaysWhole

(* What a crashed or failed tar can leave behind in a directory that       *)
(* counts as complete is a torn parser, and nothing else.                  *)
THEOREM OnlyTheParserTearsCorrect == Spec => []OnlyTheParserTears
<1>1. DataInv => OnlyTheParserTears
  BY DEF DataInv, ParserLast, OnlyTheParserTears, Complete
<1> QED
  BY <1>1, InitIInv, NextIInv, InitDataInv, NextDataInv, PTL DEF Spec

=============================================================================
