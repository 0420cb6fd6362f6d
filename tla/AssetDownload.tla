--------------------------- MODULE AssetDownload ----------------------------
(***************************************************************************)
(* How processes put the two files of one NER model on disk (src/src/      *)
(* anofox_ner.cpp: MigrateLegacyAssets, DownloadModel and                  *)
(* DownloadToFileAtomic).  Loads are serialised inside a process by        *)
(* NERModel's init lock, but every process of the user shares the asset    *)
(* directory and the `<dest>.tmp' path, and a process may crash.           *)
(*                                                                         *)
(* Paths name inodes.  A download is a number of chunks; an inode holds    *)
(* the chunks written since it was last truncated, and is a valid asset    *)
(* when it holds all of them.                                              *)
(***************************************************************************)
EXTENDS Naturals, FiniteSets

CONSTANTS
    Processes,      \* processes that load the model
    Inodes,         \* files the file system can hold
    Nil,            \* no file
    Chunks,         \* chunks of a download
    MaxTries,       \* max_retries
    IoMayFail,      \* whether opening, renaming and the network may fail
    FlushMayFail,   \* whether the last chunk may fail to be written by fclose
    MaxDeaths       \* bound on the deaths of a behaviour

ASSUME AssetAssumption ==
    /\ Nil \notin Inodes
    /\ IsFiniteSet(Processes) /\ IsFiniteSet(Inodes)
    /\ Cardinality(Inodes) > 6 + Cardinality(Processes)
    /\ Chunks \in Nat \ {0} /\ MaxTries \in Nat \ {0}
    /\ IoMayFail \in BOOLEAN /\ FlushMayFail \in BOOLEAN
    /\ MaxDeaths \in Nat

Files == {"tokenizer", "model"}

VARIABLES
    content,    \* the chunks each inode holds
    tmp,        \* <dest>.tmp of each file
    dest,       \* the file in the directory of the model
    legacy,     \* the file in the base directory, of older versions
    installed,  \* history: whether the legacy pair was there at the start
    at,         \* where each process is
    file,       \* the file it downloads
    tries,      \* the attempt it is at
    handle,     \* the inode of the file it has open
    written,    \* chunks it has received
    deaths

fs == <<content, tmp, dest, legacy, installed>>
assetLocals == <<file, tries, handle, written>>
assetVars == <<fs, at, assetLocals, deaths>>

Whole == 1..Chunks
NoFiles == [f \in Files |-> Nil]

(* Some inode that is not in use; which one it is does not matter.         *)
Fresh(used) == CHOOSE i \in Inodes : i \notin used

AssetsInit ==
    /\ \E m, k \in Inodes :
          /\ m = Fresh({}) /\ k = Fresh({m})
          /\ content = [i \in Inodes |-> IF i \in {m, k} THEN Whole ELSE {}]
          /\ legacy \in {NoFiles, [f \in Files |-> IF f = "model" THEN m ELSE k]}
    /\ installed = (legacy # NoFiles)
    /\ tmp = NoFiles /\ dest = NoFiles
    /\ at = [p \in Processes |-> "idle"]
    /\ file = [p \in Processes |-> "tokenizer"]
    /\ tries = [p \in Processes |-> 1]
    /\ handle = [p \in Processes |-> Nil]
    /\ written = [p \in Processes |-> 0]
    /\ deaths = 0

GoOn(p, from, to) == at[p] = from /\ at' = [at EXCEPT ![p] = to]

InUse == (UNION {{tmp[f], dest[f], legacy[f]} : f \in Files}) \cup {handle[p] : p \in Processes}

-----------------------------------------------------------------------------
(* MigrateLegacyAssets: the legacy pair moves if it is complete and the    *)
(* directory of the model has neither file; the model first.               *)
Migrate(p) ==
    /\ GoOn(p, "idle", IF Nil \notin {legacy["model"], legacy["tokenizer"]} /\ dest = NoFiles
                       THEN "move_model" ELSE "exists")
    /\ UNCHANGED <<fs, assetLocals, deaths>>

(* rename(legacy, new); an exception ends the migration.                   *)
Move(p, from, f, to) ==
    /\ \/ /\ legacy[f] # Nil
          /\ GoOn(p, from, to)
          /\ dest' = [dest EXCEPT ![f] = legacy[f]]
          /\ legacy' = [legacy EXCEPT ![f] = Nil]
       \/ /\ IoMayFail \/ legacy[f] = Nil
          /\ GoOn(p, from, "exists")
          /\ UNCHANGED <<dest, legacy>>
    /\ UNCHANGED <<content, tmp, installed, assetLocals, deaths>>

MigrateFiles(p) ==
    \/ Move(p, "move_model", "model", "move_tokenizer")
    \/ Move(p, "move_tokenizer", "tokenizer", "exists")

(* LoadModel: a complete pair is loaded, else both files are downloaded.   *)
AssetsExist(p) ==
    /\ GoOn(p, "exists", IF Nil \notin {dest[f] : f \in Files} THEN "ready" ELSE "open")
    /\ file' = [file EXCEPT ![p] = "tokenizer"]
    /\ tries' = [tries EXCEPT ![p] = 1]
    /\ UNCHANGED <<fs, handle, written, deaths>>

-----------------------------------------------------------------------------
(* DownloadToFileAtomic: fopen(tmp, "wb") creates the file or truncates    *)
(* the one that is there.                                                  *)
OpenTmp(p) ==
    /\ GoOn(p, "open", "fetch")
    /\ \E i \in Inodes :
          /\ i = IF tmp[file[p]] = Nil THEN Fresh(InUse) ELSE tmp[file[p]]
          /\ content' = [content EXCEPT ![i] = {}]
          /\ tmp' = [tmp EXCEPT ![file[p]] = i]
          /\ handle' = [handle EXCEPT ![p] = i]
    /\ written' = [written EXCEPT ![p] = 0]
    /\ UNCHANGED <<dest, legacy, installed, file, tries, deaths>>

(* curl writes the chunks at the position of this handle; stdio keeps the  *)
(* last one until the file is closed.                                      *)
Fetch(p) ==
    /\ at[p] = "fetch" /\ UNCHANGED at
    /\ written[p] < Chunks - 1
    /\ written' = [written EXCEPT ![p] = @ + 1]
    /\ content' = [content EXCEPT ![handle[p]] = @ \cup {written[p] + 1}]
    /\ UNCHANGED <<tmp, dest, legacy, installed, file, tries, handle, deaths>>

(* fclose, whose result is not looked at.                                  *)
Close(p) ==
    /\ GoOn(p, "fetch", "rename")
    /\ written[p] = Chunks - 1
    /\ \/ content' = [content EXCEPT ![handle[p]] = @ \cup {Chunks}]
       \/ FlushMayFail /\ UNCHANGED content
    /\ handle' = [handle EXCEPT ![p] = Nil]
    /\ UNCHANGED <<tmp, dest, legacy, installed, file, tries, written, deaths>>

(* Mutant: the failed transfer is not told from a finished one.            *)
IgnoreFetchError(p) ==
    /\ IoMayFail /\ GoOn(p, "fetch", "rename")
    /\ handle' = [handle EXCEPT ![p] = Nil]
    /\ UNCHANGED <<fs, file, tries, written, deaths>>

(* The transfer fails: the tmp path is removed, then the file closed.  An  *)
(* error of the removal is ignored, and nothing is removed when there is   *)
(* no curl handle.                                                         *)
FetchFails(p) ==
    /\ IoMayFail /\ GoOn(p, "fetch", "failed_attempt")
    /\ UNCHANGED tmp \/ tmp' = [tmp EXCEPT ![file[p]] = Nil]
    /\ handle' = [handle EXCEPT ![p] = Nil]
    /\ UNCHANGED <<content, dest, legacy, installed, file, tries, written, deaths>>

(* fopen fails.                                                            *)
OpenTmpFails(p) ==
    /\ IoMayFail /\ GoOn(p, "open", "failed_attempt")
    /\ UNCHANGED <<fs, assetLocals, deaths>>

(* An exception of rename is a failed attempt.                             *)
Rename(p) ==
    /\ \/ /\ tmp[file[p]] # Nil
          /\ GoOn(p, "rename", IF file[p] = "tokenizer" THEN "open" ELSE "both_exist")
          /\ dest' = [dest EXCEPT ![file[p]] = tmp[file[p]]]
          /\ tmp' = [tmp EXCEPT ![file[p]] = Nil]
          /\ file' = [file EXCEPT ![p] = "model"]
          /\ tries' = [tries EXCEPT ![p] = 1]
       \/ /\ IoMayFail \/ tmp[file[p]] = Nil
          /\ GoOn(p, "rename", "failed_attempt")
          /\ UNCHANGED tmp \/ tmp' = [tmp EXCEPT ![file[p]] = Nil]
          /\ UNCHANGED <<dest, file, tries>>
    /\ UNCHANGED <<content, legacy, installed, handle, written, deaths>>

(* DownloadModel: up to three attempts for each file, tokenizer first.     *)
RetryOrGiveUp(p) ==
    /\ IF tries[p] < MaxTries
       THEN GoOn(p, "failed_attempt", "open") /\ tries' = [tries EXCEPT ![p] = @ + 1]
       ELSE GoOn(p, "failed_attempt", "failed") /\ UNCHANGED tries
    /\ UNCHANGED <<fs, file, handle, written, deaths>>

BothExist(p) ==
    /\ GoOn(p, "both_exist", IF Nil \notin {dest[f] : f \in Files} THEN "ready" ELSE "failed")
    /\ UNCHANGED <<fs, assetLocals, deaths>>

-----------------------------------------------------------------------------
(* The load is over; a later one starts from the beginning.                *)
StartAgain(p) ==
    /\ GoOn(p, "ready", "idle") \/ GoOn(p, "failed", "idle")
    /\ UNCHANGED <<fs, assetLocals, deaths>>

(* A process dies; the kernel closes its file.                             *)
ProcessDies(p) ==
    /\ deaths < MaxDeaths /\ at[p] # "idle"
    /\ at' = [at EXCEPT ![p] = "idle"]
    /\ handle' = [handle EXCEPT ![p] = Nil]
    /\ deaths' = deaths + 1
    /\ UNCHANGED <<fs, file, tries, written>>

Load(p) ==
    \/ MigrateFiles(p) \/ AssetsExist(p)
    \/ OpenTmp(p) \/ OpenTmpFails(p) \/ Fetch(p) \/ FetchFails(p) \/ Close(p)
    \/ Rename(p) \/ RetryOrGiveUp(p) \/ BothExist(p)

AssetsNext == \E p \in Processes : Migrate(p) \/ Load(p) \/ StartAgain(p) \/ ProcessDies(p)

AssetsSpec == AssetsInit /\ [][AssetsNext]_assetVars

(* A process runs on; curl gives up after CURLOPT_TIMEOUT at the latest.   *)
AssetsFairSpec == AssetsSpec /\ \A p \in Processes : WF_assetVars(Load(p))

-----------------------------------------------------------------------------
AssetsTypeOK ==
    /\ content \in [Inodes -> SUBSET Whole]
    /\ {tmp, dest, legacy} \subseteq [Files -> Inodes \cup {Nil}]
    /\ installed \in BOOLEAN
    /\ at \in [Processes -> {"idle", "move_model", "move_tokenizer", "exists", "open", "fetch",
                             "rename", "failed_attempt", "both_exist", "ready", "failed"}]
    /\ file \in [Processes -> Files]
    /\ tries \in [Processes -> 1..MaxTries]
    /\ handle \in [Processes -> Inodes \cup {Nil}]
    /\ \A p \in Processes : at[p] = "fetch" => handle[p] \in Inodes
    /\ written \in [Processes -> 0..Chunks]
    /\ deaths \in 0..MaxDeaths

(* Two processes are between the opening and the renaming of one file.     *)
Sharing ==
    \E p, q \in Processes : p # q /\ file[p] = file[q] /\ {at[p], at[q]} \subseteq {"fetch", "rename"}

(* The inode holds all that a transfer brings but what stdio keeps until   *)
(* the file is closed.                                                     *)
Finished(i) == Whole \ {Chunks} \subseteq content[i]

(* A file in the directory of the model is a finished transfer, or one of  *)
(* an older version: whatever fails or dies, nothing shorter is renamed,   *)
(* and no later attempt writes to it.                                      *)
DestIsFinished == \A f \in Files : dest[f] # Nil => Finished(dest[f])

(* "A partially written file can never be mistaken for a valid asset"      *)
(* (anofox_ner.cpp:905).                                                   *)
DestIsWhole == \A f \in Files : dest[f] # Nil => content[dest[f]] = Whole

(* "Both assets must exist as a matched pair before declaring success":    *)
(* a load that goes on to read the files finds the tokenizer and the model *)
(* of this metadata, whichever attempts failed before.                     *)
PairMatched ==
    \A p \in Processes : at[p] = "ready" => \A f \in Files : dest[f] # Nil

(* A download ends, however many of its attempts fail.                     *)
DownloadEnds == \A p \in Processes : at[p] = "open" ~> at[p] \in {"ready", "failed", "idle"}

(* Legacy assets are moved "so existing installations do not re-download"  *)
(* (anofox_ner.cpp:525).                                                   *)
InstalledNotDownloaded == installed => \A p \in Processes : at[p] # "open"
=============================================================================
