---------------------------- MODULE PostalManager ----------------------------
(***************************************************************************)
(* PostalManager (src/src/anofox_postal.cpp): libpostal is set up on the   *)
(* first call that needs it, from data that is downloaded and extracted    *)
(* first where there is none.  Threads parse addresses, load the data and  *)
(* SET the directory and the automatic download; the process crashes and   *)
(* starts again over the directories it left.                              *)
(***************************************************************************)
EXTENDS Naturals, Sequences, FiniteSets

CONSTANTS
    Threads,        \* threads that run statements
    NoThread,       \* the owner of a free lock
    HomeKnown,      \* whether "~" can be expanded
    MaxRetries,     \* max_retries of a download (5 in the code)
    MaxCrashes,     \* bound on crashes
    MaxSets         \* bound on SET statements

ASSUME PostalAssumption ==
    /\ NoThread \notin Threads
    /\ HomeKnown \in BOOLEAN
    /\ MaxRetries \in Nat \ {0} /\ MaxCrashes \in Nat /\ MaxSets \in Nat

(* POSTAL_ASSETS, each named for the stage of the setup that reads it.     *)
Assets == <<"classifier", "core", "parser">>
Stages == <<"core", "parser", "classifier">>
Stage == {"core", "parser", "classifier"}
Dirs == {"home", "legacy", "custom"}
None == "none"

VARIABLES
    data,           \* the files of an asset in a directory: absent, torn (its marker file
                    \* is there, another is missing or cut off) or whole
    setting,        \* data_directory: the default, or a path of the user
    auto_download,  \* the atomic
    init_lock,      \* owner of the mutex
    initialized,    \* the atomic
    ready,          \* core_ready, parser_ready, classifier_ready
    loaded,         \* what libpostal holds: the directory of each stage
    pc,             \* where each thread is
    caller,         \* who runs LoadDataInternal: "parse" or "load_data"
    dir,            \* data_dir of the thread that holds the lock
    step,           \* index of the asset or the setup call
    attempt,        \* download attempts of the asset
    crashes, sets

manager == <<setting, auto_download, init_lock, initialized, ready, loaded>>
locals == <<caller, dir, step, attempt>>
vars == <<data, manager, pc, locals, crashes, sets>>

Init ==
    /\ data \in [Dirs -> {[s \in Stage |-> "absent"], [s \in Stage |-> "whole"]}]
    /\ setting = "default" /\ auto_download \in BOOLEAN
    /\ init_lock = NoThread /\ initialized = FALSE
    /\ ready = {} /\ loaded = [s \in Stage |-> None]
    /\ pc = [t \in Threads |-> "idle"]
    /\ caller = None /\ dir = None /\ step = 0 /\ attempt = 0
    /\ crashes = 0 /\ sets = 0

-----------------------------------------------------------------------------
(* The classifier's and the parser's marker file can be opened.            *)
Complete(d) == data[d]["classifier"] # "absent" /\ data[d]["parser"] # "absent"

ResolveDataDirectory ==
    CASE setting = "custom" -> "custom"
      [] setting = "default" /\ ~HomeKnown -> "legacy"
      [] setting = "default" /\ HomeKnown /\ ~Complete("home") /\ Complete("legacy") -> "legacy"
      [] OTHER -> "home"

DataPresent == Complete(ResolveDataDirectory)

Goto(t, from, to) == pc[t] = from /\ pc' = [pc EXCEPT ![t] = to]

(* The lock guard of a thread that leaves, by return or by exception.      *)
Unlock(t, from) ==
    /\ Goto(t, from, "idle")
    /\ init_lock' = NoThread

(* The first row of postal_parse_address that is not NULL.                 *)
StartParse(t) ==
    /\ Goto(t, "idle", IF initialized THEN "use" ELSE "ensure")
    /\ UNCHANGED <<data, manager, locals, crashes, sets>>

StartLoadData(t) ==
    /\ Goto(t, "idle", "load_data")
    /\ UNCHANGED <<data, manager, locals, crashes, sets>>

(* Mutant: no second check.                                                *)
CheckOnce(t) ==
    /\ init_lock = NoThread
    /\ Goto(t, "ensure", "initialize") /\ init_lock' = t
    /\ UNCHANGED <<data, setting, auto_download, initialized, ready, loaded, locals, crashes, sets>>

(* EnsureInitialized: the lock and the second check.                       *)
DoubleCheck(t) ==
    /\ init_lock = NoThread
    /\ IF initialized THEN Goto(t, "ensure", "use") /\ UNCHANGED init_lock
                      ELSE Goto(t, "ensure", "initialize") /\ init_lock' = t
    /\ UNCHANGED <<data, setting, auto_download, initialized, ready, loaded, locals, crashes, sets>>

(* Initialize: the status, and what the option says of a download.         *)
CheckStatus(t) ==
    /\ \/ /\ DataPresent
          /\ Goto(t, "initialize", "setup") /\ step' = 1 /\ dir' = ResolveDataDirectory
          /\ UNCHANGED <<init_lock, caller>>
       \/ /\ ~DataPresent /\ ~auto_download
          /\ Unlock(t, "initialize")
          /\ UNCHANGED <<caller, dir, step>>
       \/ /\ ~DataPresent /\ auto_download
          /\ Goto(t, "initialize", "load") /\ caller' = "parse"
          /\ UNCHANGED <<init_lock, dir, step>>
    /\ UNCHANGED <<data, setting, auto_download, initialized, ready, loaded, attempt, crashes, sets>>

(* LoadData.                                                               *)
LockLoadData(t) ==
    /\ init_lock = NoThread /\ init_lock' = t
    /\ Goto(t, "load_data", "load") /\ caller' = "load_data"
    /\ UNCHANGED <<data, setting, auto_download, initialized, ready, loaded, dir, step, attempt, crashes, sets>>

(* Mutant: the data is loaded also where it is complete.                   *)
LoadAnyway(t) ==
    /\ Goto(t, "load", "download")
    /\ dir' = ResolveDataDirectory /\ step' = 1 /\ attempt' = 1
    /\ UNCHANGED <<data, manager, caller, crashes, sets>>

(* LoadDataInternal up to the loop; creating the directory may fail.       *)
BeginLoad(t) ==
    /\ \/ /\ DataPresent
          /\ Goto(t, "load", "end_load")
          /\ UNCHANGED <<init_lock, dir, step, attempt>>
       \/ /\ ~DataPresent
          /\ Goto(t, "load", "download")
          /\ dir' = ResolveDataDirectory /\ step' = 1 /\ attempt' = 1
          /\ UNCHANGED init_lock
       \/ ~DataPresent /\ Unlock(t, "load") /\ UNCHANGED <<dir, step, attempt>>
    /\ UNCHANGED <<data, setting, auto_download, initialized, ready, loaded, caller, crashes, sets>>

(* One attempt, into an archive that the next attempt overwrites.          *)
Download(t) ==
    /\ \/ Goto(t, "download", "extract") /\ UNCHANGED <<init_lock, attempt>>
       \/ /\ attempt < MaxRetries /\ attempt' = attempt + 1
          /\ Goto(t, "download", "download") /\ UNCHANGED init_lock
       \/ attempt >= MaxRetries /\ Unlock(t, "download") /\ UNCHANGED attempt
    /\ UNCHANGED <<data, setting, auto_download, initialized, ready, loaded, caller, dir, step, crashes, sets>>

(* The archive cannot be opened for writing.                               *)
OpenFails(t) ==
    /\ Unlock(t, "download")
    /\ UNCHANGED <<data, setting, auto_download, initialized, ready, loaded, locals, crashes, sets>>

(* tar has extracted the asset, and the archive is removed.                *)
Extract(t) ==
    /\ pc[t] = "extract"
    /\ data' = [data EXCEPT ![dir][Assets[step]] = "whole"]
    /\ IF step < Len(Assets) THEN Goto(t, "extract", "download") /\ step' = step + 1
                             ELSE Goto(t, "extract", "end_load") /\ UNCHANGED step
    /\ attempt' = 1
    /\ UNCHANGED <<manager, caller, dir, crashes, sets>>

(* A tar that stops leaves some of the files.                              *)
Torn(d, s) == data' \in {data, [data EXCEPT ![d][s] = "torn"]}

(* tar exits with an error: the disk is full, or the archive is cut off.   *)
ExtractFails(t) ==
    /\ Unlock(t, "extract")
    /\ Torn(dir, Assets[step])
    /\ UNCHANGED <<setting, auto_download, initialized, ready, loaded, locals, crashes, sets>>

(* LoadDataInternal returns, to LoadData or to Initialize.                 *)
EndLoad(t) ==
    /\ \/ /\ caller = "parse" /\ DataPresent
          /\ Goto(t, "end_load", "setup") /\ step' = 1 /\ dir' = ResolveDataDirectory
          /\ UNCHANGED init_lock
       \/ /\ caller = "load_data" \/ ~DataPresent
          /\ Unlock(t, "end_load")
          /\ UNCHANGED <<dir, step>>
    /\ UNCHANGED <<data, setting, auto_download, initialized, ready, loaded, caller, attempt, crashes, sets>>

-----------------------------------------------------------------------------
(* Two calls set a stage up: the first loads it from the directory, the    *)
(* second finds it loaded.  Either may fail.                               *)
Current == Stages[(step + 1) \div 2]
IsFirst == step % 2 = 1
LastStep == 2 * Len(Stages)

(* The steps of a call that succeeds, but for the flag of the stage.       *)
Loads(t) ==
    /\ pc[t] = "setup"
    /\ IsFirst => data[dir][Current] = "whole"
    /\ loaded' = [loaded EXCEPT ![Current] = dir]
    /\ IF step < LastStep THEN Goto(t, "setup", "setup") /\ step' = step + 1
                          ELSE Goto(t, "setup", "publish") /\ UNCHANGED step
    /\ UNCHANGED <<data, setting, auto_download, init_lock, initialized, caller, dir, attempt, crashes, sets>>

(* Mutant: a stage is flagged when both calls have succeeded.              *)
FlagLate(t) == Loads(t) /\ ready' = IF IsFirst THEN ready ELSE ready \cup {Current}

SetUp(t) == Loads(t) /\ ready' = ready \cup {Current}

(* A call fails: TeardownInitializedStages, and the exception.             *)
SetUpFails(t) ==
    /\ Unlock(t, "setup")
    /\ loaded' = [s \in Stage |-> IF s \in ready THEN None ELSE loaded[s]]
    /\ ready' = {} /\ initialized' = FALSE
    /\ UNCHANGED <<data, setting, auto_download, locals, crashes, sets>>

Publish(t) ==
    /\ Goto(t, "publish", "use")
    /\ initialized' = TRUE
    /\ init_lock' = NoThread
    /\ UNCHANGED <<data, setting, auto_download, ready, loaded, locals, crashes, sets>>

(* ParseAddress, ExpandAddress.                                            *)
Use(t) ==
    /\ Goto(t, "use", "idle")
    /\ UNCHANGED <<data, manager, locals, crashes, sets>>

-----------------------------------------------------------------------------
(* SET anofox_tab_postal_data_path waits for the lock.                     *)
SetDataDirectory(t) ==
    /\ pc[t] = "idle" /\ init_lock = NoThread /\ ~initialized
    /\ sets < MaxSets /\ sets' = sets + 1
    /\ setting' \in {"default", "custom"} \ {setting}
    /\ UNCHANGED <<data, auto_download, init_lock, initialized, ready, loaded, pc, locals, crashes>>

SetAutoDownload(t) ==
    /\ pc[t] = "idle"
    /\ sets < MaxSets /\ sets' = sets + 1
    /\ auto_download' = ~auto_download
    /\ UNCHANGED <<data, setting, init_lock, initialized, ready, loaded, pc, locals, crashes>>

(* The process ends, with the tar it waits for, and starts again.          *)
Crash ==
    /\ crashes < MaxCrashes /\ crashes' = crashes + 1
    /\ IF \E t \in Threads : pc[t] = "extract" THEN Torn(dir, Assets[step]) ELSE UNCHANGED data
    /\ setting' = "default" /\ auto_download' = TRUE
    /\ init_lock' = NoThread /\ initialized' = FALSE
    /\ ready' = {} /\ loaded' = [s \in Stage |-> None]
    /\ pc' = [t \in Threads |-> "idle"]
    /\ caller' = None /\ dir' = None /\ step' = 0 /\ attempt' = 0
    /\ UNCHANGED sets

ThreadStep(t) ==
    \/ DoubleCheck(t) \/ CheckStatus(t) \/ LockLoadData(t) \/ BeginLoad(t)
    \/ Download(t) \/ OpenFails(t) \/ Extract(t) \/ ExtractFails(t) \/ EndLoad(t)
    \/ SetUp(t) \/ SetUpFails(t) \/ Publish(t) \/ Use(t)

Next ==
    \/ \E t \in Threads :
          StartParse(t) \/ StartLoadData(t) \/ ThreadStep(t) \/ SetDataDirectory(t) \/ SetAutoDownload(t)
    \/ Crash

Spec == Init /\ [][Next]_vars

(* Every transfer, every tar and every setup call ends.                    *)
FairSpec == Spec /\ \A t \in Threads : WF_vars(ThreadStep(t))

-----------------------------------------------------------------------------
TypeOK ==
    /\ data \in [Dirs -> [Stage -> {"absent", "torn", "whole"}]]
    /\ setting \in {"default", "custom"} /\ auto_download \in BOOLEAN
    /\ init_lock \in Threads \cup {NoThread} /\ initialized \in BOOLEAN
    /\ ready \subseteq Stage /\ loaded \in [Stage -> Dirs \cup {None}]
    /\ pc \in [Threads -> {"idle", "ensure", "initialize", "load_data", "load", "download", "extract",
                           "end_load", "setup", "publish", "use"}]
    /\ caller \in {"parse", "load_data", None} /\ dir \in Dirs \cup {None}
    /\ step \in 0..LastStep /\ attempt \in 0..MaxRetries
    /\ crashes \in 0..MaxCrashes /\ sets \in 0..MaxSets

(* A thread that parses finds all three stages set up, from one directory, *)
(* the one the setting names: no thread tears them down under it, and      *)
(* "Cannot change postal data directory after initialization"              *)
(* (anofox_postal.cpp:191).                                                *)
InUseIsWhole ==
    (\E t \in Threads : pc[t] = "use") =>
        \E d \in Dirs : /\ loaded = [s \in Stage |-> d] /\ ready = Stage
                        /\ d = "custom" <=> setting = "custom"

(* "Roll back exactly the stages that completed so a later retry starts    *)
(* clean" (anofox_postal.cpp:466): no setup begins, and nothing waits for  *)
(* one, while libpostal still holds a stage of one that failed.            *)
StartsClean ==
    ~initialized /\ (\A t \in Threads : pc[t] \notin {"setup", "publish"}) => \A s \in Stage : loaded[s] = None

(* Whatever loads the data, fails or crashes, a directory with the whole   *)
(* data keeps it: no thread downloads into it a second time.               *)
WholeStaysWhole ==
    [][\A d \in Dirs : (\A s \in Stage : data[d][s] = "whole") => data'[d] = data[d]]_vars

(* A thread that holds init_lock, with which every other call waits, gives *)
(* it back: downloads are tried so many times only.                        *)
LockIsReleased == \A t \in Threads : init_lock = t ~> init_lock # t

(* What LoadData says it has installed is whole.                           *)
LoadedDataIsWhole ==
    \A t \in Threads : pc[t] = "end_load" => \A s \in Stage : data[ResolveDataDirectory][s] = "whole"
=============================================================================
