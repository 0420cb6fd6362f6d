------------------------------ MODULE NERModel ------------------------------
(***************************************************************************)
(* The process-wide NER model manager (src/src/anofox_ner.cpp): DuckDB     *)
(* worker threads detect PII with it and load it lazily, connections SET   *)
(* its options meanwhile.  `status' is an atomic that threads read and     *)
(* compare-and-swap without a lock; the init lock serialises loads, and    *)
(* the state mutex guards message, name and device only, so every step     *)
(* below is one atomic access or one critical section of that mutex.       *)
(*                                                                         *)
(* A file pair (model and tokenizer of one model) is present or absent;    *)
(* a status message is the status whose text it is.                        *)
(***************************************************************************)
EXTENDS Naturals, FiniteSets

CONSTANTS
    Threads,        \* threads that detect PII and run SET statements
    Models,         \* the names of the model registry
    DefaultModel,   \* NER_DEFAULT_MODEL
    LegacyModel,    \* the model older versions stored in the base directory
    Devices,        \* OpenVINO devices
    DefaultDevice,  \* "AUTO"
    None,           \* no thread, model, device or compiled model
    IoMayThrow,     \* whether the file system calls outside the try may throw
    MaxSets         \* bound on the SET statements of a behaviour

(* A compiled model: of which model, for which device, and for which       *)
(* sequence length (fixed when inference with a dynamic one fails).        *)
Compiled == [model : Models, device : Devices, length : {"dynamic", "fixed"}]

ASSUME ModelAssumption ==
    /\ None \notin Threads \cup Models \cup Devices \cup Compiled
    /\ None \notin Compiled \X Models
    /\ DefaultModel \in Models /\ LegacyModel \in Models
    /\ DefaultDevice \in Devices
    /\ IoMayThrow \in BOOLEAN
    /\ MaxSets \in Nat

Statuses == {"NOT_LOADED", "DOWNLOADING", "LOADED", "FAILED", "NOT_DOWNLOADED"}

VARIABLES
    status,        \* status_ (atomic)
    message,       \* status_message_: the status its text describes
    initLock,      \* the thread that holds init_lock_, or None
    autoDownload,  \* auto_download_ (atomic)
    modelSetting,  \* g_current_model_name
    device,        \* device_name_
    loadedName,    \* current_model_name_ (and model_path_)
    tokenizer,     \* model of the working tokenizer_, or None
    compiled,      \* compiled_model_, labels_, fixed_seq_length_, or None
    tried,         \* history: the model and the device of the last load, or None
    home,          \* whether HOME names a home directory (never changes)
    onDisk,        \* models whose file pair is in their own directory
    legacy,        \* whether the legacy file pair is in the base directory
    pc,            \* where each thread is
    ner,           \* anofox_ner_required in each statement's snapshot
    return,        \* where EnsureInitialized returns to in each thread
    myModel,       \* LoadModel's copy, or the argument of SET anofox_ner_model
    myDevice,      \* LoadModel's copy
    seen,          \* the status snapshot each thread took
    sets           \* SET statements started so far

config  == <<autoDownload, modelSetting, device>>
loaded  == <<loadedName, tokenizer, compiled>>
disk    == <<home, onDisk, legacy>>
manager == <<status, message, initLock, config, loaded, tried, disk>>
locals  == <<ner, return, myModel, myDevice, seen>>
vars    == <<manager, pc, locals, sets>>

Settings == [model |-> modelSetting, device |-> device]

NoSnapshot == [status |-> "NOT_LOADED", message |-> "NOT_LOADED"]

LoadPCs == {"name", "device", "path", "migrate", "exists", "auto", "skip", "skip_message",
            "downloading", "downloading_message", "directory", "download",
            "tokenizer", "compile", "probe", "loaded_message", "publish",
            "fail", "fail_message"}
LockPCs == LoadPCs \cup {"check", "unlock", "raise"}
PCs == LockPCs \cup
       {"idle", "require", "ensure", "lock", "snapshot", "override", "report",
        "find", "available", "infer", "dictionary",
        "set_model", "store_model", "set_device", "device_check", "set_auto", "auto_cas",
        "reload_failed", "reload_skipped", "reload_message"}

Init ==
    /\ status = "NOT_LOADED" /\ message = "NOT_LOADED"
    /\ initLock = None
    /\ autoDownload = TRUE
    /\ modelSetting = DefaultModel /\ device = DefaultDevice
    /\ loadedName = None /\ tokenizer = None /\ compiled = None
    /\ tried = None
    /\ home \in BOOLEAN
    /\ onDisk \in IF home THEN SUBSET Models ELSE {{}}
    /\ legacy \in IF home THEN BOOLEAN ELSE {FALSE}
    /\ pc = [t \in Threads |-> "idle"]
    /\ ner = [t \in Threads |-> "optional"]
    /\ return = [t \in Threads |-> "available"]
    /\ myModel = [t \in Threads |-> None]
    /\ myDevice = [t \in Threads |-> None]
    /\ seen = [t \in Threads |-> NoSnapshot]
    /\ sets = 0

Goto(t, from, to) == pc[t] = from /\ pc' = [pc EXCEPT ![t] = to]

(* A statement of the thread ends and its locals go out of scope.          *)
Finish(t, from) ==
    /\ Goto(t, from, "idle")
    /\ ner' = [ner EXCEPT ![t] = "optional"]
    /\ return' = [return EXCEPT ![t] = "available"]
    /\ myModel' = [myModel EXCEPT ![t] = None]
    /\ myDevice' = [myDevice EXCEPT ![t] = None]
    /\ seen' = [seen EXCEPT ![t] = NoSnapshot]

-----------------------------------------------------------------------------
(* PIIEngine::Detect over a type set that needs NER, under the value of    *)
(* anofox_ner_required that its statement's snapshot holds.                *)
StartDetect(t) == \E required \in {"optional", "required"} :
    /\ Goto(t, "idle", IF required = "required" THEN "require" ELSE "find")
    /\ ner' = [ner EXCEPT ![t] = required]
    /\ UNCHANGED <<manager, return, myModel, myDevice, seen, sets>>

(* RequireModel, first line.                                               *)
RequireFast(t) ==
    /\ Goto(t, "require", IF status = "LOADED" THEN "find" ELSE "ensure")
    /\ return' = [return EXCEPT ![t] = "snapshot"]
    /\ UNCHANGED <<manager, ner, myModel, myDevice, seen, sets>>

(* FindMatches: lazily initialise the model.                               *)
FindMatches(t) ==
    /\ Goto(t, "find", IF status = "NOT_LOADED" THEN "ensure" ELSE "available")
    /\ return' = [return EXCEPT ![t] = "available"]
    /\ UNCHANGED <<manager, ner, myModel, myDevice, seen, sets>>

(* FindMatches: IsAvailable, then inference or the name dictionary.        *)
CheckAvailable(t) ==
    /\ Goto(t, "available", IF status = "LOADED" THEN "infer" ELSE "dictionary")
    /\ UNCHANGED <<manager, locals, sets>>

EndDetect(t) ==
    /\ \/ Finish(t, "infer")
       \/ Finish(t, "dictionary")
    /\ UNCHANGED <<manager, sets>>

-----------------------------------------------------------------------------
(* EnsureInitialized                                                       *)
EnsureFast(t) ==
    /\ Goto(t, "ensure", IF status = "LOADED" THEN return[t] ELSE "lock")
    /\ UNCHANGED <<manager, locals, sets>>

(* Mutant: a load without the init lock.                                   *)
AcquireWithoutLock(t) ==
    /\ Goto(t, "lock", "check")
    /\ initLock' = t
    /\ UNCHANGED <<status, message, config, loaded, tried, disk, locals, sets>>

AcquireInitLock(t) ==
    /\ initLock = None
    /\ Goto(t, "lock", "check")
    /\ initLock' = t
    /\ UNCHANGED <<status, message, config, loaded, tried, disk, locals, sets>>

(* Mutant: no second look at the status under the lock.                    *)
NoDoubleCheck(t) ==
    /\ Goto(t, "check", "name")
    /\ UNCHANGED <<manager, locals, sets>>

DoubleCheck(t) ==
    /\ Goto(t, "check", IF status = "NOT_LOADED" THEN "name" ELSE "unlock")
    /\ UNCHANGED <<manager, locals, sets>>

ReleaseInitLock(t) ==
    /\ Goto(t, "unlock", return[t])
    /\ initLock' = None
    /\ myModel' = [myModel EXCEPT ![t] = None]
    /\ myDevice' = [myDevice EXCEPT ![t] = None]
    /\ UNCHANGED <<status, message, config, loaded, tried, disk, ner, return, seen, sets>>

(* An exception leaves EnsureInitialized: the guard releases the lock and  *)
(* the query fails.                                                        *)
RaiseAndUnlock(t) ==
    /\ Finish(t, "raise")
    /\ initLock' = None
    /\ UNCHANGED <<status, message, config, loaded, tried, disk, sets>>

-----------------------------------------------------------------------------
(* LoadModel, under the init lock.  Without a home directory there is no   *)
(* model directory, and the load fails before anything else is written.    *)
LoadName(t) ==
    /\ myModel' = [myModel EXCEPT ![t] = modelSetting]
    /\ IF home
       THEN Goto(t, "name", "device") /\ UNCHANGED tried
       ELSE Goto(t, "name", "fail") /\ tried' = Settings
    /\ UNCHANGED <<status, message, initLock, config, loaded, disk,
                   ner, return, myDevice, seen, sets>>

LoadDevice(t) ==
    /\ Goto(t, "device", "path")
    /\ myDevice' = [myDevice EXCEPT ![t] = device]
    /\ tried' = [model |-> myModel[t], device |-> device]
    /\ UNCHANGED <<status, message, initLock, config, loaded, disk, ner, return, myModel, seen, sets>>

LoadPath(t) ==
    /\ Goto(t, "path", "migrate")
    /\ loadedName' = myModel[t]
    /\ UNCHANGED <<status, message, initLock, config, tokenizer, compiled, tried, disk, locals, sets>>

(* MigrateLegacyAssets; a failure of it is caught and ignored.             *)
MigrateLegacyAssets(t) ==
    /\ Goto(t, "migrate", "exists")
    /\ \/ /\ myModel[t] = LegacyModel /\ legacy /\ LegacyModel \notin onDisk
          /\ onDisk' = onDisk \cup {LegacyModel}
          /\ legacy' = FALSE
       \/ UNCHANGED disk
    /\ UNCHANGED <<status, message, initLock, config, loaded, tried, home, locals, sets>>

AssetsExist(t) ==
    /\ \/ Goto(t, "exists", IF myModel[t] \in onDisk THEN "tokenizer" ELSE "auto")
       \/ IoMayThrow /\ Goto(t, "exists", "raise")
    /\ UNCHANGED <<manager, locals, sets>>

MayDownload(t) ==
    /\ Goto(t, "auto", IF autoDownload THEN "downloading" ELSE "skip")
    /\ UNCHANGED <<manager, locals, sets>>

(* status_.store, which the code does before it stores the message.        *)
StoreStatus(t, from, s, to) ==
    /\ Goto(t, from, to)
    /\ status' = s
    /\ UNCHANGED <<message, initLock, config, loaded, tried, disk, locals, sets>>

(* SetStatusMessage, a critical section of the state mutex.                *)
StoreMessage(t, from, s, to) ==
    /\ Goto(t, from, to)
    /\ message' = s
    /\ UNCHANGED <<status, initLock, config, loaded, tried, disk, locals, sets>>

SkipDownload(t) ==
    \/ StoreStatus(t, "skip", "NOT_DOWNLOADED", "skip_message")
    \/ StoreMessage(t, "skip_message", "NOT_DOWNLOADED", "unlock")

BeginDownload(t) ==
    \/ StoreStatus(t, "downloading", "DOWNLOADING", "downloading_message")
    \/ StoreMessage(t, "downloading_message", "DOWNLOADING", "directory")

(* create_directories(model_dir), outside the try block.                   *)
CreateDirectories(t) ==
    /\ \/ Goto(t, "directory", "download")
       \/ IoMayThrow /\ Goto(t, "directory", "raise")
    /\ UNCHANGED <<manager, locals, sets>>

(* DownloadModel; AssetDownload details it.                                *)
DownloadModel(t) ==
    /\ \/ /\ Goto(t, "download", "tokenizer")
          /\ onDisk' = onDisk \cup {myModel[t]}
          /\ message' = "DOWNLOADING"
       \/ /\ Goto(t, "download", "fail")
          /\ UNCHANGED onDisk
          /\ message' = "FAILED"
    /\ UNCHANGED <<status, initLock, config, loaded, tried, home, legacy, locals, sets>>

(* Mutant: the tokenizer of the model that is configured by now.           *)
LoadTokenizerOfSetting(t) ==
    /\ \/ modelSetting \in onDisk /\ Goto(t, "tokenizer", "compile") /\ tokenizer' = modelSetting
       \/ Goto(t, "tokenizer", "fail") /\ UNCHANGED tokenizer
    /\ UNCHANGED <<status, message, initLock, config, loadedName, compiled, tried, disk, locals, sets>>

(* read_model and the tokenizer; either may be missing or broken.          *)
LoadTokenizer(t) ==
    /\ \/ /\ myModel[t] \in onDisk
          /\ Goto(t, "tokenizer", "compile")
          /\ tokenizer' = myModel[t]
       \/ /\ Goto(t, "tokenizer", "fail")
          /\ tokenizer' \in {tokenizer, None}
    /\ UNCHANGED <<status, message, initLock, config, loadedName, compiled, tried, disk, locals, sets>>

CompiledAs(t, length) == [model |-> myModel[t], device |-> myDevice[t], length |-> length]

CompileModel(t) ==
    /\ \/ Goto(t, "compile", "probe") /\ compiled' = CompiledAs(t, "dynamic")
       \/ Goto(t, "compile", "fail") /\ UNCHANGED compiled
    /\ UNCHANGED <<status, message, initLock, config, loadedName, tokenizer, tried, disk, locals, sets>>

(* Mutant: a model that fails its probe is compiled again without end.     *)
ProbeUntilItWorks(t) ==
    /\ \/ Goto(t, "probe", "loaded_message") /\ compiled' = compiled
       \/ Goto(t, "probe", "compile") /\ compiled' = compiled
    /\ UNCHANGED <<status, message, initLock, config, loadedName, tokenizer, tried, disk, locals, sets>>

(* ProbeInference, and once more after compiling for a fixed length.       *)
ProbeInference(t) ==
    /\ \/ Goto(t, "probe", "loaded_message") /\ compiled' \in {compiled, CompiledAs(t, "fixed")}
       \/ Goto(t, "probe", "fail") /\ compiled' \in {compiled, CompiledAs(t, "fixed")}
    /\ UNCHANGED <<status, message, initLock, config, loadedName, tokenizer, tried, disk, locals, sets>>

(* LOADED is published last.                                               *)
PublishLoaded(t) ==
    \/ StoreMessage(t, "loaded_message", "LOADED", "publish")
    \/ StoreStatus(t, "publish", "LOADED", "unlock")

FailLoad(t) ==
    \/ StoreStatus(t, "fail", "FAILED", "fail_message")
    \/ StoreMessage(t, "fail_message", "FAILED", "unlock")

-----------------------------------------------------------------------------
(* GetStatusSnapshot, for RequireModel and for anofox_ner_status: the copy *)
(* under the state mutex ...                                               *)
StartStatus(t) ==
    /\ Goto(t, "idle", "snapshot")
    /\ UNCHANGED <<manager, locals, sets>>

CopyStatus == [status |-> status, message |-> message]

TakeSnapshot(t) ==
    /\ Goto(t, "snapshot", "override")
    /\ seen' = [seen EXCEPT ![t] = CopyStatus]
    /\ UNCHANGED <<manager, ner, return, myModel, myDevice, sets>>

AssetsOnDisk(m) == m \in onDisk \/ (m = LegacyModel /\ legacy)

NotDownloaded == [status |-> "NOT_DOWNLOADED", message |-> "NOT_DOWNLOADED"]

(* ... and, after it, NOT_DOWNLOADED for a model that will not load.       *)
OverrideSnapshot(t) ==
    /\ Goto(t, "override", "report")
    /\ seen' = IF /\ seen[t].status = "NOT_LOADED" /\ ~autoDownload
                  /\ home /\ ~AssetsOnDisk(modelSetting)
               THEN [seen EXCEPT ![t] = NotDownloaded]
               ELSE seen
    /\ UNCHANGED <<manager, ner, return, myModel, myDevice, sets>>

(* RequireModel throws for a snapshot without a model and returns for the  *)
(* other statuses; anofox_ner_status prints the snapshot.                  *)
ThrowingStatuses == {"NOT_DOWNLOADED", "FAILED"}

ReportStatus(t) ==
    /\ IF ner[t] = "required" /\ seen[t].status \notin ThrowingStatuses
       THEN /\ Goto(t, "report", "find")
            /\ seen' = [seen EXCEPT ![t] = NoSnapshot]
            /\ UNCHANGED <<ner, return, myModel, myDevice>>
       ELSE Finish(t, "report")
    /\ UNCHANGED <<manager, sets>>

-----------------------------------------------------------------------------
(* SET anofox_ner_model                                                    *)
StartSetModel(t) == \E m \in Models :
    /\ sets < MaxSets
    /\ Goto(t, "idle", "set_model")
    /\ myModel' = [myModel EXCEPT ![t] = m]
    /\ sets' = sets + 1
    /\ UNCHANGED <<manager, ner, return, myDevice, seen>>

(* Mutant: a switch is rejected during a download only.                    *)
SwitchRejectedLate(t) == status = "DOWNLOADING" /\ myModel[t] # loadedName

(* The part of the snapshot that SetNERModelOption tests.                  *)
SwitchRejected(t) == status \in {"LOADED", "DOWNLOADING"} /\ myModel[t] # loadedName

CheckSetModel(t) ==
    /\ IF SwitchRejected(t) THEN Finish(t, "set_model")
       ELSE Goto(t, "set_model", "store_model") /\ UNCHANGED locals
    /\ UNCHANGED <<manager, sets>>

StoreModel(t) ==
    /\ Goto(t, "store_model", "reload_failed")
    /\ modelSetting' = myModel[t]
    /\ UNCHANGED <<status, message, initLock, autoDownload, device, loaded, tried, disk, locals, sets>>

(* SET anofox_ner_device                                                   *)
SetDevice(t) == \E d \in Devices :
    /\ sets < MaxSets
    /\ Goto(t, "idle", "device_check")
    /\ device' = d
    /\ sets' = sets + 1
    /\ UNCHANGED <<status, message, initLock, autoDownload, modelSetting, loaded, tried, disk, locals>>

CheckSetDevice(t) ==
    /\ IF status = "LOADED" THEN Finish(t, "device_check")
       ELSE Goto(t, "device_check", "reload_failed") /\ UNCHANGED locals
    /\ UNCHANGED <<manager, sets>>

(* SET anofox_ner_auto_download                                            *)
SetAutoDownload(t) == \E enabled \in BOOLEAN :
    /\ sets < MaxSets
    /\ Goto(t, "idle", IF enabled THEN "auto_cas" ELSE "idle")
    /\ autoDownload' = enabled
    /\ sets' = sets + 1
    /\ UNCHANGED <<status, message, initLock, modelSetting, device, loaded, tried, disk, locals>>

RetrySkippedDownload(t) ==
    /\ Finish(t, "auto_cas")
    /\ status' = IF status = "NOT_DOWNLOADED" THEN "NOT_LOADED" ELSE status
    /\ UNCHANGED <<message, initLock, config, loaded, tried, disk, sets>>

(* Mutant: a reload clears whatever status the last load left.             *)
ReloadFromAny(t, from, s, otherwise) ==
    /\ IF status \notin {"NOT_LOADED", "DOWNLOADING"}
       THEN status' = "NOT_LOADED" /\ Goto(t, from, "reload_message") /\ UNCHANGED locals
       ELSE UNCHANGED status /\ Finish(t, from)
    /\ UNCHANGED <<message, initLock, config, loaded, tried, disk, sets>>

(* RequestReload: two compare-and-swaps, then the message.                 *)
ReloadFrom(t, from, s, otherwise) ==
    /\ IF status = s
       THEN status' = "NOT_LOADED" /\ Goto(t, from, "reload_message") /\ UNCHANGED locals
       ELSE /\ UNCHANGED status
            /\ IF otherwise = "idle" THEN Finish(t, from)
               ELSE Goto(t, from, otherwise) /\ UNCHANGED locals
    /\ UNCHANGED <<message, initLock, config, loaded, tried, disk, sets>>

RequestReload(t) ==
    \/ ReloadFrom(t, "reload_failed", "FAILED", "reload_skipped")
    \/ ReloadFrom(t, "reload_skipped", "NOT_DOWNLOADED", "idle")
    \/ /\ Finish(t, "reload_message")
       /\ message' = "NOT_LOADED"
       /\ UNCHANGED <<status, initLock, config, loaded, tried, disk, sets>>

-----------------------------------------------------------------------------
(* The user places the files of a model by hand, or removes them.          *)
PlaceFiles == home /\ \E m \in Models :
    /\ onDisk' \in {onDisk \cup {m}, onDisk \ {m}}
    /\ UNCHANGED <<status, message, initLock, config, loaded, tried, home, legacy, pc, locals, sets>>

Detect(t) ==
    StartDetect(t) \/ RequireFast(t) \/ FindMatches(t) \/ CheckAvailable(t) \/ EndDetect(t)
EnsureInitialized(t) ==
    EnsureFast(t) \/ AcquireInitLock(t) \/ DoubleCheck(t) \/ ReleaseInitLock(t) \/ RaiseAndUnlock(t)
LoadModel(t) ==
    \/ LoadName(t) \/ LoadDevice(t) \/ LoadPath(t) \/ MigrateLegacyAssets(t) \/ AssetsExist(t)
    \/ MayDownload(t) \/ SkipDownload(t) \/ BeginDownload(t) \/ CreateDirectories(t)
    \/ DownloadModel(t) \/ LoadTokenizer(t) \/ CompileModel(t) \/ ProbeInference(t)
    \/ PublishLoaded(t) \/ FailLoad(t)
GetStatus(t) ==
    StartStatus(t) \/ TakeSnapshot(t) \/ OverrideSnapshot(t) \/ ReportStatus(t)
SetOption(t) ==
    \/ StartSetModel(t) \/ CheckSetModel(t) \/ StoreModel(t)
    \/ SetDevice(t) \/ CheckSetDevice(t)
    \/ SetAutoDownload(t) \/ RetrySkippedDownload(t) \/ RequestReload(t)

Next ==
    \/ \E t \in Threads : Detect(t) \/ EnsureInitialized(t) \/ LoadModel(t)
                          \/ GetStatus(t) \/ SetOption(t)
    \/ PlaceFiles

Spec == Init /\ [][Next]_vars

(* A thread inside a load is scheduled until the load ends: the init lock  *)
(* is not contended there and no step waits for another thread.            *)
FairSpec == Spec /\ \A t \in Threads :
    WF_vars(DoubleCheck(t) \/ ReleaseInitLock(t) \/ RaiseAndUnlock(t) \/ LoadModel(t))

-----------------------------------------------------------------------------
(* Every variable of the manager ranges over the values its C++ type and   *)
(* LoadModel's control flow allow.                                         *)
TypeOK ==
    /\ status \in Statuses /\ message \in Statuses
    /\ initLock \in Threads \cup {None}
    /\ autoDownload \in BOOLEAN /\ modelSetting \in Models /\ device \in Devices
    /\ loadedName \in Models \cup {None} /\ tokenizer \in Models \cup {None}
    /\ compiled \in Compiled \cup {None}
    /\ tried \in [model : Models, device : Devices] \cup {None}
    /\ home \in BOOLEAN /\ onDisk \in SUBSET Models /\ legacy \in BOOLEAN
    /\ pc \in [Threads -> PCs]
    /\ ner \in [Threads -> {"optional", "required"}]
    /\ return \in [Threads -> {"snapshot", "available"}]
    /\ myModel \in [Threads -> Models \cup {None}]
    /\ myDevice \in [Threads -> Devices \cup {None}]
    /\ seen \in [Threads -> [status : Statuses, message : Statuses]]
    /\ sets \in Nat

(* The fields LoadModel writes without a lock (tokenizer_, compiled_model_,*)
(* labels_, fixed_seq_length_) are never written while another thread may  *)
(* be reading them in ExtractEntities, and only one thread writes them.    *)
NoDataRace ==
    \A t, u \in Threads : t # u /\ pc[t] \in LoadPCs => pc[u] \notin LoadPCs \cup {"infer"}

(* "Publish LOADED last": a reader that observes LOADED finds a compiled   *)
(* model and a tokenizer, both of the model the status functions name.     *)
LoadedIsWhole ==
    status = "LOADED" =>
        /\ compiled # None
        /\ compiled.model = loadedName
        /\ tokenizer = loadedName

(* "Immutable after LoadModel() publishes LOADED": from then on no SET, no *)
(* late loader and no retry changes the model, the tokenizer or the status.*)
LoadedIsFinal == [][status = "LOADED" => UNCHANGED <<status, loaded>>]_vars

(* Detections see one model, published whole and once: the manager         *)
(* implements ModelOnce, where a whole model is a compiled model together  *)
(* with the tokenizer of the same model.                                   *)
InForce == <<compiled, tokenizer>>

Once == INSTANCE ModelOnce WITH
    Whole <- {<<c, c.model>> : c \in Compiled},
    published <- IF status = "LOADED" THEN InForce ELSE None,
    serving <- [t \in Threads |-> IF pc[t] = "infer" THEN InForce ELSE None]

ImplementsModelOnce == Once!Spec

(* A load that has begun ends, whatever SET statements run beside it, and  *)
(* leaves the init lock free.                                              *)
LoadEnds == \A t \in Threads : pc[t] = "name" ~> initLock # t

-----------------------------------------------------------------------------
Quiescent == \A t \in Threads : pc[t] = "idle"

(* "Switching models after the model has been loaded (or while a load is   *)
(* in progress) is rejected instead of silently doing nothing"             *)
(* (anofox_ner.cpp:1613): an accepted SET anofox_ner_model is never left   *)
(* ignored behind a loaded model.                                          *)
SwitchNotIgnored == Quiescent /\ status = "LOADED" => loadedName = modelSetting

(* RequestReload clears a failed load "so the next detection runs          *)
(* LoadModel() again, after a setting the load depends on changed"         *)
(* (anofox_ner.hpp:787): a failure that stays is one of a load of the      *)
(* model that is set, for the device that is set.                          *)
FailureIsCurrent == Quiescent /\ status \in {"FAILED", "NOT_DOWNLOADED"} => tried = Settings

(* "Turning it back on lets the next NER call retry a skipped download"    *)
(* (anofox_ner.hpp:816): with auto download on no skipped load stays.      *)
SkippedDownloadRetried == Quiescent /\ autoDownload => status # "NOT_DOWNLOADED"

(* The three together: every accepted setting of the model is in force for *)
(* the next detection, whatever failed before it.                          *)
SettingsTakeEffect == SwitchNotIgnored /\ FailureIsCurrent /\ SkippedDownloadRetried

(* anofox_ner_required: "a detection that needs the NER model raises an    *)
(* error instead of falling back to the name dictionary"                   *)
(* (anofox_ner.hpp:796).                                                   *)
RequiredNeverFallsBack ==
    \A t \in Threads : ner[t] = "required" => pc[t] # "dictionary"

(* NERStatus::DOWNLOADING is "Download in progress" (anofox_ner.hpp:192):  *)
(* some thread is inside the load that will replace it.                    *)
DownloadingIsInProgress ==
    status = "DOWNLOADING" => initLock # None /\ pc[initLock] \in LoadPCs

(* GetStatusSnapshot is "a consistent snapshot of status, message, ..."    *)
(* (anofox_ner.hpp:831): the message reported is the status's message.     *)
SnapshotConsistent ==
    \A t \in Threads : pc[t] = "report" => seen[t].message = seen[t].status
=============================================================================
