--------------------------- MODULE NERModelProofs ---------------------------
(***************************************************************************)
(* Proofs about NERModel, for every set of threads, models and devices and *)
(* any number of SET statements: TypeOK, NoDataRace and LoadedIsWhole are  *)
(* invariants, and LoadedIsFinal and ImplementsModelOnce hold of every     *)
(* step.  None of them is inductive; IInv below is.  SettingsTakeEffect    *)
(* holds as long as no SET meets a load, by SettingsInv at the end.        *)
(***************************************************************************)
EXTENDS NERModel, TLAPS

(* The init lock is held exactly by the thread inside EnsureInitialized's  *)
(* critical section.                                                       *)
LockInv == \A t \in Threads :
    /\ pc[t] \in LockPCs => initLock = t
    /\ initLock = t => pc[t] \in LockPCs

(* Nobody loads a loaded model, and inference runs on a loaded one.        *)
LoadInv == \A t \in Threads :
    /\ pc[t] \in LoadPCs => status # "LOADED"
    /\ pc[t] = "infer" => status = "LOADED"

(* A load may fail at once, before it has stored anything.                 *)
FailPCs == {"fail", "fail_message"}

(* What LoadModel has established when it reaches each of its stages.      *)
StageInv == \A t \in Threads :
    /\ pc[t] \in (LoadPCs \ {"name"}) \cup {"set_model", "store_model"} => myModel[t] \in Models
    /\ pc[t] \in LoadPCs \ ({"name", "device"} \cup FailPCs) => myDevice[t] \in Devices
    /\ pc[t] \in LoadPCs \ ({"name", "device", "path"} \cup FailPCs) => loadedName = myModel[t]
    /\ pc[t] \in {"compile", "probe", "loaded_message", "publish"} => tokenizer = myModel[t]
    /\ pc[t] \in {"probe", "loaded_message", "publish"} =>
           compiled \in Compiled /\ compiled.model = myModel[t]

LoadedInv == status = "LOADED" =>
    compiled \in Compiled /\ compiled.model = loadedName /\ tokenizer = loadedName

IInv == TypeOK /\ LockInv /\ LoadInv /\ StageInv /\ LoadedInv

Step(t) == Detect(t) \/ EnsureInitialized(t) \/ LoadModel(t) \/ GetStatus(t) \/ SetOption(t)

(* The actions of a thread and the frames they keep; a step of a proof     *)
(* that names an action sees its definition.                               *)
USE DEF Detect, StartDetect, RequireFast, FindMatches, CheckAvailable,
        EndDetect, Finish, Goto, manager, config, loaded, disk, locals,
        EnsureInitialized, EnsureFast, AcquireInitLock, DoubleCheck,
        ReleaseInitLock, RaiseAndUnlock, LoadModel, LoadName, LoadDevice,
        LoadPath, MigrateLegacyAssets, AssetsExist, MayDownload, SkipDownload,
        BeginDownload, CreateDirectories, DownloadModel, LoadTokenizer,
        CompileModel, ProbeInference, PublishLoaded, FailLoad, StoreStatus,
        StoreMessage, CompiledAs, GetStatus, StartStatus, TakeSnapshot,
        OverrideSnapshot, ReportStatus, CopyStatus, NotDownloaded, SetOption,
        StartSetModel, CheckSetModel, StoreModel, SetDevice, CheckSetDevice,
        SetAutoDownload, RetrySkippedDownload, RequestReload, ReloadFrom,
        Settings, FailPCs

-----------------------------------------------------------------------------
(* A step of a thread keeps every variable in its type; the model and the  *)
(* device it stores are those StageInv finds in its locals.                *)
LEMMA TypeStep ==
  ASSUME TypeOK, StageInv, NEW t \in Threads, Step(t)
  PROVE  TypeOK'
<1>1. pc' \in [Threads -> PCs]
  BY DEF Step, TypeOK, PCs, LockPCs, LoadPCs
<1>2. ner' \in [Threads -> {"optional", "required"}]
  BY DEF Step, TypeOK
<1>3. return' \in [Threads -> {"snapshot", "available"}]
  BY DEF Step, TypeOK
<1>4. myModel' \in [Threads -> Models \cup {None}]
  BY DEF Step, TypeOK
<1>5. myDevice' \in [Threads -> Devices \cup {None}]
  BY DEF Step, TypeOK
<1>6. seen' \in [Threads -> [status : Statuses, message : Statuses]]
  BY DEF Step, TypeOK, Statuses, NoSnapshot
<1>7. /\ status' \in Statuses /\ message' \in Statuses
     /\ initLock' \in Threads \cup {None}
  BY DEF Step, TypeOK, Statuses
<1>8. /\ loadedName' \in Models \cup {None} /\ tokenizer' \in Models \cup {None}
     /\ compiled' \in Compiled \cup {None}
  BY DEF Step, TypeOK, StageInv, Compiled, LoadPCs
<1>9. autoDownload' \in BOOLEAN /\ modelSetting' \in Models /\ device' \in Devices
  BY DEF Step, TypeOK, StageInv, LoadPCs
<1>10. onDisk' \in SUBSET Models
  BY ModelAssumption DEF Step, TypeOK, StageInv, LoadPCs
<1>11. legacy' \in BOOLEAN /\ home' \in BOOLEAN
  BY DEF Step, TypeOK
<1>12. sets' \in Nat
  BY DEF Step, TypeOK
<1>13. tried' \in [model : Models, device : Devices] \cup {None}
  BY DEF Step, TypeOK, StageInv, LoadPCs
<1> QED  BY <1>1, <1>2, <1>3, <1>4, <1>5, <1>6, <1>7, <1>8, <1>9, <1>10, <1>11, <1>12, <1>13 DEF TypeOK

(* Mutual exclusion of loads: only AcquireInitLock enters the critical     *)
(* section, when the lock is free.                                         *)
LEMMA LockStep ==
  ASSUME TypeOK, LockInv, NEW t \in Threads, Step(t)
  PROVE  LockInv'
<1>1. CASE Detect(t)
  BY <1>1, ModelAssumption DEF TypeOK, LockInv, PCs, LockPCs, LoadPCs
<1>2. CASE EnsureInitialized(t)
  BY <1>2, ModelAssumption DEF TypeOK, LockInv, PCs, LockPCs, LoadPCs
<1>3. CASE LoadModel(t)
  BY <1>3, ModelAssumption DEF TypeOK, LockInv, PCs, LockPCs, LoadPCs
<1>4. CASE GetStatus(t)
  BY <1>4, ModelAssumption DEF TypeOK, LockInv, PCs, LockPCs, LoadPCs
<1>5. CASE SetOption(t)
  BY <1>5, ModelAssumption DEF TypeOK, LockInv, PCs, LockPCs, LoadPCs
<1> QED  BY <1>1, <1>2, <1>3, <1>4, <1>5 DEF Step

(* LOADED is stored by the one loading thread, on its way out of the       *)
(* load, and no other step stores it or clears it.                         *)
LEMMA LoadStep ==
  ASSUME TypeOK, LockInv, LoadInv, NEW t \in Threads, Step(t)
  PROVE  LoadInv'
<1>1. CASE Detect(t)
  BY <1>1, ModelAssumption DEF TypeOK, LockInv, LoadInv, PCs, LockPCs,
       LoadPCs
<1>2. CASE EnsureInitialized(t)
  BY <1>2, ModelAssumption DEF TypeOK, LockInv, LoadInv, PCs, LockPCs,
       LoadPCs
<1>3. CASE LoadModel(t)
  BY <1>3, ModelAssumption DEF TypeOK, LockInv, LoadInv, PCs, LockPCs,
       LoadPCs
<1>4. CASE GetStatus(t)
  BY <1>4, ModelAssumption DEF TypeOK, LockInv, LoadInv, PCs, LockPCs,
       LoadPCs
<1>5. CASE SetOption(t)
  BY <1>5, ModelAssumption DEF TypeOK, LockInv, LoadInv, PCs, LockPCs,
       LoadPCs
<1> QED  BY <1>1, <1>2, <1>3, <1>4, <1>5 DEF Step

(* The fields a load has written are not written by anybody else before    *)
(* it ends.                                                                *)
LEMMA StageStep ==
  ASSUME TypeOK, LockInv, StageInv, NEW t \in Threads, Step(t)
  PROVE  StageInv'
<1>1. CASE Detect(t)
  BY <1>1, ModelAssumption DEF TypeOK, LockInv, StageInv, PCs, LockPCs,
       LoadPCs, Compiled
<1>2. CASE EnsureInitialized(t)
  BY <1>2, ModelAssumption DEF TypeOK, LockInv, StageInv, PCs, LockPCs,
       LoadPCs, Compiled
<1>3. CASE LoadModel(t)
  BY <1>3, ModelAssumption DEF TypeOK, LockInv, StageInv, PCs, LockPCs,
       LoadPCs, Compiled
<1>4. CASE GetStatus(t)
  BY <1>4, ModelAssumption DEF TypeOK, LockInv, StageInv, PCs, LockPCs,
       LoadPCs, Compiled
<1>5. CASE SetOption(t)
  BY <1>5, ModelAssumption DEF TypeOK, LockInv, StageInv, PCs, LockPCs,
       LoadPCs, Compiled
<1> QED  BY <1>1, <1>2, <1>3, <1>4, <1>5 DEF Step

(* A load publishes what StageInv says it has built, and a loaded model    *)
(* is not written again.                                                   *)
LEMMA LoadedStep ==
  ASSUME TypeOK, LockInv, LoadInv, StageInv, LoadedInv, NEW t \in Threads, Step(t)
  PROVE  LoadedInv'
<1>1. CASE Detect(t)
  BY <1>1, ModelAssumption DEF TypeOK, LockInv, LoadInv, StageInv,
       LoadedInv, LockPCs, LoadPCs
<1>2. CASE EnsureInitialized(t)
  BY <1>2, ModelAssumption DEF TypeOK, LockInv, LoadInv, StageInv,
       LoadedInv, LockPCs, LoadPCs
<1>3. CASE LoadModel(t)
  BY <1>3, ModelAssumption DEF TypeOK, LockInv, LoadInv, StageInv,
       LoadedInv, LockPCs, LoadPCs
<1>4. CASE GetStatus(t)
  BY <1>4, ModelAssumption DEF TypeOK, LockInv, LoadInv, StageInv,
       LoadedInv, LockPCs, LoadPCs
<1>5. CASE SetOption(t)
  BY <1>5, ModelAssumption DEF TypeOK, LockInv, LoadInv, StageInv,
       LoadedInv, LockPCs, LoadPCs
<1> QED  BY <1>1, <1>2, <1>3, <1>4, <1>5 DEF Step

-----------------------------------------------------------------------------
(* The user's file operations touch nothing an invariant speaks of but the *)
(* set of present file pairs.                                              *)
LEMMA PlaceFilesStep ==
  ASSUME IInv, PlaceFiles
  PROVE  IInv'
<1>1. onDisk' \in SUBSET Models
  BY DEF PlaceFiles, IInv, TypeOK
<1>2. UNCHANGED <<status, message, initLock, config, loaded, tried, home, legacy, pc, locals, sets>>
  BY DEF PlaceFiles
<1> QED  BY <1>1, <1>2 DEF IInv, TypeOK, LockInv, LoadInv, StageInv, LoadedInv,
                            config, loaded, locals

LEMMA StepKeepsIInv ==
  ASSUME IInv, NEW t \in Threads, Step(t)
  PROVE  IInv'
BY TypeStep, LockStep, LoadStep, StageStep, LoadedStep DEF IInv

LEMMA InitIInv == Init => IInv
<1> SUFFICES ASSUME Init PROVE IInv
  OBVIOUS
<1>1. TypeOK
  BY ModelAssumption DEF Init, TypeOK, Statuses, PCs, NoSnapshot
<1>2. LockInv
  BY ModelAssumption DEF Init, LockInv, LockPCs, LoadPCs
<1>3. LoadInv /\ StageInv /\ LoadedInv
  BY DEF Init, LoadInv, StageInv, LoadedInv, LoadPCs
<1> QED  BY <1>1, <1>2, <1>3 DEF IInv

(* IInv is inductive.                                                      *)
LEMMA NextKeepsIInv == IInv /\ [Next]_vars => IInv'
<1> SUFFICES ASSUME IInv, [Next]_vars PROVE IInv'
  OBVIOUS
<1>1. CASE \E t \in Threads : Step(t)
  BY <1>1, StepKeepsIInv
<1>2. CASE PlaceFiles
  BY <1>2, PlaceFilesStep
<1>3. CASE UNCHANGED vars
  BY <1>3 DEF IInv, TypeOK, LockInv, LoadInv, StageInv, LoadedInv,
              vars, manager, config, loaded, disk, locals
<1> QED  BY <1>1, <1>2, <1>3 DEF Next, Step

(* The inductive invariant holds in every reachable state.                 *)
THEOREM InductiveInvariant == Spec => []IInv
BY InitIInv, NextKeepsIInv, PTL DEF Spec

(* Every variable of the manager stays in its type.                        *)
THEOREM TypeCorrect == Spec => []TypeOK
BY InductiveInvariant, PTL DEF IInv

(* The unlocked fields of the manager are never written while a detection  *)
(* reads them or another load writes them: whoever loads holds the init    *)
(* lock and has found no model, whoever infers has found LOADED.           *)
THEOREM NoDataRaceCorrect == Spec => []NoDataRace
<1>1. IInv => NoDataRace
  <2> SUFFICES ASSUME IInv, NEW t \in Threads, NEW u \in Threads, t # u, pc[t] \in LoadPCs
               PROVE  pc[u] \notin LoadPCs \cup {"infer"}
    BY DEF NoDataRace
  <2>1. initLock = t /\ status # "LOADED"
    BY DEF IInv, LockInv, LoadInv, LockPCs
  <2>2. pc[u] \notin LoadPCs
    BY <2>1 DEF IInv, LockInv, LockPCs
  <2>3. pc[u] # "infer"
    BY <2>1 DEF IInv, LoadInv
  <2> QED  BY <2>2, <2>3
<1> QED  BY <1>1, InductiveInvariant, PTL

(* A published model is whole: compiled, with the tokenizer of the same    *)
(* model, under the name the status functions report.                      *)
THEOREM LoadedIsWholeCorrect == Spec => []LoadedIsWhole
<1>1. IInv => LoadedIsWhole
  BY ModelAssumption DEF IInv, LoadedInv, LoadedIsWhole
<1> QED  BY <1>1, InductiveInvariant, PTL

-----------------------------------------------------------------------------
(* No step of a thread writes a loaded model or clears LOADED.             *)
LEMMA LoadedKept ==
  ASSUME IInv, status = "LOADED", [Next]_vars
  PROVE  UNCHANGED <<status, loaded>>
<1>1. CASE PlaceFiles \/ UNCHANGED vars
  BY <1>1 DEF PlaceFiles, vars, manager
<1>2. ASSUME NEW t \in Threads, Step(t)
      PROVE  UNCHANGED <<status, loaded>>
  <2>1. pc[t] \notin LoadPCs
    BY DEF IInv, LoadInv
  <2>2. CASE Detect(t)
    BY <2>2, <2>1 DEF LoadPCs
  <2>3. CASE EnsureInitialized(t)
    BY <2>3, <2>1 DEF LoadPCs
  <2>4. CASE LoadModel(t)
    BY <2>4, <2>1 DEF LoadPCs
  <2>5. CASE GetStatus(t)
    BY <2>5, <2>1 DEF LoadPCs
  <2>6. CASE SetOption(t)
    BY <2>6, <2>1 DEF LoadPCs
  <2> QED  BY <1>2, <2>2, <2>3, <2>4, <2>5, <2>6 DEF Step
<1> QED  BY <1>1, <1>2 DEF Next, Step

(* "Immutable after LoadModel() publishes LOADED": the theorem for any     *)
(* number of threads and SET statements.                                   *)
THEOREM LoadedIsFinalCorrect == Spec => LoadedIsFinal
<1>1. IInv /\ [Next]_vars => [status = "LOADED" => UNCHANGED <<status, loaded>>]_vars
  BY LoadedKept
<1> QED  BY <1>1, InductiveInvariant, PTL DEF Spec, LoadedIsFinal

-----------------------------------------------------------------------------
(* The refinement mapping to ModelOnce.                                    *)
Published == IF status = "LOADED" THEN InForce ELSE None
Serving == [t \in Threads |-> IF pc[t] = "infer" THEN InForce ELSE None]

LEMMA OthersStay ==
  ASSUME TypeOK, NEW t \in Threads, Step(t), NEW u \in Threads, u # t
  PROVE  pc'[u] = pc[u]
<1>1. CASE Detect(t)
  BY <1>1 DEF TypeOK
<1>2. CASE EnsureInitialized(t)
  BY <1>2 DEF TypeOK
<1>3. CASE LoadModel(t)
  BY <1>3 DEF TypeOK
<1>4. CASE GetStatus(t)
  BY <1>4 DEF TypeOK
<1>5. CASE SetOption(t)
  BY <1>5 DEF TypeOK
<1> QED  BY <1>1, <1>2, <1>3, <1>4, <1>5 DEF Step

(* A loaded model is one of the abstract values, and none of them is None. *)
LEMMA InForceWhole ==
  ASSUME IInv, status = "LOADED"
  PROVE  InForce \in {<<c, c.model>> : c \in Compiled} /\ InForce # None
<1>1. compiled \in Compiled /\ tokenizer = compiled.model
  BY DEF IInv, LoadedInv
<1>2. compiled.model \in Models
  BY <1>1 DEF Compiled
<1> QED  BY <1>1, <1>2, ModelAssumption DEF InForce

(* With no model loaded nobody infers and the abstract state is initial.   *)
LEMMA NotLoadedMapsToNone ==
  ASSUME IInv, status # "LOADED"
  PROVE  Published = None /\ Serving = [t \in Threads |-> None]
BY DEF IInv, LoadInv, Published, Serving

(* A step from a state with a loaded model begins an inference, ends one,  *)
(* or is invisible.                                                        *)
LEMMA LoadedStepRefines ==
  ASSUME IInv, status = "LOADED", NEW t \in Threads, Step(t)
  PROVE  Once!Next \/ UNCHANGED <<Published, Serving>>
<1>1. status' = status /\ InForce' = InForce
  BY LoadedKept DEF Next, Step, InForce, loaded
<1>2. Published = InForce /\ Published' = InForce
  BY <1>1 DEF Published
<1>3. InForce # None
  BY InForceWhole
<1>4. \A u \in Threads : u # t => pc'[u] = pc[u]
  BY OthersStay DEF IInv
<1>5. CASE (pc[t] = "infer") = (pc'[t] = "infer")
  <2>1. Serving' = Serving
    BY <1>1, <1>4, <1>5 DEF Serving
  <2> QED  BY <1>2, <2>1
<1>6. CASE pc[t] # "infer" /\ pc'[t] = "infer"
  <2>1. Serving[t] = None /\ Serving' = [Serving EXCEPT ![t] = Published]
    BY <1>1, <1>2, <1>4, <1>6 DEF Serving
  <2>2. Once!BeginInference(t)
    BY <1>2, <1>3, <2>1 DEF Once!BeginInference, Published, Serving
  <2> QED  BY <2>2 DEF Once!Next
<1>7. CASE pc[t] = "infer" /\ pc'[t] # "infer"
  <2>1. Serving[t] # None /\ Serving' = [Serving EXCEPT ![t] = None]
    BY <1>1, <1>3, <1>4, <1>7 DEF Serving
  <2>2. Once!EndInference(t)
    BY <1>2, <2>1 DEF Once!EndInference, Published, Serving
  <2> QED  BY <2>2 DEF Once!Next
<1> QED  BY <1>5, <1>6, <1>7

(* A step from a state without one publishes a whole model, or is          *)
(* invisible.                                                              *)
LEMMA NotLoadedStepRefines ==
  ASSUME IInv, status # "LOADED", NEW t \in Threads, Step(t)
  PROVE  Once!Next \/ UNCHANGED <<Published, Serving>>
<1>1. IInv'
  BY StepKeepsIInv
<1>2. Published = None /\ Serving = [u \in Threads |-> None]
  BY NotLoadedMapsToNone
<1>3. CASE status' # "LOADED"
  <2>1. Published' = None /\ Serving' = [u \in Threads |-> None]
    BY <1>1, <1>3 DEF IInv, LoadInv, Published, Serving
  <2> QED  BY <1>2, <2>1
<1>4. CASE status' = "LOADED"
  <2>1. \A u \in Threads : pc'[u] # "infer"
    <3>1. pc'[t] # "infer"
      <4>1. CASE Detect(t)
        BY <1>4, <4>1 DEF IInv, TypeOK
      <4>2. CASE EnsureInitialized(t)
        BY <1>4, <4>2 DEF IInv, TypeOK
      <4>3. CASE LoadModel(t)
        BY <1>4, <4>3 DEF IInv, TypeOK
      <4>4. CASE GetStatus(t)
        BY <1>4, <4>4 DEF IInv, TypeOK
      <4>5. CASE SetOption(t)
        BY <1>4, <4>5 DEF IInv, TypeOK
      <4> QED  BY <4>1, <4>2, <4>3, <4>4, <4>5 DEF Step
    <3>2. \A u \in Threads : u # t => pc'[u] = pc[u]
      BY OthersStay DEF IInv
    <3>3. \A u \in Threads : pc[u] # "infer"
      BY DEF IInv, LoadInv
    <3> QED  BY <3>1, <3>2, <3>3
  <2>2. Serving' = Serving
    BY <1>2, <2>1 DEF Serving
  <2>3. compiled' \in Compiled /\ tokenizer' = compiled'.model
    BY <1>1, <1>4 DEF IInv, LoadedInv
  <2>4. Published' \in {<<c, c.model>> : c \in Compiled}
    BY <1>4, <2>3 DEF Published, InForce
  <2>5. Once!Publish
    BY <1>2, <2>2, <2>4 DEF Once!Publish, Published, Serving
  <2> QED  BY <2>5 DEF Once!Next
<1> QED  BY <1>3, <1>4

(* The manager implements ModelOnce: detections see one model, published   *)
(* whole and at most once, whatever SET statements and loads run beside    *)
(* them.                                                                   *)
THEOREM ImplementsModelOnceCorrect == Spec => ImplementsModelOnce
<1>1. Init => Once!Init
  BY DEF Init, Once!Init
<1>2. IInv /\ [Next]_vars => [Once!Next]_<<Published, Serving>>
  <2> SUFFICES ASSUME IInv, [Next]_vars PROVE Once!Next \/ UNCHANGED <<Published, Serving>>
    OBVIOUS
  <2>1. CASE \E t \in Threads : Step(t)
    BY <2>1, LoadedStepRefines, NotLoadedStepRefines
  <2>2. CASE PlaceFiles \/ UNCHANGED vars
    BY <2>2 DEF PlaceFiles, vars, manager, loaded, Published, Serving, InForce
  <2> QED  BY <2>1, <2>2 DEF Next, Step
<1> QED  BY <1>1, <1>2, InductiveInvariant, PTL
         DEF Spec, ImplementsModelOnce, Once!Spec, Published, Serving

-----------------------------------------------------------------------------
(* A SET that has read the status or stored a value is over before the     *)
(* next load begins, and begins after the last one has ended.  Detections, *)
(* status calls and SET statements overlap in every other way.             *)
SetPCs == {"store_model", "device_check", "auto_cas",
           "reload_failed", "reload_skipped", "reload_message"}
SetsMeetNoLoad == \A t, u \in Threads : pc[t] \in SetPCs => pc[u] \notin LoadPCs

(* The load that left the present status was of what is set now, unless a  *)
(* SET that changed it has its reload still to come.                       *)
CurrentInv ==
    /\ status \in {"LOADED", "DOWNLOADING"} => loadedName = modelSetting
    /\ status \in {"FAILED", "NOT_DOWNLOADED"} =>
           \/ tried = Settings
           \/ \E t \in Threads :
                 \/ pc[t] \in {"device_check", "reload_failed"}
                 \/ pc[t] = "reload_skipped" /\ status = "NOT_DOWNLOADED"

(* A load loads what is set, and an accepted switch is no switch of a      *)
(* loaded model.                                                           *)
ArgumentInv == \A t \in Threads :
    /\ pc[t] \in LoadPCs \ {"name"} => myModel[t] = modelSetting
    /\ pc[t] \in LoadPCs \ {"name", "device"} => tried = Settings
    /\ pc[t] = "store_model" /\ status \in {"LOADED", "DOWNLOADING"} => myModel[t] = loadedName

(* A download is skipped only while automatic download is off, and turning *)
(* it on is followed by the retry.                                         *)
SkippedInv ==
    /\ \A t \in Threads : pc[t] = "skip" => ~autoDownload
    /\ status = "NOT_DOWNLOADED" /\ autoDownload => \E t \in Threads : pc[t] = "auto_cas"

SettingsInv == CurrentInv /\ ArgumentInv /\ SkippedInv

(* A load ends with the status of a load of what is set; a SET over a      *)
(* failed load goes on to its reload, which clears it.                     *)
LEMMA CurrentStep ==
  ASSUME IInv, SettingsInv, SetsMeetNoLoad, SetsMeetNoLoad', NEW t \in Threads, Step(t)
  PROVE  CurrentInv'
<1> USE DEF IInv, TypeOK, Statuses, LockInv, LockPCs, LoadPCs, LoadInv, StageInv,
            SettingsInv, CurrentInv, ArgumentInv, SetsMeetNoLoad, SetPCs
<1>1. CASE Detect(t)
  BY <1>1
<1>2. CASE EnsureInitialized(t)
  BY <1>2
<1>3. CASE LoadModel(t)
  BY <1>3
<1>4. CASE GetStatus(t)
  BY <1>4
<1>5. CASE SetOption(t)
  <2>1. CASE StartSetModel(t) \/ CheckSetModel(t)
    BY <2>1
  <2>2. CASE StoreModel(t)
    BY <2>2
  <2>3. CASE SetDevice(t)
    BY <2>3
  <2>4. CASE CheckSetDevice(t)
    BY <2>4
  <2>5. CASE SetAutoDownload(t) \/ RetrySkippedDownload(t)
    BY <2>5
  <2>6. CASE RequestReload(t)
    BY <2>6
  <2> QED  BY <1>5, <2>1, <2>2, <2>3, <2>4, <2>5, <2>6
<1> QED  BY <1>1, <1>2, <1>3, <1>4, <1>5 DEF Step

(* Nobody else changes what is set during a load, or what is loaded        *)
(* during a SET.                                                           *)
LEMMA ArgumentStep ==
  ASSUME IInv, SettingsInv, SetsMeetNoLoad, SetsMeetNoLoad', NEW t \in Threads, Step(t)
  PROVE  ArgumentInv'
<1> USE DEF IInv, TypeOK, LockInv, LockPCs, LoadPCs, SettingsInv, ArgumentInv,
            SetsMeetNoLoad, SetPCs, SwitchRejected
<1>1. CASE Detect(t)
  BY <1>1
<1>2. CASE EnsureInitialized(t)
  BY <1>2
<1>3. CASE LoadModel(t)
  BY <1>3
<1>4. CASE GetStatus(t)
  BY <1>4
<1>5. CASE SetOption(t)
  BY <1>5
<1> QED  BY <1>1, <1>2, <1>3, <1>4, <1>5 DEF Step

(* Automatic download is not turned on between a load's reading of it and  *)
(* the status of the skipped download.                                     *)
LEMMA SkippedStep ==
  ASSUME IInv, SettingsInv, SetsMeetNoLoad, SetsMeetNoLoad', NEW t \in Threads, Step(t)
  PROVE  SkippedInv'
<1> USE DEF IInv, TypeOK, LoadPCs, SettingsInv, SkippedInv, SetsMeetNoLoad, SetPCs
<1>1. CASE Detect(t)
  BY <1>1
<1>2. CASE EnsureInitialized(t)
  BY <1>2
<1>3. CASE LoadModel(t)
  BY <1>3
<1>4. CASE GetStatus(t)
  BY <1>4
<1>5. CASE SetOption(t)
  BY <1>5
<1> QED  BY <1>1, <1>2, <1>3, <1>4, <1>5 DEF Step

(* SettingsInv is inductive beside IInv where no SET meets a load.         *)
LEMMA NextKeepsSettingsInv ==
  IInv /\ SettingsInv /\ SetsMeetNoLoad /\ SetsMeetNoLoad' /\ [Next]_vars => SettingsInv'
<1> SUFFICES ASSUME IInv, SettingsInv, SetsMeetNoLoad, SetsMeetNoLoad', [Next]_vars
             PROVE  SettingsInv'
  OBVIOUS
<1>1. CASE \E t \in Threads : Step(t)
  BY <1>1, CurrentStep, ArgumentStep, SkippedStep DEF SettingsInv
<1>2. CASE PlaceFiles \/ UNCHANGED vars
  <2>1. UNCHANGED <<status, autoDownload, loadedName, modelSetting, device, tried, pc, myModel>>
    BY <1>2 DEF PlaceFiles, vars
  <2> QED  BY <2>1 DEF SettingsInv, CurrentInv, ArgumentInv, SkippedInv
<1> QED  BY <1>1, <1>2 DEF Next, Step

(* At the start nothing is loaded and nobody is in a statement.            *)
LEMMA InitSettingsInv == Init => SettingsInv
BY DEF Init, SettingsInv, CurrentInv, ArgumentInv, SkippedInv, LoadPCs

(* With nobody in a statement the settings in force are those that are set.*)
LEMMA SettingsInvSuffices == SettingsInv => SettingsTakeEffect
BY DEF SettingsInv, CurrentInv, SkippedInv, SettingsTakeEffect, SwitchNotIgnored, FailureIsCurrent,
       SkippedDownloadRetried, Quiescent

(* "Switching models after the model has been loaded [..] is rejected      *)
(* instead of silently doing nothing", and its like (NERModel): on any     *)
(* number of threads, with or without a home directory and whatever file   *)
(* system call throws, every accepted SET is in force for the next         *)
(* detection as long as no SET meets a load.  A SET that does meet one may *)
(* be lost (SwitchNotIgnored fails), so the overlap of the two is the only *)
(* cause.                                                                  *)
THEOREM SettingsAreLostToLoadsOnly == Spec /\ []SetsMeetNoLoad => []SettingsTakeEffect
<1>1. Spec /\ []SetsMeetNoLoad => []SettingsInv
  BY InductiveInvariant, InitSettingsInv, NextKeepsSettingsInv, PTL DEF Spec
<1> QED  BY <1>1, SettingsInvSuffices, PTL
=============================================================================
