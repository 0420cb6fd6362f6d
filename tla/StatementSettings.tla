------------------------- MODULE StatementSettings --------------------------
(***************************************************************************)
(* One value of the process-wide settings per statement (src/src/include/  *)
(* anofox_statement_settings.hpp).  The first chunk of a statement takes a *)
(* snapshot of the settings; every chunk of the statement, on any worker   *)
(* thread, reads it, and DuckDB's QueryBegin and QueryEnd callbacks drop   *)
(* it.  The PII and the email settings are two instances of this, each     *)
(* with a snapshot of its own.                                             *)
(*                                                                         *)
(* A value of the settings, of those their own mutex protects, is the      *)
(* number of SET statements before it.                                     *)
(***************************************************************************)
EXTENDS Naturals, FiniteSets

CONSTANTS
    Connections,    \* connections to the database
    Workers,        \* worker threads that evaluate chunks
    None,           \* no snapshot, no owner of a mutex
    MaxSets         \* bound on the SET statements of a behaviour

ASSUME SettingsAssumption ==
    /\ MaxSets \in Nat
    /\ None \notin Nat /\ None \notin Workers

VARIABLES
    config,     \* the process-wide settings
    running,    \* whether a statement runs in a connection
    snapshot,   \* StatementSettingsState::snapshot_ of each connection
    mutex,      \* the worker that holds StatementSettingsState::mutex_
    pc,         \* where each worker is, for each connection
    began,      \* history: the settings when the statement began
    seen        \* history: the settings its chunks were evaluated with

settingsVars == <<config, running, snapshot, mutex, pc, began, seen>>

SettingsInit ==
    /\ config = 0
    /\ running = [c \in Connections |-> FALSE]
    /\ snapshot = [c \in Connections |-> None]
    /\ mutex = [c \in Connections |-> None]
    /\ pc = [c \in Connections |-> [w \in Workers |-> "idle"]]
    /\ began = [c \in Connections |-> 0]
    /\ seen = [c \in Connections |-> {}]

-----------------------------------------------------------------------------
(* A SET in some connection, under the mutex of the settings.              *)
Set ==
    /\ config < MaxSets /\ config' = config + 1
    /\ UNCHANGED <<running, snapshot, mutex, pc, began, seen>>

(* Mutant: the snapshot of the statement before is kept.                   *)
KeepSnapshot(c) == mutex[c] = None /\ UNCHANGED snapshot

(* Reset, which needs the mutex.                                           *)
Reset(c) == mutex[c] = None /\ snapshot' = [snapshot EXCEPT ![c] = None]

QueryBegin(c) ==
    /\ ~running[c] /\ Reset(c)
    /\ running' = [running EXCEPT ![c] = TRUE]
    /\ began' = [began EXCEPT ![c] = config]
    /\ seen' = [seen EXCEPT ![c] = {}]
    /\ UNCHANGED <<config, mutex, pc>>

(* DuckDB ends a statement, with or without an error, when its tasks are   *)
(* finished.                                                               *)
QueryEnd(c) ==
    /\ running[c] /\ \A w \in Workers : pc[c][w] = "idle"
    /\ Reset(c)
    /\ running' = [running EXCEPT ![c] = FALSE]
    /\ UNCHANGED <<config, mutex, pc, began, seen>>

(* Planning outside of a statement (a prepared one) folds a constant call, *)
(* which takes a snapshot too.                                             *)
FoldConstant(c) ==
    /\ ~running[c] /\ snapshot[c] = None
    /\ snapshot' = [snapshot EXCEPT ![c] = config]
    /\ UNCHANGED <<config, running, mutex, pc, began, seen>>

-----------------------------------------------------------------------------
Goto(c, w, from, to) == pc[c][w] = from /\ pc' = [pc EXCEPT ![c][w] = to]

(* Mutant: Get does not lock.                                              *)
GetUnlocked(c, w) ==
    /\ running[c] /\ Goto(c, w, "idle", "test")
    /\ UNCHANGED <<config, running, snapshot, mutex, began, seen>>

(* StatementSettings::Get, called for a chunk.                             *)
Get(c, w) ==
    /\ running[c] /\ mutex[c] = None /\ Goto(c, w, "idle", "test")
    /\ mutex' = [mutex EXCEPT ![c] = w]
    /\ UNCHANGED <<config, running, snapshot, began, seen>>

HasSnapshot(c, w) ==
    /\ \/ snapshot[c] = None /\ Goto(c, w, "test", "take")
       \/ snapshot[c] # None /\ Goto(c, w, "test", "copy")
    /\ UNCHANGED <<config, running, snapshot, mutex, began, seen>>

(* take(): PIIConfig::Snapshot or EmailConfig::Snapshot, under the mutex   *)
(* of the settings.                                                        *)
Take(c, w) ==
    /\ Goto(c, w, "take", "copy")
    /\ snapshot' = [snapshot EXCEPT ![c] = config]
    /\ UNCHANGED <<config, running, mutex, began, seen>>

(* return *snapshot_; the guard unlocks and the chunk is evaluated.        *)
Copy(c, w) ==
    /\ Goto(c, w, "copy", "idle")
    /\ seen' = [seen EXCEPT ![c] = @ \cup {snapshot[c]}]
    /\ mutex' = [mutex EXCEPT ![c] = None]
    /\ UNCHANGED <<config, running, snapshot, began>>

WorkerStep(c, w) == Get(c, w) \/ HasSnapshot(c, w) \/ Take(c, w) \/ Copy(c, w)

SettingsNext ==
    \/ Set
    \/ \E c \in Connections :
          \/ QueryBegin(c) \/ QueryEnd(c) \/ FoldConstant(c)
          \/ \E w \in Workers : WorkerStep(c, w)

SettingsSpec == SettingsInit /\ [][SettingsNext]_settingsVars

-----------------------------------------------------------------------------
SettingsTypeOK ==
    /\ config \in 0..MaxSets
    /\ running \in [Connections -> BOOLEAN]
    /\ snapshot \in [Connections -> 0..MaxSets \cup {None}]
    /\ mutex \in [Connections -> Workers \cup {None}]
    /\ pc \in [Connections -> [Workers -> {"idle", "test", "take", "copy"}]]
    /\ \A c \in Connections : mutex[c] # None => pc[c][mutex[c]] # "idle"
    /\ began \in [Connections -> 0..MaxSets]
    /\ seen \in [Connections -> SUBSET (0..MaxSets)]

(* A statement does not "mix two configurations in one result"             *)
(* (anofox_statement_settings.hpp:18-19), however its workers and the SET  *)
(* statements of other connections interleave.                             *)
OneConfiguration == \A c \in Connections : \A s, t \in seen[c] : s = t

(* "The end of the statement drops it so the next statement sees the       *)
(* current settings": a statement uses no settings older than those in     *)
(* force when it began.                                                    *)
CurrentConfiguration == \A c \in Connections : \A s \in seen[c] : began[c] <= s
=============================================================================
