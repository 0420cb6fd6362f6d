------------------------------ MODULE PyLoader ------------------------------
(***************************************************************************)
(* How the Python package finds the binary of the extension (python/src/   *)
(* anofox/_loader.py: AnofoxLoader.load_into): a build of the user's, the  *)
(* community repository of DuckDB, or a download that is kept in           *)
(* ~/.anofox with the checksum of its contents in a file beside it.        *)
(* One process at a time looks for it; it may die at any step, and the     *)
(* next one finds what is on disk.                                         *)
(*                                                                         *)
(* A binary, and its digest, is the number of the build it is of, or       *)
(* Damaged.  An archive has the digest of what it unpacks to.              *)
(***************************************************************************)
EXTENDS Naturals, Sequences

CONSTANTS
    NoFile,         \* no file
    Empty,          \* a checksum file without a digest
    PartlyWritten,  \* a file that is partly written
    Damaged,        \* an archive that is not the published one, and unpacks
    MaxBuilds       \* bound on the builds the mirror publishes

ASSUME LoaderAssumption ==
    /\ MaxBuilds \in Nat \ {0}
    /\ {NoFile, Empty, PartlyWritten, Damaged} \cap 1..MaxBuilds = {}
    /\ Empty # NoFile /\ Damaged \notin {NoFile, Empty, PartlyWritten}

VARIABLES
    binary,         \* _cached_path
    checksum,       \* _cached_checksum_path
    partial,        \* the cached path with suffix .tmp
    builds,         \* the newest build the mirror has published
    stage,          \* where load_into is
    options,        \* [insecure, custom]: insecure downloads, an s3_base_url of its own
    sources,        \* the sources left to try, the current one first
    url,            \* the candidate URL that is tried: 1 the registry, 2 the mirror
    expected,       \* expected_sha
    payload,        \* the data of the download
    outcome,        \* the source that worked, or "raised"
    failed          \* history: the sources that failed in this call

cacheFiles == <<binary, checksum, partial>>
download == <<url, expected, payload>>
loaderVars == <<cacheFiles, builds, stage, options, sources, download, outcome, failed>>

Urls == 1..2

LoaderInit ==
    /\ binary = NoFile /\ checksum = NoFile /\ partial = NoFile
    /\ builds = 1
    /\ stage = "idle" /\ options = [insecure |-> FALSE, custom |-> FALSE] /\ sources = <<>>
    /\ url = 1 /\ expected = NoFile /\ payload = NoFile
    /\ outcome = "none" /\ failed = {}

Step(from, to) == stage = from /\ stage' = to

(* load_into is left with a result, or with an exception.                  *)
Leave(from, result) ==
    /\ Step(from, "idle")
    /\ outcome' = result
    /\ UNCHANGED <<builds, options, sources, download>>

FirstStage(source) == IF source = "community" THEN "install" ELSE "cache"

-----------------------------------------------------------------------------
(* A local build is the only source where there is one; a DuckDB without   *)
(* published builds is rejected; else the sources are tried in turn.       *)
LoadInto ==
    /\ stage = "idle"
    /\ \/ \E result \in {"local", "raised"} :
             /\ outcome' = result
             /\ failed' = IF result = "raised" THEN {"local"} ELSE {}
             /\ UNCHANGED <<stage, options, sources>>
       \/ /\ outcome' = "raised" /\ failed' = {"version"}
          /\ UNCHANGED <<stage, options, sources>>
       \/ /\ options' \in [insecure : BOOLEAN, custom : BOOLEAN]
          /\ sources' = IF options'.custom THEN <<"download", "community">> ELSE <<"community", "download">>
          /\ stage' = FirstStage(Head(sources'))
          /\ outcome' = "none" /\ failed' = {}
    /\ UNCHANGED <<cacheFiles, builds, download>>

InstallFromCommunity ==
    /\ Leave("install", "community")
    /\ UNCHANGED <<cacheFiles, failed>>

(* The source adds its errors to the list; the next one is tried, and      *)
(* behind the last one the list is raised.                                 *)
SourceFails(from) ==
    /\ stage = from
    /\ failed' = failed \cup {Head(sources)}
    /\ sources' = Tail(sources)
    /\ IF sources' = <<>>
       THEN Step(from, "idle") /\ outcome' = "raised"
       ELSE Step(from, FirstStage(Head(sources'))) /\ UNCHANGED outcome
    /\ UNCHANGED <<builds, options>>

CommunityFails == SourceFails("install") /\ UNCHANGED <<cacheFiles, download>>

-----------------------------------------------------------------------------
(* Mutant: a cached binary is used without a look at its checksum.         *)
UseAnyCached ==
    /\ Step("cache", IF binary = NoFile THEN "sidecar" ELSE "load")
    /\ url' = 1 /\ expected' = NoFile /\ payload' = NoFile
    /\ UNCHANGED <<cacheFiles, builds, options, sources, outcome, failed>>

(* _download_extension: a cached binary is loaded as it is by a caller of  *)
(* insecure downloads, and by others when its checksum agrees; without a   *)
(* checksum it is removed.                                                 *)
LookInCache ==
    /\ Step("cache", IF binary # NoFile /\ (options.insecure \/ checksum = binary) THEN "load" ELSE "sidecar")
    /\ binary # NoFile /\ ~options.insecure => checksum \in {NoFile, binary}
    /\ binary' = IF stage' = "load" THEN binary ELSE NoFile
    /\ url' = 1 /\ expected' = NoFile /\ payload' = NoFile
    /\ UNCHANGED <<checksum, partial, builds, options, sources, outcome, failed>>

(* A checksum that disagrees raises, through every loop over sources.      *)
CachedChecksumDiffers ==
    /\ binary # NoFile /\ ~options.insecure /\ checksum \notin {NoFile, binary}
    /\ Leave("cache", "raised")
    /\ UNCHANGED <<cacheFiles, failed>>

(* An error of one URL is listed; the next one is tried, and behind the    *)
(* last one the source has failed.                                         *)
UrlFails(from) ==
    stage = from /\
    IF url + 1 \in Urls
    THEN /\ Step(from, "sidecar")
         /\ url' = url + 1 /\ expected' = NoFile /\ payload' = NoFile
         /\ UNCHANGED <<builds, options, sources, outcome, failed>>
    ELSE SourceFails(from) /\ UNCHANGED download

(* The mirror alone has checksums of its archives.                         *)
FetchSidecar ==
    /\ Step("sidecar", "archive")
    /\ expected' = IF options.insecure THEN NoFile ELSE builds
    /\ options.insecure \/ url = 2
    /\ UNCHANGED <<cacheFiles, builds, options, sources, url, payload, outcome, failed>>

SidecarFails == ~options.insecure /\ UrlFails("sidecar") /\ UNCHANGED cacheFiles

(* _download: the archive agrees with the checksum, if there is one.  The  *)
(* mirror may have published another since.                                *)
FetchArchive ==
    /\ Step("archive", "write")
    /\ payload' \in {builds, Damaged}
    /\ expected \in {NoFile, payload'}
    /\ UNCHANGED <<cacheFiles, builds, options, sources, url, expected, outcome, failed>>

(* Not found, a timeout, another checksum, or an archive that does not     *)
(* unpack.                                                                 *)
ArchiveFails == UrlFails("archive") /\ UNCHANGED cacheFiles

(* The temporary file is written from its beginning, then moved; when      *)
(* either fails it is removed.                                             *)
WritePartial ==
    /\ stage = "write"
    /\ \/ partial # PartlyWritten /\ partial' = PartlyWritten /\ UNCHANGED stage
       \/ partial = PartlyWritten /\ partial' = payload /\ stage' = "move"
    /\ UNCHANGED <<binary, checksum, builds, options, sources, download, outcome, failed>>

WriteFails ==
    /\ (UrlFails("write") \/ UrlFails("move"))
    /\ partial' = NoFile
    /\ UNCHANGED <<binary, checksum>>

MoveIntoPlace ==
    /\ Step("move", IF expected = NoFile THEN "load" ELSE "checksum")
    /\ binary' = partial /\ partial' = NoFile
    /\ UNCHANGED <<checksum, builds, options, sources, download, outcome, failed>>

(* write_text opens the file, which empties it, and writes the digest.     *)
WriteChecksum ==
    /\ stage = "checksum"
    /\ \/ checksum # Empty /\ checksum' = Empty /\ UNCHANGED stage
       \/ checksum = Empty /\ checksum' = payload /\ stage' = "load"
    /\ UNCHANGED <<binary, partial, builds, options, sources, download, outcome, failed>>

(* Its exception is nobody's.                                              *)
ChecksumFails ==
    /\ Leave("checksum", "raised")
    /\ UNCHANGED <<cacheFiles, failed>>

-----------------------------------------------------------------------------
(* LOAD of the cached file.                                                *)
LoadFile ==
    /\ Leave("load", "download")
    /\ UNCHANGED <<cacheFiles, failed>>

(* An exception of LOAD is not caught either: DuckDB refuses what is no    *)
(* build of this version, or is not signed.                                *)
LoadFails ==
    /\ Leave("load", "raised")
    /\ UNCHANGED <<cacheFiles, failed>>

(* The mirror holds the latest build, under one URL.                       *)
MirrorPublishes ==
    /\ builds < MaxBuilds
    /\ builds' = builds + 1
    /\ UNCHANGED <<cacheFiles, stage, options, sources, download, outcome, failed>>

Die ==
    /\ stage # "idle" /\ stage' = "idle"
    /\ outcome' = "none"
    /\ UNCHANGED <<cacheFiles, builds, options, sources, download, failed>>

LoaderNext ==
    \/ LoadInto \/ InstallFromCommunity \/ CommunityFails
    \/ LookInCache \/ CachedChecksumDiffers \/ FetchSidecar \/ SidecarFails
    \/ FetchArchive \/ ArchiveFails \/ WritePartial \/ WriteFails \/ MoveIntoPlace
    \/ WriteChecksum \/ ChecksumFails \/ LoadFile \/ LoadFails
    \/ MirrorPublishes \/ Die

LoaderSpec == LoaderInit /\ [][LoaderNext]_loaderVars

-----------------------------------------------------------------------------
LoaderTypeOK ==
    /\ binary \in 1..MaxBuilds \cup {NoFile, Damaged}
    /\ checksum \in 1..MaxBuilds \cup {NoFile, Empty}
    /\ partial \in 1..MaxBuilds \cup {NoFile, PartlyWritten, Damaged}
    /\ stage \in {"idle", "install", "cache", "sidecar", "archive", "write", "move", "checksum", "load"}

(* "Only verified binaries": what a caller without insecure downloads gets *)
(* from the cache or the network is a published build, whatever callers of *)
(* insecure downloads left behind and wherever processes died (_download_  *)
(* extension).                                                             *)
LoadsVerified == outcome = "download" /\ ~options.insecure => binary \in 1..builds

(* "If no source works, connect() raises a RuntimeError that lists the     *)
(* error of each source" (python/README.md:329): with a source left to try *)
(* nothing is raised.                                                      *)
RaisesForEverySource ==
    outcome = "raised" => failed \in {{"local"}, {"version"}, {"community", "download"}}
=============================================================================
