\* Postal: two threads, two attempts of a download; one crash or tear, and one SET.
\* Assets: one process; two deaths reach every step of a restarted download.
\* Loader: two builds, so that the mirror changes once between any two requests.
\* Entities: three texts exceed every capacity; two threads race on
\* the same text, and the capacity may shrink to 0 between Get and Put.
\* DNS: three domains for two entries; time enough for an entry to expire and to be replaced.
CONSTANTS
    Threads = {t1, t2}
    NoThread = NoThread
    HomeKnown = TRUE
    MaxRetries = 2
    MaxCrashes = 1
    MaxSets = 1
    Processes = {p1}
    Inodes = {i1, i2, i3, i4, i5, i6, i7, i8}
    Nil = Nil
    Chunks = 2
    MaxTries = 3
    IoMayFail = TRUE
    FlushMayFail = TRUE
    MaxDeaths = 2
    NoFile = NoFile
    Empty = Empty
    PartlyWritten = PartlyWritten
    Damaged = Damaged
    MaxBuilds = 2
    Texts = {x, y, z}
    Detectors = {t1, t2}
    Capacities = {0, 1, 2}
    DefaultCapacity = 2
    Nothing = Nothing
    Resolvers = {t1, t2}
    Domains = {x, y, z}
    TTL = 2
    MaxEntries = 2
    MaxTime = 3
    NoEntry = NoEntry
INIT DownloadsInit
NEXT DownloadsNext
INVARIANTS
    InUseIsWhole
    StartsClean
    DestIsFinished
    LoadsVerified
    ListIsMap
    WithinCapacity
    OwnResult
PROPERTIES
    WholeStaysWhole
    EvictsLeastRecent
    EvictsSoonest
