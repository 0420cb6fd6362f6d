---------------------------- MODULE MCDownloads -----------------------------
(***************************************************************************)
(* What the threads and processes of the extension share: the data of      *)
(* libpostal, the files of a NER model, the binary of the Python package,  *)
(* and the caches of inferred entities and of DNS results.  They share     *)
(* nothing with each other, so a behaviour is one of the five.             *)
(***************************************************************************)
EXTENDS PostalManager, AssetDownload, PyLoader, LRUCache, DnsCache

VARIABLE component

AssetsOff ==
    /\ content = [i \in Inodes |-> {}] /\ tmp = NoFiles /\ dest = NoFiles /\ legacy = NoFiles
    /\ installed = FALSE
    /\ at = [p \in Processes |-> "off"] /\ file = Nil /\ tries = 0 /\ handle = Nil /\ written = 0
    /\ deaths = 0

PostalOff ==
    /\ data = [d \in Dirs |-> [s \in Stage |-> "absent"]]
    /\ setting = "default" /\ auto_download = FALSE
    /\ init_lock = NoThread /\ initialized = FALSE /\ ready = {} /\ loaded = [s \in Stage |-> None]
    /\ pc = [t \in Threads |-> "off"] /\ caller = None /\ dir = None /\ step = 0 /\ attempt = 0
    /\ crashes = 0 /\ sets = 0

EntitiesOff ==
    /\ capacity = DefaultCapacity /\ lruList = <<>> /\ cache = [k \in {} |-> Nothing] /\ newer = {}
    /\ place = [t \in Detectors |-> "off"] /\ todo = {} /\ text = Nothing /\ result = Nothing

DnsOff ==
    /\ now = 0 /\ entries = [d \in Domains |-> NoEntry]
    /\ phase = [t \in Resolvers |-> "off"] /\ domain = NoEntry /\ answer = NoEntry

DownloadsInit ==
    \/ component = "postal" /\ Init /\ AssetsOff /\ LoaderInit /\ EntitiesOff /\ DnsOff
    \/ component = "assets" /\ PostalOff /\ AssetsInit /\ LoaderInit /\ EntitiesOff /\ DnsOff
    \/ component = "loader" /\ PostalOff /\ AssetsOff /\ LoaderInit /\ EntitiesOff /\ DnsOff
    \/ component = "entities" /\ PostalOff /\ AssetsOff /\ LoaderInit /\ CacheInit /\ DnsOff
    \/ component = "dns" /\ PostalOff /\ AssetsOff /\ LoaderInit /\ EntitiesOff /\ DnsInit

DownloadsNext ==
    /\ UNCHANGED component
    /\ \/ component = "postal" /\ Next /\ UNCHANGED <<assetVars, loaderVars, lruVars, dnsVars>>
       \/ component = "assets" /\ AssetsNext /\ UNCHANGED <<vars, loaderVars, lruVars, dnsVars>>
       \/ component = "loader" /\ LoaderNext /\ UNCHANGED <<vars, assetVars, lruVars, dnsVars>>
       \/ component = "entities" /\ CacheNext /\ UNCHANGED <<vars, assetVars, loaderVars, dnsVars>>
       \/ component = "dns" /\ DnsNext /\ UNCHANGED <<vars, assetVars, loaderVars, lruVars>>
=============================================================================
