------------------------------ MODULE DnsCache ------------------------------
(***************************************************************************)
(* The process-wide cache of DNS results (src/src/anofox_email_dns.cpp:    *)
(* DnsResultCache, DnsResolver::Resolve).  Threads validating rows look a  *)
(* domain up in the cache, resolve it outside the cache's mutex (module    *)
(* DnsLookup) and store the result when it is definite.  Lookup and        *)
(* StoreAnswer hold the mutex throughout, so each is one action.           *)
(***************************************************************************)
EXTENDS Naturals, FiniteSets

CONSTANTS
    Resolvers,      \* threads that validate rows
    Domains,        \* lower-cased domains; the code looks up any number
    TTL,            \* DNS_CACHE_TTL_SECONDS
    MaxEntries,     \* DNS_CACHE_MAX_ENTRIES
    MaxTime,        \* bound on the clock of a behaviour
    NoEntry

ASSUME DnsCacheAssumption ==
    /\ IsFiniteSet(Domains)
    /\ TTL \in Nat \ {0} /\ MaxEntries \in Nat \ {0} /\ MaxTime \in Nat
    /\ NoEntry \notin [outcome : {"found", "refused"}, expires : Nat]

(* IsCacheableDnsResult: successes and definite negatives are, timeouts    *)
(* and other failures are not.                                             *)
Cacheable == {"found", "refused"}
Outcomes == Cacheable \cup {"transient"}
Time == 0..MaxTime

VARIABLES
    now,        \* the steady clock, in seconds
    entries,    \* DnsResultCache::entries: result and expiry of a domain
    phase,
    domain,     \* the domain each thread resolves
    answer      \* what Resolve is about to return to it

dnsVars == <<now, entries, phase, domain, answer>>

Entry == [outcome : Cacheable, expires : Nat]
Stored(e) == {d \in Domains : e[d] # NoEntry}
Live(e) == {d \in Stored(e) : now < e[d].expires}

DnsInit ==
    /\ now = 0
    /\ entries = [d \in Domains |-> NoEntry]
    /\ phase = [t \in Resolvers |-> "idle"]
    /\ domain \in [Resolvers -> Domains]
    /\ answer = [t \in Resolvers |-> NoEntry]

-----------------------------------------------------------------------------
(* Resolve of a domain that is neither empty nor reserved: Lookup answers  *)
(* from a live entry and erases an expired one.                            *)
Lookup(t, d) ==
    /\ phase[t] = "idle"
    /\ domain' = [domain EXCEPT ![t] = d]
    /\ \/ /\ d \in Live(entries)
          /\ phase' = [phase EXCEPT ![t] = "return"]
          /\ answer' = [answer EXCEPT ![t] = entries[d].outcome]
          /\ UNCHANGED entries
       \/ /\ d \notin Live(entries)
          /\ phase' = [phase EXCEPT ![t] = "resolve"]
          /\ entries' = [entries EXCEPT ![d] = NoEntry]
          /\ UNCHANGED answer
    /\ UNCHANGED now

(* ResolveUncached, with whatever outcome.                                 *)
ResolveUncached(t) ==
    /\ phase[t] = "resolve" /\ phase' = [phase EXCEPT ![t] = "store"]
    /\ \E o \in Outcomes : answer' = [answer EXCEPT ![t] = o]
    /\ UNCHANGED <<now, entries, domain>>

(* The entries of a cache restricted to some keys.                         *)
Only(e, keys) == [d \in Domains |-> IF d \in keys THEN e[d] ELSE NoEntry]

(* Mutant: the entry that expires last is evicted.                         *)
EvictLatest ==
    LET live == Live(entries)
    IN IF Cardinality(live) < MaxEntries THEN {live}
       ELSE {live \ {d} : d \in {l \in live : \A k \in live : entries[k].expires <= entries[l].expires}}

(* EvictLocked: the expired entries go, and if none was, the one closest   *)
(* to its expiry; any of those that tie.  What may remain:                 *)
EvictLocked ==
    LET live == Live(entries)
    IN IF Cardinality(live) < MaxEntries THEN {live}
       ELSE {live \ {d} : d \in {l \in live : \A k \in live : entries[l].expires <= entries[k].expires}}

(* Only a new domain makes room.                                           *)
Remaining(d) ==
    IF d \notin Stored(entries) /\ Cardinality(Stored(entries)) >= MaxEntries
    THEN EvictLocked ELSE {Stored(entries)}

(* The result is stored if it is cacheable, over one that another thread   *)
(* may have stored meanwhile.                                              *)
StoreAnswer(t) ==
    /\ phase[t] = "store" /\ phase' = [phase EXCEPT ![t] = "return"]
    /\ \/ /\ answer[t] \in Cacheable
          /\ \E keys \in Remaining(domain[t]) :
                entries' = [Only(entries, keys) EXCEPT
                              ![domain[t]] = [outcome |-> answer[t], expires |-> now + TTL]]
       \/ answer[t] \notin Cacheable /\ UNCHANGED entries
    /\ UNCHANGED <<now, domain, answer>>

ReturnAnswer(t) ==
    /\ phase[t] = "return" /\ phase' = [phase EXCEPT ![t] = "idle"]
    /\ answer' = [answer EXCEPT ![t] = NoEntry]
    /\ UNCHANGED <<now, entries, domain>>

Tick ==
    /\ now < MaxTime /\ now' = now + 1
    /\ UNCHANGED <<entries, phase, domain, answer>>

ResolverStep(t) ==
    \/ \E d \in Domains : Lookup(t, d)
    \/ ResolveUncached(t) \/ StoreAnswer(t) \/ ReturnAnswer(t)

DnsNext == Tick \/ \E t \in Resolvers : ResolverStep(t)

DnsSpec == DnsInit /\ [][DnsNext]_dnsVars

-----------------------------------------------------------------------------
DnsTypeOK ==
    /\ now \in Time
    /\ entries \in [Domains -> Entry \cup {NoEntry}]
    /\ phase \in [Resolvers -> {"idle", "resolve", "store", "return"}]
    /\ domain \in [Resolvers -> Domains]
    /\ answer \in [Resolvers -> Outcomes \cup {NoEntry}]

(* "The map is bounded to DNS_CACHE_MAX_ENTRIES" (anofox_email_dns.cpp:    *)
(* 320), whatever threads store, expire and evict beside each other.       *)
Bounded == Cardinality(Stored(entries)) <= MaxEntries

(* "Entries expire after 300 seconds": a row is answered from an entry     *)
(* that was stored in the last TTL seconds.                                *)
FreshHits ==
    [][\A t \in Resolvers : phase[t] = "idle" /\ phase'[t] = "return" =>
           now - (entries[domain'[t]].expires - TTL) \in 0..TTL - 1]_dnsVars

(* "When it is full, expired entries are dropped first, then the entry     *)
(* closest to expiry": at most one live entry is dropped, no later than    *)
(* every entry that stays but the new one, and only when none was expired. *)
EvictsSoonest ==
    [][\A t \in Resolvers : phase[t] = "store" /\ phase'[t] = "return" =>
           LET dropped == Live(entries) \ Stored(entries')
               kept == Stored(entries') \ {domain[t]}
           IN dropped # {} =>
                 /\ Cardinality(dropped) = 1
                 /\ Live(entries) = Stored(entries)
                 /\ \A d \in dropped, k \in kept : entries[d].expires <= entries[k].expires]_dnsVars
=============================================================================
