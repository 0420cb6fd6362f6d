----------------------------- MODULE DnsLookup ------------------------------
(***************************************************************************)
(* One uncached lookup of the mail hosts of a domain (src/src/             *)
(* anofox_email_dns.cpp: DnsResolver::ResolveUncached, RunEventLoop,       *)
(* OnMxQuery, OnAddrInfo, SelectMxHosts).  An MX query and an address      *)
(* query are put to c-ares, whose callbacks run on the calling thread      *)
(* (when the query is put, in the event loop, or when the channel is       *)
(* destroyed) and count `pending' down.                                    *)
(*                                                                         *)
(* `zone' is what the domain really publishes.  The resolver either        *)
(* answers truthfully or fails transiently.                                *)
(***************************************************************************)
EXTENDS Integers, FiniteSets

Queries == {"mx", "addr"}
Transient == {"timeout", "servfail"}                    \* ETIMEOUT, any other failure
Statuses == {"success", "not_found", "no_data", "destruction"} \cup Transient

VARIABLES
    zone,           \* what the domain publishes
    pc,
    outstanding,    \* queries c-ares has not called back yet
    pending,        \* the counter of ResolveUncached
    status,         \* mx_state.status, addrinfo_state.status
    records,        \* mx_state.records: mail hosts and the Null MX
    addresses,      \* whether addrinfo_state.addresses has any
    late,           \* whether the deadline of the event loop has passed
    result          \* what the lookup returned

states == <<outstanding, pending, status, records, addresses>>
vars == <<zone, pc, states, late, result>>

(* A name that does not exist has no records of any type.                  *)
Zones == {z \in [exists : BOOLEAN, mx : SUBSET {"host", "null"}, addr : BOOLEAN] :
             z.exists \/ (z.mx = {} /\ ~z.addr)}

(* The domain accepts mail: RFC 5321 with the Null MX of RFC 7505.         *)
AcceptsMail(z) == "host" \in z.mx \/ (z.mx = {} /\ z.addr)

Nothing(z) == IF z.exists THEN "no_data" ELSE "not_found"

(* The status and the records an answer may come with.  An answer without  *)
(* records may also be a success, say when it holds a CNAME only.          *)
Answers(q) ==
    LET found == IF q = "mx" THEN zone.mx # {} ELSE zone.addr
    IN IF found THEN {"success"} ELSE {Nothing(zone)} \cup IF zone.exists THEN {"success"} ELSE {}

Failure(reason) == [success |-> FALSE, reason |-> reason, hosts |-> {}]
Success(hosts) == [success |-> TRUE, reason |-> "none", hosts |-> hosts]
NoResult == Failure("none")

Start ==
    /\ pc = "init"
    /\ outstanding = {} /\ pending = 0
    /\ status = [q \in Queries |-> "destruction"]
    /\ records = {} /\ addresses = FALSE
    /\ late = FALSE
    /\ result = NoResult

Init == zone \in Zones /\ Start

-----------------------------------------------------------------------------
(* OnMxQuery and OnAddrInfo: the callback stores the status and, with a    *)
(* success, the records.  `n' of them lower the counter by `n'.            *)
CallBack(answered, to) ==
    /\ status' = [q \in Queries |-> IF q \in answered THEN to[q] ELSE status[q]]
    /\ records' = IF "mx" \in answered /\ to["mx"] = "success" THEN zone.mx ELSE records
    /\ addresses' = IF "addr" \in answered /\ to["addr"] = "success" THEN zone.addr ELSE addresses

Return(value) == pc' = "done" /\ result' = value

(* The library or the channel cannot be initialised.                       *)
InitFails ==
    /\ pc = "init"
    /\ \E s \in {"init_failed", "out_of_memory"} : Return(Failure(s))
    /\ UNCHANGED <<zone, states, late>>

(* ares_query_dnsrec accepts the query, which it may answer at once, or it *)
(* refuses it: then the counter stays, and whether the callback has run    *)
(* with the failure is up to c-ares.                                       *)
QueryMx ==
    /\ pc = "init" /\ pc' = "addr_query"
    /\ \/ /\ outstanding' = {"mx"} /\ pending' = pending + 1
          /\ UNCHANGED <<status, records, addresses>>
       \/ /\ \E s \in Answers("mx") \cup Transient : CallBack({"mx"}, [mx |-> s])
          /\ UNCHANGED <<outstanding, pending>>
       \/ /\ \E s \in Transient : CallBack({"mx"}, [mx |-> s])
          /\ pending' \in {pending, pending - 1}
          /\ UNCHANGED outstanding
    /\ UNCHANGED <<zone, late, result>>

(* pending++, then ares_getaddrinfo, which may answer at once.             *)
QueryAddresses ==
    /\ pc = "addr_query" /\ pc' = "loop"
    /\ \/ /\ outstanding' = outstanding \cup {"addr"} /\ pending' = pending + 1
          /\ UNCHANGED <<status, records, addresses>>
       \/ /\ \E s \in Answers("addr") \cup Transient : CallBack({"addr"}, [addr |-> s])
          /\ UNCHANGED <<outstanding, pending>>
    /\ UNCHANGED <<zone, late, result>>

-----------------------------------------------------------------------------
Looping == pc = "loop" /\ pending > 0

(* Mutant: after the deadline the loop makes another round.                *)
NeverTimesOut == Looping /\ late /\ UNCHANGED vars

TimesOut ==
    /\ Looping /\ late
    /\ pc' = "cancel" /\ result' = Failure("timeout")
    /\ UNCHANGED <<zone, states, late>>

PollFails ==
    /\ Looping /\ ~late
    /\ pc' = "cancel" /\ result' = Failure("poll_failed")
    /\ UNCHANGED <<zone, states, late>>

(* ares_process_fds calls back for the queries it has an answer for or has *)
(* given up, and may fail itself.  A round without an answer, and a poll   *)
(* interrupted by a signal, change nothing.                                *)
Process ==
    /\ Looping /\ ~late
    /\ \E answered \in SUBSET outstanding, to \in [Queries -> Statuses] :
          /\ \A q \in answered : to[q] \in Answers(q) \cup Transient
          /\ CallBack(answered, to)
          /\ outstanding' = outstanding \ answered
          /\ pending' = pending - Cardinality(answered)
    /\ \/ pc' = "loop" /\ UNCHANGED result
       \/ pc' = "cancel" /\ result' = Failure("servfail")
    /\ UNCHANGED <<zone, late>>

LeaveLoop ==
    /\ pc = "loop" /\ pending <= 0
    /\ pc' = "cancel"
    /\ UNCHANGED <<zone, states, late, result>>

(* Mutant: the channel lives on until the function returns.                *)
KeepChannel ==
    /\ pc = "cancel" /\ pc' = "judge"
    /\ UNCHANGED <<zone, states, late, result>>

(* channel.Reset() destroys the channel: c-ares calls back every query     *)
(* that is outstanding.                                                    *)
Cancel ==
    /\ pc = "cancel" /\ pc' = "judge"
    /\ CallBack(outstanding, [q \in Queries |-> "destruction"])
    /\ pending' = pending - Cardinality(outstanding)
    /\ outstanding' = {}
    /\ UNCHANGED <<zone, late, result>>

-----------------------------------------------------------------------------
Reason(s) ==
    CASE s = "not_found" -> "domain_not_found"
      [] s = "no_data" -> "no_records"
      [] OTHER -> s

AddrUnfinished == status["addr"] \notin {"success", "destruction", "not_found", "no_data"}

FailureReason ==
    IF status["mx"] = "no_data" /\ AddrUnfinished THEN Reason(status["addr"])
    ELSE IF status["mx"] # "success" THEN Reason(status["mx"])
    ELSE IF status["addr"] \notin {"success", "destruction"} THEN Reason(status["addr"])
    ELSE "no_records"

(* Mail hosts first (SelectMxHosts sorts them and drops the Null MX), then *)
(* the Null MX, then the addresses of the domain.                          *)
FromAnswers ==
    IF "host" \in records THEN Success({"host"})
    ELSE IF "null" \in records THEN Failure("null_mx")
    ELSE IF addresses THEN Success({"address"})
    ELSE Failure(FailureReason)

(* The checks after the loop: a loop that failed, a counter that does not  *)
(* come to zero, and then the answers.                                     *)
Judge ==
    /\ pc = "judge"
    /\ Return(IF result # NoResult THEN result
              ELSE IF pending # 0 THEN Failure("pending_incomplete")
              ELSE FromAnswers)
    /\ UNCHANGED <<zone, states, late>>

(* Time passes; the loop started its clock when it was entered.            *)
Tick ==
    /\ pc = "loop" /\ ~late /\ late' = TRUE
    /\ UNCHANGED <<zone, pc, states, result>>

Step ==
    \/ InitFails \/ QueryMx \/ QueryAddresses
    \/ TimesOut \/ PollFails \/ Process \/ LeaveLoop
    \/ Cancel \/ Judge

Stopped == pc = "done" /\ UNCHANGED vars

Next == Step \/ Tick \/ Stopped

Spec == Init /\ [][Next]_vars

-----------------------------------------------------------------------------
(* Types, and the counter: a refused query may leave it one too low.       *)
LookupTypeOK ==
    /\ zone \in Zones
    /\ pc \in {"init", "addr_query", "loop", "cancel", "judge", "done"}
    /\ outstanding \subseteq Queries
    /\ pending \in {Cardinality(outstanding), Cardinality(outstanding) - 1}
    /\ status \in [Queries -> Statuses]
    /\ records \subseteq zone.mx /\ addresses \in {FALSE, zone.addr}
    /\ late \in BOOLEAN
    /\ result.success \in BOOLEAN /\ result.hosts \subseteq {"host", "address"}

(* Queries are cancelled "so the states above are settled before use"      *)
(* (anofox_email_dns.cpp:555): no callback runs while or after the answers *)
(* are judged, whichever way the loop was left.                            *)
SettledBeforeUse == pc \in {"judge", "done"} => outstanding = {}

(* IsCacheableDnsResult: answers, not failures.                            *)
Cacheable(r) == r.success \/ r.reason \in {"domain_not_found", "no_records", "null_mx"}

(* "A Null MX record (RFC 7505) means the domain accepts no mail" (docs/   *)
(* api/01-email.md:223): such a domain is never reported as having mail    *)
(* hosts.                                                                  *)
NullMxRefused == pc = "done" /\ zone.mx = {"null"} => ~result.success
=============================================================================
