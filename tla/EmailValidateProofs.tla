------------------------ MODULE EmailValidateProofs -------------------------
(***************************************************************************)
(* Proofs about EmailValidate, the lookup and the SMTP check it runs, for  *)
(* any number of calls, mail hosts, addresses and reply lines, and any     *)
(* kinds of hosts.                                                         *)
(***************************************************************************)
EXTENDS EmailValidate, FiniteSetTheorems, SequenceTheorems, TLAPS

(* An answer of the dns stage that says the domain takes no mail.          *)
Negative(r) == ~r.success /\ r.reason \in {"domain_not_found", "no_records", "null_mx"}
Truthful(r) ==
    /\ Negative(r) => ~Lookup!AcceptsMail(zone)
    /\ r.success => NamesHosts(zone)

(* What a query that was answered says of the zone.                        *)
AnswersAreTrue ==
    /\ zone \in Lookup!Zones
    /\ status \in [Lookup!Queries -> Lookup!Statuses]
    /\ records \in {{}, zone.mx} /\ addresses \in {FALSE, zone.addr}
    /\ status["mx"] = "success" => records = zone.mx
    /\ status["mx"] \in {"not_found", "no_data"} => zone.mx = {}
    /\ status["mx"] = "not_found" => ~zone.addr
    /\ status["addr"] = "success" => addresses = zone.addr
    /\ status["addr"] \in {"not_found", "no_data"} => ~zone.addr

(* The counter is that of the queries c-ares has not called back, unless   *)
(* the MX query was refused.                                               *)
Refusal == "mx" \notin outstanding /\ status["mx"] \in Lookup!Transient

Counted ==
    /\ outstanding \subseteq Lookup!Queries
    /\ \/ pending = Cardinality(outstanding)
       \/ pending = Cardinality(outstanding) - 1 /\ Refusal
    /\ lookupPc = "init" =>
          outstanding = {} /\ pending = 0 /\ status = [q \in Lookup!Queries |-> "destruction"]
    /\ lookupPc = "addr_query" => outstanding \subseteq {"mx"}
    /\ lookupPc \in {"judge", "done"} => outstanding = {}

(* The addresses are judged when they are there, or with a refused MX      *)
(* query.                                                                  *)
AddressesAsked ==
    /\ lookupPc \in {"loop", "cancel"} => "addr" \in outstanding \/ status["addr"] # "destruction"
    /\ lookupPc = "cancel" /\ lookupResult = Lookup!NoResult => outstanding = {} \/ Refusal
    /\ lookupPc = "judge" /\ lookupResult = Lookup!NoResult => status["addr"] # "destruction" \/ Refusal

LoopFailures == {Lookup!Failure(r) : r \in {"timeout", "poll_failed", "servfail"}}

Results ==
    /\ lookupPc \in {"init", "addr_query", "loop", "cancel", "judge", "done"}
    /\ lookupPc \in {"init", "addr_query", "loop"} => lookupResult = Lookup!NoResult
    /\ lookupPc \in {"cancel", "judge"} => lookupResult \in LoopFailures \cup {Lookup!NoResult}
    /\ lookupPc = "done" => Truthful(lookupResult)

LookupInv == AnswersAreTrue /\ Counted /\ AddressesAsked /\ Results

(* What the domain is, and where the SMTP check has come to.               *)
SmtpInv ==
    /\ kind \in Seq(HostKinds \cup {"literal"}) /\ mailbox \in BOOLEAN
    /\ smtpPc \in {"next_host", "resolve", "connect", "send", "read", "done"}
    /\ host \in Nat \ {0} /\ stage \in 1..4
    /\ smtpPc \in {"resolve", "connect", "send", "read"} => host <= Len(kind)
    /\ smtpPc \in {"connect", "send", "read"} => kind[host] \in Smtp!Contactable
    /\ smtpPc = "done" =>
          \/ smtpResult = Smtp!Accepted /\ Smtp!Deliverable
          \/ ~smtpResult.success

Calls ==
    /\ pc \in {"idle", "resolve", "lookup", "smtp"}
    /\ pc = "lookup" => cached = Lookup!NoResult
    /\ pc # "smtp" => smtpPc = "next_host" /\ host = 1 /\ stage = 1
    /\ Truthful(cached)

IInv == LookupInv /\ SmtpInv /\ Calls /\ VerdictIsTrue
-----------------------------------------------------------------------------
(* The instance counts as this module does.                                *)
LEMMA LookupCardinality ==
  ASSUME NEW S
  PROVE  Lookup!Cardinality(S) = Cardinality(S)
BY DEF Lookup!Cardinality, Cardinality, Lookup!IsFiniteSet, IsFiniteSet

(* How many queries are outstanding.                                       *)
LEMMA QueryCounts ==
    /\ Cardinality({}) = 0 /\ Cardinality({"mx"}) = 1 /\ Cardinality({"addr"}) = 1
    /\ Cardinality({"mx", "addr"}) = 2
<1>1. Cardinality({}) = 0 /\ Cardinality({"mx"}) = 1 /\ Cardinality({"addr"}) = 1 /\ IsFiniteSet({"mx"})
  BY FS_EmptySet, FS_Singleton
<1>2. Cardinality({"mx"} \cup {"addr"}) = Cardinality({"mx"}) + 1
  BY <1>1, FS_AddElement
<1>3. {"mx"} \cup {"addr"} = {"mx", "addr"}
  OBVIOUS
<1> QED
  BY <1>1, <1>2, <1>3

LEMMA SetsOfQueries ==
  ASSUME NEW S, S \subseteq Lookup!Queries
  PROVE  S = {} \/ S = {"mx"} \/ S = {"addr"} \/ S = {"mx", "addr"}
BY DEF Lookup!Queries

(* Queries that are called back leave the others outstanding.              *)
LEMMA CountDown ==
  ASSUME NEW S, S \subseteq Lookup!Queries, NEW T, T \subseteq S
  PROVE  /\ Cardinality(S) \in 0..2 /\ (Cardinality(S) = 0 <=> S = {})
         /\ Cardinality(S \ T) = Cardinality(S) - Cardinality(T)
<1>1. T = {} \/ T = {"mx"} \/ T = {"addr"} \/ T = {"mx", "addr"}
  BY SetsOfQueries
<1>2. CASE S = {}
  <2>1. S \ T = {} /\ T = {}
    BY <1>2
  <2> QED
    BY <1>2, <2>1, QueryCounts
<1>3. CASE S = {"mx"} \/ S = {"addr"}
  <2>1. (T = {} /\ S \ T = S) \/ (T = S /\ S \ T = {})
    BY <1>3
  <2>2. Cardinality(S) = 1 /\ Cardinality({}) = 0 /\ S # {}
    BY <1>3, QueryCounts
  <2>3. \/ Cardinality(T) = 0 /\ Cardinality(S \ T) = 1
        \/ Cardinality(T) = 1 /\ Cardinality(S \ T) = 0
    BY <2>1, <2>2
  <2> QED
    BY <2>2, <2>3
<1>4. CASE S = {"mx", "addr"}
  <2>1. \/ T = {} /\ S \ T = S
        \/ T = S /\ S \ T = {}
        \/ T = {"mx"} /\ S \ T = {"addr"}
        \/ T = {"addr"} /\ S \ T = {"mx"}
    BY <1>1, <1>4
  <2>2. Cardinality(S) = 2 /\ S # {}
    BY <1>4, QueryCounts
  <2>3. \/ Cardinality(T) = 0 /\ Cardinality(S \ T) = 2
        \/ Cardinality(T) = 2 /\ Cardinality(S \ T) = 0
        \/ Cardinality(T) = 1 /\ Cardinality(S \ T) = 1
    BY <2>1, <2>2, QueryCounts
  <2> QED
    BY <2>2, <2>3
<1> QED
  BY <1>2, <1>3, <1>4, SetsOfQueries

(* A callback with a true answer or a failure says nothing false.          *)
LEMMA CallBackIsTrue ==
  ASSUME AnswersAreTrue, zone' = zone, NEW answered \in SUBSET Lookup!Queries, NEW to,
         \A q \in answered : to[q] \in Lookup!Answers(q) \cup Lookup!Transient \cup {"destruction"},
         Lookup!CallBack(answered, to)
  PROVE  AnswersAreTrue'
<1>1. zone \in [exists : BOOLEAN, mx : SUBSET {"host", "null"}, addr : BOOLEAN]
      /\ (zone.exists \/ (zone.mx = {} /\ ~zone.addr))
  BY DEF AnswersAreTrue, Lookup!Zones
<1>2. \A q \in answered : to[q] \in Lookup!Statuses
  BY DEF Lookup!Answers, Lookup!Nothing, Lookup!Transient, Lookup!Statuses
<1>3. status' \in [Lookup!Queries -> Lookup!Statuses]
  BY <1>2 DEF AnswersAreTrue, Lookup!CallBack
<1>4. "mx" \in answered =>
        /\ to["mx"] \in {"not_found", "no_data"} => zone.mx = {}
        /\ to["mx"] = "not_found" => ~zone.addr
  BY <1>1 DEF Lookup!Answers, Lookup!Nothing, Lookup!Transient
<1>5. "addr" \in answered => (to["addr"] \in {"not_found", "no_data"} => ~zone.addr)
  BY <1>1 DEF Lookup!Answers, Lookup!Nothing, Lookup!Transient
<1>6. /\ status'["mx"] = IF "mx" \in answered THEN to["mx"] ELSE status["mx"]
      /\ status'["addr"] = IF "addr" \in answered THEN to["addr"] ELSE status["addr"]
  BY DEF Lookup!CallBack, Lookup!Queries
<1>7. /\ records' = IF "mx" \in answered /\ to["mx"] = "success" THEN zone.mx ELSE records
      /\ addresses' = IF "addr" \in answered /\ to["addr"] = "success" THEN zone.addr ELSE addresses
  BY DEF Lookup!CallBack
<1> QED
  BY <1>3, <1>4, <1>5, <1>6, <1>7 DEF AnswersAreTrue

(* What a query that was refused, or never put, does not change.           *)
LEMMA AnswersStay ==
  ASSUME AnswersAreTrue, UNCHANGED <<zone, status, records, addresses>>
  PROVE  AnswersAreTrue'
BY DEF AnswersAreTrue

(* The answers, once both are settled, are judged truthfully.              *)
LEMMA JudgedTruthfully ==
  ASSUME AnswersAreTrue, status["addr"] # "destruction" \/ status["mx"] \in Lookup!Transient
  PROVE  Truthful(Lookup!FromAnswers)
<1> USE DEF Truthful, Negative, Lookup!FromAnswers, Lookup!AcceptsMail, NamesHosts
<1>1. CASE "host" \in records
  BY <1>1 DEF Lookup!Success, AnswersAreTrue
<1>2. CASE "host" \notin records /\ "null" \in records
  <2>1. records = zone.mx
    BY <1>2 DEF AnswersAreTrue
  <2> QED
    BY <1>2, <2>1 DEF Lookup!Failure
<1>3. CASE "host" \notin records /\ "null" \notin records /\ addresses
  BY <1>3 DEF Lookup!Success, AnswersAreTrue
<1>4. CASE "host" \notin records /\ "null" \notin records /\ ~addresses
  <2>1. Lookup!FromAnswers = Lookup!Failure(Lookup!FailureReason)
    BY <1>4
  <2>2. zone.mx \subseteq {"host", "null"} /\ zone.addr \in BOOLEAN
    BY DEF AnswersAreTrue, Lookup!Zones
  <2>3. status["addr"] \in {"not_found", "no_data", "success"} => ~zone.addr
    BY <1>4, <2>2 DEF AnswersAreTrue
  <2>4. status["mx"] \in {"not_found", "no_data", "success"} => zone.mx = {}
    BY <1>4, <2>2 DEF AnswersAreTrue
  <2>5. status["mx"] \in Lookup!Statuses /\ status["addr"] \in Lookup!Statuses
    BY DEF AnswersAreTrue, Lookup!Queries
  <2>6. Lookup!FailureReason \in {"domain_not_found", "no_records", "null_mx"} =>
          zone.mx = {} /\ ~zone.addr
    <3> USE <2>3, <2>4, <2>5 DEF Lookup!FailureReason, Lookup!Reason, Lookup!AddrUnfinished,
            Lookup!Statuses, Lookup!Transient
    <3>1. CASE status["mx"] = "not_found"
      BY <3>1 DEF AnswersAreTrue
    <3>2. CASE status["mx"] = "no_data"
      BY <3>2
    <3>3. CASE status["mx"] = "success"
      BY <3>3
    <3>4. CASE status["mx"] \in {"destruction", "timeout", "servfail"}
      BY <3>4
    <3> QED
      BY <3>1, <3>2, <3>3, <3>4
  <2> QED
    BY <2>1, <2>6 DEF Lookup!Failure
<1> QED
  BY <1>1, <1>2, <1>3, <1>4

(* The parts of the invariant for a step within the lookup.                *)
LEMMA LookupStepKeeps ==
  ASSUME LookupInv, Lookup!Step \/ Lookup!Tick
  PROVE  LookupInv'
<1> USE DEF LookupInv, Lookup!states
<1>1. CASE Lookup!InitFails
  <2>1. AnswersAreTrue' /\ Counted'
    BY <1>1, AnswersStay DEF Lookup!InitFails, Lookup!Return, Counted, Refusal, Results
  <2>2. Truthful(lookupResult)'
    BY <1>1 DEF Lookup!InitFails, Lookup!Return, Lookup!Failure, Truthful, Negative
  <2> QED
    BY <1>1, <2>1, <2>2 DEF Lookup!InitFails, Lookup!Return, AddressesAsked, Results
<1>2. CASE Lookup!QueryMx
  <2>1. /\ lookupPc = "init" /\ lookupPc' = "addr_query" /\ UNCHANGED <<zone, lookupResult>>
        /\ outstanding = {} /\ pending = 0
    BY <1>2 DEF Lookup!QueryMx, Counted
  <2>2. CASE outstanding' = {"mx"} /\ pending' = pending + 1 /\ UNCHANGED <<status, records, addresses>>
    <3>1. AnswersAreTrue'
      BY <2>1, <2>2, AnswersStay
    <3>2. Counted'
      <4>1. Cardinality(outstanding') = 1 /\ pending' = 1
        BY <2>1, <2>2, QueryCounts
      <4> QED
        BY <2>1, <2>2, <4>1 DEF Counted, Lookup!Queries
    <3> QED
      BY <2>1, <3>1, <3>2 DEF AddressesAsked, Results
  <2>3. ASSUME NEW s \in Lookup!Answers("mx") \cup Lookup!Transient,
               Lookup!CallBack({"mx"}, [mx |-> s]), UNCHANGED outstanding,
               pending' = pending \/ (pending' = pending - 1 /\ s \in Lookup!Transient)
        PROVE  LookupInv'
    <3>1. AnswersAreTrue'
      <4>1. {"mx"} \in SUBSET Lookup!Queries /\ [mx |-> s].mx = s
        BY DEF Lookup!Queries
      <4> QED
        BY <2>1, <2>3, <4>1, CallBackIsTrue
    <3>2. status'["mx"] = s
      BY <2>3 DEF Lookup!CallBack, Lookup!Queries
    <3>3. Counted'
      <4>1. Cardinality(outstanding') = 0 /\ pending = 0
        BY <2>1, <2>3, QueryCounts
      <4> QED
        BY <2>1, <2>3, <3>2, <4>1 DEF Counted, Refusal, Lookup!Queries
    <3> QED
      BY <2>1, <3>1, <3>3 DEF AddressesAsked, Results
  <2> QED
    BY <1>2, <2>2, <2>3 DEF Lookup!QueryMx
<1>3. CASE Lookup!QueryAddresses
  <2>1. /\ lookupPc = "addr_query" /\ lookupPc' = "loop" /\ UNCHANGED <<zone, lookupResult>>
        /\ outstanding \subseteq {"mx"}
    BY <1>3 DEF Lookup!QueryAddresses, Counted
  <2>2. CASE /\ outstanding' = outstanding \cup {"addr"} /\ pending' = pending + 1
             /\ UNCHANGED <<status, records, addresses>>
    <3>1. AnswersAreTrue'
      BY <2>1, <2>2, AnswersStay
    <3>2. Cardinality(outstanding') = Cardinality(outstanding) + 1 /\ Cardinality(outstanding) \in Nat
      <4>1. IsFiniteSet(outstanding)
        BY <2>1, FS_Singleton, FS_Subset
      <4> QED
        BY <2>1, <2>2, <4>1, FS_AddElement, FS_CardinalityType
    <3>3. Counted'
      BY <2>1, <2>2, <3>2 DEF Counted, Refusal, Lookup!Queries
    <3> QED
      BY <2>1, <2>2, <3>1, <3>3 DEF AddressesAsked, Results
  <2>3. ASSUME NEW s \in Lookup!Answers("addr") \cup Lookup!Transient,
               Lookup!CallBack({"addr"}, [addr |-> s]), UNCHANGED <<outstanding, pending>>
        PROVE  LookupInv'
    <3>1. AnswersAreTrue'
      <4>1. {"addr"} \in SUBSET Lookup!Queries /\ [addr |-> s].addr = s
        BY DEF Lookup!Queries
      <4> QED
        BY <2>1, <2>3, <4>1, CallBackIsTrue
    <3>2. status'["addr"] = s /\ status'["mx"] = status["mx"]
      BY <2>3 DEF Lookup!CallBack, Lookup!Queries
    <3>3. s # "destruction"
      BY DEF Lookup!Answers, Lookup!Nothing, Lookup!Transient
    <3>4. Counted'
      BY <2>1, <2>3, <3>2 DEF Counted, Refusal
    <3> QED
      BY <2>1, <3>1, <3>2, <3>3, <3>4 DEF AddressesAsked, Results
  <2> QED
    BY <1>3, <2>2, <2>3 DEF Lookup!QueryAddresses
<1>4. CASE Lookup!TimesOut \/ Lookup!PollFails \/ Lookup!Tick
  <2>1. UNCHANGED <<zone, outstanding, pending, status, records, addresses>>
    BY <1>4 DEF Lookup!TimesOut, Lookup!PollFails, Lookup!Tick
  <2>2. /\ lookupPc = "loop"
        /\ \/ lookupPc' = "cancel" /\ lookupResult' \in LoopFailures
           \/ lookupPc' = lookupPc /\ lookupResult' = lookupResult
    BY <1>4 DEF Lookup!TimesOut, Lookup!PollFails, Lookup!Tick, Lookup!Looping, LoopFailures
  <2>3. \A r \in LoopFailures : r # Lookup!NoResult
    BY DEF LoopFailures, Lookup!Failure, Lookup!NoResult
  <2>4. AnswersAreTrue' /\ Counted'
    BY <2>1, <2>2, AnswersStay DEF Counted, Refusal
  <2> QED
    BY <2>1, <2>2, <2>3, <2>4 DEF AddressesAsked, Results
<1>5. CASE Lookup!Process
  <2>1. PICK answered \in SUBSET outstanding, to \in [Lookup!Queries -> Lookup!Statuses] :
          /\ \A q \in answered : to[q] \in Lookup!Answers(q) \cup Lookup!Transient
          /\ Lookup!CallBack(answered, to)
          /\ outstanding' = outstanding \ answered
          /\ pending' = pending - Cardinality(answered)
    BY <1>5, LookupCardinality DEF Lookup!Process
  <2>2. /\ lookupPc = "loop" /\ pending > 0 /\ UNCHANGED zone
        /\ \/ lookupPc' = "cancel" /\ lookupResult' = Lookup!Failure("servfail")
           \/ lookupPc' = "loop" /\ lookupResult' = lookupResult
    BY <1>5 DEF Lookup!Process, Lookup!Looping
  <2>3. answered \in SUBSET Lookup!Queries /\ outstanding \subseteq Lookup!Queries
    BY DEF Counted
  <2>4. AnswersAreTrue'
    BY <2>1, <2>2, <2>3, CallBackIsTrue
  <2>5. /\ Cardinality(outstanding') = Cardinality(outstanding) - Cardinality(answered)
        /\ Cardinality(outstanding) \in 0..2 /\ Cardinality(answered) \in 0..2
    BY <2>1, <2>3, CountDown
  <2>6. /\ "mx" \notin answered => status'["mx"] = status["mx"]
        /\ "addr" \notin answered => status'["addr"] = status["addr"]
        /\ "addr" \in answered => status'["addr"] # "destruction"
    BY <2>1 DEF Lookup!CallBack, Lookup!Queries, Lookup!Answers, Lookup!Nothing, Lookup!Transient
  <2>7. Refusal => Refusal'
    BY <2>1, <2>6 DEF Refusal
  <2>8. Counted'
    BY <2>1, <2>2, <2>3, <2>5, <2>7 DEF Counted
  <2>9. Lookup!Failure("servfail") # Lookup!NoResult
    BY DEF Lookup!Failure, Lookup!NoResult
  <2>10. AddressesAsked' /\ Results'
    BY <2>1, <2>2, <2>6, <2>9 DEF AddressesAsked, Results, LoopFailures
  <2> QED
    BY <2>4, <2>8, <2>10
<1>6. CASE Lookup!LeaveLoop
  <2>1. /\ lookupPc = "loop" /\ pending <= 0 /\ lookupPc' = "cancel"
        /\ UNCHANGED <<zone, outstanding, pending, status, records, addresses, lookupResult>>
    BY <1>6 DEF Lookup!LeaveLoop
  <2>2. AnswersAreTrue' /\ Counted'
    BY <2>1, AnswersStay DEF Counted, Refusal
  <2>3. outstanding = {} \/ Refusal
    <3>1. Cardinality(outstanding) \in 0..2 /\ (Cardinality(outstanding) = 0 <=> outstanding = {})
      BY CountDown DEF Counted
    <3> QED
      BY <2>1, <3>1 DEF Counted
  <2> QED
    BY <2>1, <2>2, <2>3 DEF AddressesAsked, Results, Refusal
<1>7. CASE Lookup!Cancel
  <2>1. /\ lookupPc = "cancel" /\ lookupPc' = "judge" /\ UNCHANGED <<zone, lookupResult>>
        /\ Lookup!CallBack(outstanding, [q \in Lookup!Queries |-> "destruction"])
        /\ pending' = pending - Cardinality(outstanding) /\ outstanding' = {}
    BY <1>7, LookupCardinality DEF Lookup!Cancel
  <2>2. AnswersAreTrue'
    <3>1. outstanding \in SUBSET Lookup!Queries
      BY DEF Counted
    <3>2. \A q \in outstanding : [p \in Lookup!Queries |-> "destruction"][q] = "destruction"
      BY <3>1
    <3> QED
      BY <2>1, <3>1, <3>2, CallBackIsTrue
  <2>3. /\ "mx" \notin outstanding => status'["mx"] = status["mx"]
        /\ "addr" \notin outstanding => status'["addr"] = status["addr"]
    BY <2>1 DEF Lookup!CallBack, Lookup!Queries
  <2>4. Refusal => Refusal'
    BY <2>1, <2>3 DEF Refusal
  <2>5. Counted'
    <3>1. Cardinality(outstanding) \in 0..2 /\ Cardinality({}) = 0
      BY CountDown, QueryCounts DEF Counted
    <3> QED
      BY <2>1, <2>4, <3>1 DEF Counted
  <2>6. AddressesAsked' /\ Results'
    BY <2>1, <2>3, <2>4 DEF AddressesAsked, Results
  <2> QED
    BY <2>2, <2>5, <2>6
<1>8. CASE Lookup!Judge
  <2>1. /\ lookupPc = "judge" /\ lookupPc' = "done"
        /\ UNCHANGED <<zone, outstanding, pending, status, records, addresses>>
        /\ lookupResult' = IF lookupResult # Lookup!NoResult THEN lookupResult
                           ELSE IF pending # 0 THEN Lookup!Failure("pending_incomplete")
                           ELSE Lookup!FromAnswers
    BY <1>8 DEF Lookup!Judge, Lookup!Return
  <2>2. AnswersAreTrue' /\ Counted'
    BY <2>1, AnswersStay DEF Counted, Refusal
  <2>3. Truthful(lookupResult')
    <3>1. CASE lookupResult # Lookup!NoResult
      BY <2>1, <3>1 DEF Results, LoopFailures, Lookup!Failure, Truthful, Negative
    <3>2. CASE lookupResult = Lookup!NoResult /\ pending # 0
      BY <2>1, <3>2 DEF Lookup!Failure, Truthful, Negative
    <3>3. CASE lookupResult = Lookup!NoResult /\ ~(pending # 0)
      <4>1. status["addr"] # "destruction" \/ status["mx"] \in Lookup!Transient
        BY <2>1, <3>3 DEF AddressesAsked, Refusal
      <4> QED
        BY <2>1, <3>3, <4>1, JudgedTruthfully
    <3> QED
      BY <3>1, <3>2, <3>3
  <2>4. Truthful(lookupResult)'
    BY <2>1, <2>3 DEF Truthful, Lookup!AcceptsMail, NamesHosts
  <2> QED
    BY <2>1, <2>2, <2>4 DEF AddressesAsked, Results
<1> QED
  BY <1>1, <1>2, <1>3, <1>4, <1>5, <1>6, <1>7, <1>8 DEF Lookup!Step

-----------------------------------------------------------------------------
(* A host that is given up: the mailbox is refused, or the next host is    *)
(* tried.                                                                  *)
LEMMA AttemptFailsKeeps ==
  ASSUME SmtpInv, UNCHANGED <<kind, mailbox>>, stage' \in 1..4, NEW reason, Smtp!AttemptFails(reason)
  PROVE  SmtpInv'
<1>1. \/ smtpPc' = "done" /\ ~smtpResult'.success /\ UNCHANGED host
      \/ smtpPc' = "next_host" /\ host' = host + 1
  BY DEF Smtp!AttemptFails, Smtp!Return, Smtp!Refused
<1> QED
  BY <1>1 DEF SmtpInv

(* No step of the SMTP check ends it with an acceptance that is not so.    *)
LEMMA SmtpStepKeeps ==
  ASSUME SmtpInv, Smtp!Step \/ Smtp!Tick
  PROVE  SmtpInv'
<1> USE DEF SmtpInv, Smtp!truth, Smtp!history
<1>0. kind' = kind /\ mailbox' = mailbox
  BY DEF Smtp!Step, Smtp!NextHost, Smtp!Resolve, Smtp!SocketFails, Smtp!Connect, Smtp!Send, Smtp!ReadFails,
         Smtp!BadLine, Smtp!ContinuationLine, Smtp!Reply, Smtp!Tick
<1>1. ASSUME NEW reason, Smtp!AttemptFails(reason), UNCHANGED stage
      PROVE  SmtpInv'
  BY <1>0, <1>1, AttemptFailsKeeps
<1>2. ASSUME UNCHANGED host, stage' \in 1..4, smtpPc' # "done",
             smtpPc' \in {"next_host", "resolve", "connect", "send", "read"},
             smtpPc' \in {"resolve", "connect", "send", "read"} => host <= Len(kind),
             smtpPc' \in {"connect", "send", "read"} => kind[host] \in Smtp!Contactable
      PROVE  SmtpInv'
  BY <1>0, <1>2
<1>3. CASE Smtp!NextHost
  <2>1. UNCHANGED stage
    BY <1>3 DEF Smtp!NextHost
  <2>2. ASSUME NEW reason, Smtp!Return(Smtp!Refused(reason)), UNCHANGED host
        PROVE  SmtpInv'
    <3>1. smtpPc' = "done" /\ ~smtpResult'.success
      BY <2>2 DEF Smtp!Return, Smtp!Refused
    <3> QED
      BY <1>0, <2>1, <2>2, <3>1
  <2>3. CASE smtpPc' = "resolve" /\ host <= Len(kind) /\ UNCHANGED host
    BY <1>2, <2>1, <2>3
  <2> QED
    BY <1>1, <1>3, <2>1, <2>2, <2>3 DEF Smtp!NextHost
<1>4. CASE Smtp!Resolve
  <2>1. UNCHANGED stage /\ smtpPc = "resolve"
    BY <1>4 DEF Smtp!Resolve
  <2>2. CASE Smtp!Resolved
    BY <1>2, <2>1, <2>2 DEF Smtp!Resolved
  <2> QED
    BY <1>1, <1>4, <2>1, <2>2 DEF Smtp!Resolve, Smtp!NotResolved, Smtp!TooLateToResolve
<1>5. CASE Smtp!SocketFails
  <2>1. UNCHANGED stage /\ smtpPc = "connect"
    BY <1>5 DEF Smtp!SocketFails
  <2>2. CASE UNCHANGED <<smtpPc, host>>
    BY <1>2, <2>1, <2>2
  <2> QED
    BY <1>1, <1>5, <2>1, <2>2 DEF Smtp!SocketFails
<1>6. CASE Smtp!Connect \/ Smtp!Send
  <2>1. smtpPc \in {"connect", "send"}
    BY <1>6 DEF Smtp!Connect, Smtp!Send
  <2>2. CASE smtpPc' = "read" /\ stage' \in {1, stage} /\ UNCHANGED host
    BY <1>2, <2>1, <2>2
  <2> QED
    BY <1>1, <1>6, <2>2 DEF Smtp!Connect, Smtp!Send
<1>7. CASE Smtp!ReadFails \/ Smtp!BadLine
  BY <1>1, <1>7 DEF Smtp!ReadFails, Smtp!BadLine
<1>8. CASE Smtp!ContinuationLine
  BY <1>2, <1>8 DEF Smtp!ContinuationLine, Smtp!Reading
<1>9. CASE Smtp!Tick
  <2>1. UNCHANGED <<kind, mailbox, smtpPc, host, stage, smtpResult>>
    BY <1>9 DEF Smtp!Tick
  <2> QED
    BY <2>1 DEF Smtp!Deliverable
<1>10. CASE Smtp!Reply
  <2>1. smtpPc = "read" /\ host \in DOMAIN kind /\ kind[host] \in Smtp!Contactable
    BY <1>10 DEF Smtp!Reply, Smtp!Reading
  <2>2. PICK class \in Smtp!ReplyClasses :
          IF Smtp!Stages[stage] # "rcpt"
          THEN \/ /\ class = 2 /\ smtpPc' = "send" /\ stage' = stage + 1
                  /\ UNCHANGED host
               \/ Smtp!AttemptFails(Smtp!StageRejected) /\ UNCHANGED stage
          ELSE /\ UNCHANGED stage
               /\ IF Smtp!RcptReason(class) = "none"
                  THEN Smtp!Return(Smtp!Accepted) /\ UNCHANGED host
                  ELSE Smtp!AttemptFails(Smtp!RcptReason(class))
    BY <1>10 DEF Smtp!Reply
  <2>3. /\ Smtp!Stages[1] = "greeting" /\ Smtp!Stages[2] = "helo"
        /\ Smtp!Stages[3] = "mail_from" /\ Smtp!Stages[4] = "rcpt"
    BY DEF Smtp!Stages
  <2>4. CASE Smtp!Stages[stage] # "rcpt"
    <3>1. stage \in 1..3
      BY <2>3, <2>4
    <3> QED
      BY <1>1, <1>2, <2>1, <2>2, <2>4, <3>1
  <2>5. CASE ~(Smtp!Stages[stage] # "rcpt") /\ Smtp!RcptReason(class) = "none"
    <3>1. mailbox
      BY <2>2, <2>5 DEF Smtp!ReplyClasses, Smtp!RcptReason
    <3>2. smtpPc' = "done" /\ smtpResult' = Smtp!Accepted /\ UNCHANGED <<host, stage>>
      BY <2>2, <2>5 DEF Smtp!Return
    <3>3. Smtp!Deliverable'
      BY <1>0, <2>1, <3>1 DEF Smtp!Deliverable
    <3> QED
      BY <1>0, <3>2, <3>3
  <2>6. CASE ~(Smtp!Stages[stage] # "rcpt") /\ Smtp!RcptReason(class) # "none"
    BY <1>1, <2>2, <2>6
  <2> QED
    BY <2>4, <2>5, <2>6
<1> QED
  BY <1>3, <1>4, <1>5, <1>6, <1>7, <1>8, <1>9, <1>10 DEF Smtp!Step

-----------------------------------------------------------------------------
LEMMA InitIInv == Init => IInv
<1> SUFFICES ASSUME Init PROVE IInv
  OBVIOUS
<1>1. /\ zone \in Lookup!Zones /\ lookupPc = "init" /\ outstanding = {} /\ pending = 0
      /\ status = [q \in Lookup!Queries |-> "destruction"] /\ records = {} /\ addresses = FALSE
      /\ lookupResult = Lookup!NoResult
  BY DEF Init, Lookup!Start
<1>2. AnswersAreTrue
  BY <1>1 DEF AnswersAreTrue, Lookup!Queries, Lookup!Statuses, Lookup!Zones
<1>3. Counted /\ AddressesAsked /\ Results
  BY <1>1, QueryCounts DEF Counted, AddressesAsked, Results
<1>4. SmtpInv
  <2>1. /\ mailbox = FALSE /\ kind = <<>> /\ smtpPc = "next_host" /\ host = 1 /\ stage = 1
    BY DEF Init, Smtp!Start
  <2>3. kind \in Seq(HostKinds \cup {"literal"})
    BY <2>1
  <2>4. host \in Nat \ {0} /\ stage \in 1..4
    BY <2>1
  <2>6. mailbox \in BOOLEAN
    BY <2>1, Zenon
  <2>5. /\ smtpPc \in {"next_host", "resolve", "connect", "send", "read", "done"}
        /\ smtpPc \notin {"resolve", "connect", "send", "read", "done"}
    BY <2>1
  <2> QED
    BY <2>3, <2>4, <2>5, <2>6 DEF SmtpInv
<1>5. Truthful(Lookup!NoResult)
  BY DEF Truthful, Negative, Lookup!NoResult, Lookup!Failure
<1>6. Calls
  BY <1>5 DEF Init, Calls, Smtp!Start
<1>7. VerdictIsTrue
  BY DEF Init, VerdictIsTrue, Returned
<1> QED
  BY <1>2, <1>3, <1>4, <1>6, <1>7 DEF IInv, LookupInv

(* What the lookup, the SMTP check and the cache hold is as true after a   *)
(* step of another part.                                                   *)
LEMMA LookupStays == LookupInv /\ UNCHANGED <<zone, lookupVars>> => LookupInv'
<1> SUFFICES ASSUME LookupInv, UNCHANGED <<zone, lookupVars>> PROVE LookupInv'
  OBVIOUS
<1>1. UNCHANGED <<zone, lookupPc, outstanding, pending, status, records, addresses, lookupResult>>
  BY DEF lookupVars
<1>2. AnswersAreTrue'
  BY <1>1, AnswersStay DEF LookupInv
<1>3. Counted' /\ AddressesAsked'
  BY <1>1 DEF LookupInv, Counted, Refusal, AddressesAsked
<1>4. Results'
  BY <1>1 DEF LookupInv, Results, Truthful, Lookup!AcceptsMail, NamesHosts
<1> QED
  BY <1>2, <1>3, <1>4 DEF LookupInv

LEMMA SmtpStays == SmtpInv /\ UNCHANGED <<mailbox, kind, smtpVars>> => SmtpInv'
BY DEF SmtpInv, smtpVars, Smtp!Deliverable

(* An SMTP check that starts from nothing, for any hosts.                  *)
LEMMA SmtpStarts ==
  ASSUME kind' \in Seq(HostKinds \cup {"literal"}), mailbox' \in BOOLEAN, smtpPc' = "next_host",
         host' = 1, stage' = 1
  PROVE  SmtpInv'
BY DEF SmtpInv

(* The answer of the dns stage is a verdict that is true.                  *)
LEMMA AfterLookupKeeps ==
  ASSUME NEW answer, Truthful(answer), zone' = zone, AfterLookup(answer)
  PROVE  VerdictIsTrue'
<1>1. CASE pc' = "smtp"
  BY <1>1 DEF VerdictIsTrue, Returned
<1>2. CASE ~answer.success /\ Finish(Verdict("dns", FALSE, answer.reason))
  <2>1. verdict'.stage = "dns" /\ ~verdict'.valid /\ verdict'.reason = answer.reason
    BY <1>2 DEF Finish, Verdict
  <2>2. Valid(verdict)' = "false" /\ ProperAddress' => Negative(answer)
    BY <1>2, <2>1 DEF Valid, Definite, ProperAddress, Negative
  <2>3. ~Lookup!AcceptsMail(zone) => ~Lookup!AcceptsMail(zone')
    OBVIOUS
  <2>4. Valid(verdict)' # "true"
    BY <2>1 DEF Valid
  <2> QED
    BY <2>1, <2>2, <2>3, <2>4 DEF VerdictIsTrue, Truthful, Lookup!AcceptsMail
<1>3. CASE answer.success /\ Finish(Verdict("dns", TRUE, "none"))
  <2>1. NamesHosts(zone)'
    BY <1>3 DEF Truthful, NamesHosts
  <2> QED
    BY <1>3, <2>1 DEF Finish, Verdict, Valid, VerdictIsTrue
<1> QED
  BY <1>1, <1>2, <1>3 DEF AfterLookup

(* The hosts a lookup names.                                               *)
LEMMA HostsAreSequences ==
  ASSUME NEW answer
  PROVE  NamedHosts(answer) \subseteq Seq(HostKinds \cup {"literal"})
<1>1. \A K, k : k \in Smtp!HostLists(K) => \E n \in 1..MaxHosts : k \in [1..n -> K]
  BY DEF Smtp!HostLists
<1>2. 1..MaxHosts \subseteq Nat
  BY EmailAssumption
<1>3. SUFFICES ASSUME NEW k \in NamedHosts(answer) PROVE k \in Seq(HostKinds \cup {"literal"})
  OBVIOUS
<1>4. PICK n \in Nat : k \in [1..n -> HostKinds] \/ k \in [1..n -> {"literal"}]
  BY <1>1, <1>2 DEF NamedHosts
<1>5. k \in [1..n -> HostKinds \cup {"literal"}]
  BY <1>4
<1> QED
  BY <1>5, SeqDef

LEMMA NextIInv == IInv /\ [Next]_vars => IInv'
<1> SUFFICES ASSUME IInv, [Next]_vars PROVE IInv'
  OBVIOUS
<1> USE DEF IInv
<1>1. CASE Call
  <2>1. /\ pc = "idle" /\ mailbox' = FALSE /\ kind' = <<>>
        /\ UNCHANGED <<cached, zone, lookupVars, smtpVars>>
    BY <1>1 DEF Call
  <2>2. LookupInv'
    BY <2>1, LookupStays
  <2>3. /\ smtpPc' = "next_host" /\ host' = 1 /\ stage' = 1
    BY <2>1 DEF Calls, smtpVars
  <2>4. SmtpInv'
    <3>1. kind' \in Seq(HostKinds \cup {"literal"})
      BY <2>1
    <3>2. mailbox' \in BOOLEAN
      BY <2>1, Zenon
    <3> QED
      BY <2>3, <3>1, <3>2, SmtpStarts
  <2>5. PICK address, pattern : \/ Finish(NoVerdict) \/ Syntax(address, pattern)
    BY <1>1 DEF Call
  <2>6. \/ Finish(NoVerdict)
        \/ Finish(ValidateRegex(address, pattern))
        \/ Unresolvable(address) # "none" /\ Finish(Verdict("dns", FALSE, Unresolvable(address)))
        \/ pc' = "resolve"
    BY <2>5 DEF Syntax
  <2>7. Calls'
    BY <2>1, <2>3, <2>6 DEF Calls, Finish, Truthful, Lookup!AcceptsMail, NamesHosts
  <2>8. VerdictIsTrue'
    <3>1. CASE pc' = "resolve" \/ Finish(NoVerdict)
      BY <3>1 DEF VerdictIsTrue, Returned, Finish
    <3>2. CASE Finish(ValidateRegex(address, pattern))
      <4>1. verdict'.stage = "regex"
        BY <3>2 DEF Finish, ValidateRegex, Verdict
      <4> QED
        BY <4>1 DEF VerdictIsTrue
    <3>3. CASE Unresolvable(address) # "none" /\ Finish(Verdict("dns", FALSE, Unresolvable(address)))
      <4>1. /\ verdict'.stage = "dns" /\ ~verdict'.valid
            /\ verdict'.reason \in {"resolution_failed", "reserved_domain"}
        BY <3>3 DEF Finish, Verdict, Unresolvable
      <4> QED
        BY <4>1 DEF VerdictIsTrue, ProperAddress, Valid
    <3> QED
      BY <2>6, <3>1, <3>2, <3>3
  <2> QED
    BY <2>2, <2>4, <2>7, <2>8
<1>2. CASE ResolveUncached
  <2>1. /\ cached' = Lookup!NoResult /\ pc = "resolve" /\ pc' = "lookup"
        /\ UNCHANGED <<verdict, zone, lookupVars, mailVars, smtpVars>>
    BY <1>2 DEF ResolveUncached
  <2>2. LookupInv' /\ SmtpInv'
    BY <2>1, LookupStays, SmtpStays DEF mailVars
  <2> QED
    BY <2>1, <2>2 DEF Calls, VerdictIsTrue, Returned, Truthful, Negative, Lookup!NoResult, Lookup!Failure, smtpVars
<1>3. CASE LookupStep
  <2>1. /\ pc = "lookup" /\ UNCHANGED <<call, cached, mailVars, smtpVars>>
        /\ Lookup!Step \/ Lookup!Tick
    BY <1>3 DEF LookupStep
  <2>2. UNCHANGED zone
    BY <2>1 DEF Lookup!Step, Lookup!Tick, Lookup!InitFails, Lookup!QueryMx, Lookup!QueryAddresses,
       Lookup!TimesOut, Lookup!PollFails, Lookup!Process, Lookup!LeaveLoop, Lookup!Cancel, Lookup!Judge
  <2>3. LookupInv' /\ SmtpInv'
    BY <2>1, LookupStepKeeps, SmtpStays DEF mailVars
  <2> QED
    BY <2>1, <2>2, <2>3 DEF Calls, VerdictIsTrue, Returned, Truthful, Lookup!AcceptsMail, NamesHosts, smtpVars, call
<1>4. CASE SmtpStep
  <2>1. /\ pc = "smtp" /\ UNCHANGED <<call, cached, zone, lookupVars>>
        /\ Smtp!Step \/ Smtp!Tick
    BY <1>4 DEF SmtpStep
  <2>2. LookupInv' /\ SmtpInv'
    BY <2>1, LookupStays, SmtpStepKeeps
  <2> QED
    BY <2>1, <2>2 DEF Calls, VerdictIsTrue, Returned, Truthful, Lookup!AcceptsMail, NamesHosts, call
<1>5. ASSUME NEW answer, Truthful(answer), AfterLookup(answer), Store(answer),
             UNCHANGED zone, cached = Lookup!NoResult, pc # "smtp", UNCHANGED smtpVars
      PROVE  SmtpInv' /\ Calls' /\ VerdictIsTrue'
  <2>1. VerdictIsTrue'
    BY <1>5, AfterLookupKeeps
  <2>2. pc' \in {"idle", "smtp"}
    BY <1>5 DEF AfterLookup, Finish
  <2>3. /\ smtpPc' = "next_host" /\ host' = 1 /\ stage' = 1
    BY <1>5 DEF Calls, smtpVars
  <2>4. SmtpInv'
    <3>1. kind' \in Seq(HostKinds \cup {"literal"}) /\ mailbox' \in BOOLEAN
      BY <1>5, HostsAreSequences DEF AfterLookup, SmtpInv, mailVars
    <3> QED
      BY <2>3, <3>1, SmtpStarts
  <2>5. Truthful(cached')
    BY <1>5 DEF Store, Calls
  <2>6. Truthful(cached)'
    BY <1>5, <2>5 DEF Truthful, Lookup!AcceptsMail, NamesHosts
  <2> QED
    BY <2>1, <2>2, <2>3, <2>4, <2>5, <2>6 DEF Calls
<1>6. CASE EndLookup
  <2>1. /\ pc = "lookup" /\ lookupPc = "done" /\ ForgetLookup /\ UNCHANGED <<zone, smtpVars>>
        /\ AfterLookup(lookupResult) /\ Store(lookupResult)
    BY <1>6 DEF EndLookup
  <2>2. Truthful(lookupResult) /\ cached = Lookup!NoResult
    BY <2>1 DEF LookupInv, Results, Calls
  <2>3. SmtpInv' /\ Calls' /\ VerdictIsTrue'
    BY <1>5, <2>1, <2>2
  <2>4. LookupInv'
    <3>1. AnswersAreTrue'
      BY <2>1 DEF ForgetLookup, LookupInv, AnswersAreTrue, Lookup!Queries, Lookup!Statuses, Lookup!Zones
    <3>2. Counted' /\ AddressesAsked' /\ Results'
      BY <2>1, QueryCounts DEF ForgetLookup, Counted, AddressesAsked, Results
    <3> QED
      BY <3>1, <3>2 DEF LookupInv
  <2> QED
    BY <2>3, <2>4
<1>7. CASE UseCached
  <2>1. /\ pc = "resolve" /\ cached # Lookup!NoResult /\ AfterLookup(cached)
        /\ UNCHANGED <<cached, zone, lookupVars, smtpVars>>
    BY <1>7 DEF UseCached, Cached
  <2>2. LookupInv' /\ VerdictIsTrue'
    BY <2>1, LookupStays, AfterLookupKeeps DEF Calls
  <2>3. pc' \in {"idle", "smtp"}
    BY <2>1 DEF AfterLookup, Finish
  <2>4. /\ smtpPc' = "next_host" /\ host' = 1 /\ stage' = 1
    BY <2>1 DEF Calls, smtpVars
  <2>5. SmtpInv'
    <3>1. kind' \in Seq(HostKinds \cup {"literal"}) /\ mailbox' \in BOOLEAN
      BY <2>1, HostsAreSequences DEF AfterLookup, SmtpInv, mailVars
    <3> QED
      BY <2>4, <3>1, SmtpStarts
  <2>6. Truthful(cached)'
    BY <2>1 DEF Calls, Truthful, Lookup!AcceptsMail, NamesHosts
  <2> QED
    BY <2>1, <2>2, <2>3, <2>4, <2>5, <2>6 DEF Calls
<1>8. CASE EndSmtp
  <2>1. /\ pc = "smtp" /\ smtpPc = "done" /\ ForgetSmtp
        /\ pc' = "idle" /\ verdict' = Verdict("smtp", smtpResult.success, smtpResult.reason)
        /\ UNCHANGED <<cached, zone, lookupVars, mailVars>>
    BY <1>8 DEF EndSmtp, Finish
  <2>2. LookupInv'
    BY <2>1, LookupStays
  <2>3. SmtpInv'
    BY <2>1, SmtpStarts DEF ForgetSmtp, SmtpInv, mailVars
  <2>4. Calls'
    BY <2>1 DEF Calls, ForgetSmtp, Truthful, Lookup!AcceptsMail, NamesHosts
  <2>5. VerdictIsTrue'
    <3>1. /\ verdict'.stage = "smtp" /\ verdict'.valid = smtpResult.success
          /\ verdict'.reason = smtpResult.reason
      BY <2>1 DEF Verdict
    <3>2. CASE smtpResult = Smtp!Accepted /\ Smtp!Deliverable
      <4>1. Valid(verdict)' = "true"
        BY <3>1, <3>2 DEF Valid, Smtp!Accepted
      <4>2. Smtp!Deliverable'
        BY <2>1, <3>2 DEF mailVars, Smtp!Deliverable
      <4> QED
        BY <3>1, <4>1, <4>2 DEF VerdictIsTrue
    <3>3. CASE ~smtpResult.success
      BY <3>1, <3>3 DEF Valid, VerdictIsTrue
    <3> QED
      BY <2>1, <3>2, <3>3 DEF SmtpInv
  <2> QED
    BY <2>2, <2>3, <2>4, <2>5
<1>9. CASE UNCHANGED vars
  <2>1. LookupInv' /\ SmtpInv'
    BY <1>9, LookupStays, SmtpStays DEF vars, mailVars
  <2> QED
    BY <1>9, <2>1 DEF vars, call, smtpVars, mailVars, Calls, Truthful, Lookup!AcceptsMail, NamesHosts, VerdictIsTrue, Returned,
       Valid, Definite, ProperAddress, Smtp!Deliverable
<1> QED
  BY <1>1, <1>2, <1>3, <1>4, <1>6, <1>7, <1>8, <1>9 DEF Next, Stopped
(* What the lookup, the SMTP check and the cache hold is true of the       *)
(* domain, in every reachable state.                                       *)
THEOREM InductiveInvariant == Spec => []IInv
BY InitIInv, NextIInv, PTL DEF Spec

(* VerdictIsTrue: `true', and `false' of the dns stage, are what the       *)
(* domain and the server said, whatever failed, timed out or was refused   *)
(* on the way, for any number of mail hosts and calls and a cache that may *)
(* forget at any time.                                                     *)
THEOREM VerdictIsTrueCorrect == Spec => []VerdictIsTrue
<1>1. IInv => VerdictIsTrue
  BY DEF IInv
<1> QED
  BY <1>1, InductiveInvariant, PTL

(* SettledBeforeUse: c-ares has called back every query before the answers *)
(* are judged.                                                             *)
THEOREM SettledBeforeUseCorrect == Spec => []SettledBeforeUse
<1>1. IInv => SettledBeforeUse
  BY DEF IInv, LookupInv, Counted, SettledBeforeUse, Lookup!SettledBeforeUse
<1> QED
  BY <1>1, InductiveInvariant, PTL

-----------------------------------------------------------------------------
(* Hosts are contacted by the SMTP check only.                             *)
Probing ==
    /\ pc # "smtp" => connected = {}
    /\ pc = "smtp" => upTo = "smtp" /\ NamesHosts(zone)

LEMMA ProbingStep == IInv /\ Probing /\ [Next]_vars => Probing'
<1> SUFFICES ASSUME IInv, Probing, [Next]_vars PROVE Probing'
  OBVIOUS
<1> USE DEF Probing, NamesHosts
<1>1. CASE Call
  BY <1>1 DEF Call, Finish, Syntax, smtpVars
<1>2. CASE ResolveUncached
  BY <1>2 DEF ResolveUncached, smtpVars
<1>3. CASE LookupStep
  BY <1>3 DEF LookupStep, call, smtpVars
<1>4. CASE SmtpStep
  BY <1>4 DEF SmtpStep, call
<1>5. ASSUME NEW answer, Truthful(answer), AfterLookup(answer), pc # "smtp", UNCHANGED <<connected, upTo, zone>>
      PROVE  Probing'
  BY <1>5 DEF AfterLookup, Finish, Truthful
<1>6. CASE EndLookup
  BY <1>5, <1>6 DEF EndLookup, smtpVars, IInv, LookupInv, Results
<1>7. CASE UseCached
  BY <1>5, <1>7 DEF UseCached, Cached, smtpVars, IInv, Calls
<1>8. CASE EndSmtp
  BY <1>8 DEF EndSmtp, Finish, ForgetSmtp
<1>9. CASE UNCHANGED vars
  BY <1>9 DEF vars, call, smtpVars
<1> QED
  BY <1>1, <1>2, <1>3, <1>4, <1>6, <1>7, <1>8, <1>9 DEF Next, Stopped

(* "No fallback SMTP probing of the raw domain" (issue 47): whatever a     *)
(* lookup fails with, no host of a domain that names none is contacted.    *)
THEOREM NoFallbackProbingCorrect == Spec => []NoFallbackProbing
<1>1. Init => Probing
  BY DEF Init, Probing, Smtp!Start
<1>2. Probing => NoFallbackProbing
  BY DEF Probing, NoFallbackProbing
<1> QED
  BY <1>1, <1>2, ProbingStep, InductiveInvariant, PTL DEF Spec

(* The attempts are a sequence, and a refusal of the mailbox is the last.  *)
RefusalInv ==
    /\ Len(attempts) \in Nat /\ attempts = [i \in 1..Len(attempts) |-> attempts[i]]
    /\ RefusalIsLast

(* One more attempt, while none has refused the mailbox.                   *)
LEMMA OneMoreAttempt ==
  ASSUME RefusalInv, smtpPc # "done", NEW reason, attempts' = Append(attempts, reason),
         reason = "recipient_rejected" => smtpPc' = "done"
  PROVE  RefusalInv'
<1> DEFINE S == {attempts[i] : i \in 1..Len(attempts)} \cup {reason}
<1>1. attempts \in Seq(S) /\ reason \in S
  <2>1. attempts \in [1..Len(attempts) -> S] /\ Len(attempts) \in Nat
    BY DEF RefusalInv
  <2> QED
    BY <2>1, SeqDef
<1> HIDE DEF S
<1>2. /\ attempts' \in Seq(S) /\ Len(attempts') = Len(attempts) + 1
      /\ \A i \in 1..Len(attempts) : attempts'[i] = attempts[i]
      /\ attempts'[Len(attempts) + 1] = reason
  BY <1>1, AppendProperties
<1>3. DOMAIN attempts = 1..Len(attempts) /\ DOMAIN attempts' = 1..Len(attempts')
  BY <1>1, <1>2, LenProperties
<1>4. \A i \in DOMAIN attempts : attempts[i] # "recipient_rejected"
  BY DEF RefusalInv, RefusalIsLast, Smtp!RefusalIsLast, Smtp!Done
<1>5. \A i \in DOMAIN attempts' : attempts'[i] = "recipient_rejected" => smtpPc' = "done" /\ i = Len(attempts')
  BY <1>1, <1>2, <1>3, <1>4, LenProperties
<1>6. Len(attempts') \in Nat /\ attempts' = [i \in 1..Len(attempts') |-> attempts'[i]]
  BY <1>2, LenProperties
<1> QED
  BY <1>5, <1>6 DEF RefusalInv, RefusalIsLast, Smtp!RefusalIsLast, Smtp!Done

(* A step of the SMTP check: it adds an attempt or none, and a check that  *)
(* has ended takes no step.                                                *)
LEMMA SmtpStepKeepsRefusal ==
  ASSUME RefusalInv, Smtp!Step \/ Smtp!Tick
  PROVE  RefusalInv'
<1>1. ASSUME smtpPc # "done", attempts' = attempts
      PROVE  RefusalInv'
  <2>1. \A i \in DOMAIN attempts : attempts[i] # "recipient_rejected"
    BY <1>1 DEF RefusalInv, RefusalIsLast, Smtp!RefusalIsLast, Smtp!Done
  <2> QED
    BY <1>1, <2>1 DEF RefusalInv, RefusalIsLast, Smtp!RefusalIsLast, Smtp!Done
<1>2. ASSUME smtpPc # "done", NEW reason, Smtp!AttemptFails(reason)
      PROVE  RefusalInv'
  BY <1>2, OneMoreAttempt DEF Smtp!AttemptFails, Smtp!Return
<1>3. ASSUME smtpPc # "done", attempts' = Append(attempts, "none")
      PROVE  RefusalInv'
  BY <1>3, OneMoreAttempt
<1>4. CASE Smtp!NextHost
  BY <1>1, <1>2, <1>4 DEF Smtp!NextHost
<1>5. CASE Smtp!Resolve
  BY <1>1, <1>2, <1>5 DEF Smtp!Resolve, Smtp!Resolved, Smtp!NotResolved, Smtp!TooLateToResolve
<1>6. CASE Smtp!SocketFails
  BY <1>1, <1>2, <1>6 DEF Smtp!SocketFails
<1>7. CASE Smtp!Connect
  BY <1>1, <1>2, <1>7 DEF Smtp!Connect
<1>8. CASE Smtp!Send
  BY <1>1, <1>2, <1>8 DEF Smtp!Send
<1>9. CASE Smtp!ReadFails \/ Smtp!BadLine
  BY <1>2, <1>9 DEF Smtp!ReadFails, Smtp!BadLine, Smtp!Reading
<1>10. CASE Smtp!ContinuationLine \/ Smtp!Tick
  BY <1>1, <1>10 DEF Smtp!ContinuationLine, Smtp!Tick, Smtp!Reading, Smtp!history
<1>11. CASE Smtp!Reply
  BY <1>1, <1>2, <1>3, <1>11 DEF Smtp!Reply, Smtp!Reading
<1> QED
  BY <1>4, <1>5, <1>6, <1>7, <1>8, <1>9, <1>10, <1>11 DEF Smtp!Step

(* Only the SMTP check and the end of it touch the attempts.               *)
LEMMA RefusalStep == RefusalInv /\ [Next]_vars => RefusalInv'
<1> SUFFICES ASSUME RefusalInv, [Next]_vars PROVE RefusalInv'
  OBVIOUS
<1>1. CASE UNCHANGED smtpVars
  BY <1>1 DEF RefusalInv, RefusalIsLast, Smtp!RefusalIsLast, Smtp!Done, smtpVars
<1>2. CASE SmtpStep
  BY <1>2, SmtpStepKeepsRefusal DEF SmtpStep
<1>3. CASE EndSmtp
  <2>1. attempts' = <<>>
    BY <1>3 DEF EndSmtp, ForgetSmtp
  <2> QED
    BY <2>1 DEF RefusalInv, RefusalIsLast, Smtp!RefusalIsLast
<1> QED
  BY <1>1, <1>2, <1>3
  DEF Next, vars, Call, UseCached, ResolveUncached, LookupStep, EndLookup, Stopped

(* "The other mail hosts of the domain are not asked" once one refused the *)
(* mailbox for good: no host is tried after a refusal, in any call.        *)
THEOREM RefusalIsLastCorrect == Spec => []RefusalIsLast
<1>1. Init => RefusalInv
  BY DEF Init, Smtp!Start, RefusalInv, RefusalIsLast, Smtp!RefusalIsLast
<1>2. RefusalInv => RefusalIsLast
  BY DEF RefusalInv
<1> QED
  BY <1>1, <1>2, RefusalStep, PTL DEF Spec
=============================================================================
