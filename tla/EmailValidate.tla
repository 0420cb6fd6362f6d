--------------------------- MODULE EmailValidate ----------------------------
(***************************************************************************)
(* email_validate and email_is_valid (src/src/anofox_email.cpp:            *)
(* ValidateEmailAddress and the two functions that call it) for a few      *)
(* addresses of one domain, one after the other: the syntax, the lookup of *)
(* the mail hosts behind the cache (DnsLookup), and the SMTP check of the  *)
(* mailbox (SmtpVerify).                                                   *)
(*                                                                         *)
(* An address is one of the classes the stages tell apart.  The entry of   *)
(* the cache may be gone whenever it is looked up; DnsCache has the rest   *)
(* of it.                                                                  *)
(***************************************************************************)
EXTENDS Integers, Sequences, FiniteSets

CONSTANTS
    MaxHosts, HostKinds, MaxEndpoints, MaxLines,    \* of SmtpVerify
    MaxRows         \* bound on the calls

ASSUME EmailAssumption ==
    /\ MaxHosts \in Nat \ {0} /\ MaxEndpoints \in Nat \ {0} /\ MaxLines \in Nat \ {0}
    /\ MaxRows \in Nat \ {0}

VARIABLES
    row,            \* calls so far
    pc,             \* stage of the call that runs
    upTo,           \* the mode it validates with
    verdict,        \* what it returned
    cached          \* the entry of the domain in DnsResultCache, or NoResult
VARIABLES zone, lookupPc, outstanding, pending, status, records, addresses, lookupLate, lookupResult
VARIABLES mailbox, kind, smtpPc, host, endpoints, stage, lines, smtpLate, lastReason, smtpResult,
          attempts, connected

lookupVars == <<lookupPc, outstanding, pending, status, records, addresses, lookupLate, lookupResult>>
mailVars == <<mailbox, kind>>
smtpVars == <<smtpPc, host, endpoints, stage, lines, smtpLate, lastReason, smtpResult, attempts, connected>>
call == <<row, pc, upTo, verdict>>
vars == <<call, cached, zone, lookupVars, mailVars, smtpVars>>

Lookup == INSTANCE DnsLookup WITH pc <- lookupPc, late <- lookupLate, result <- lookupResult
Smtp == INSTANCE SmtpVerify WITH pc <- smtpPc, late <- smtpLate, result <- smtpResult

-----------------------------------------------------------------------------
Modes == {"regex", "dns", "smtp"}
Unknown == "unknown"

(* SET accepts these and their alias and refuses any other value, NULL     *)
(* too; of a pattern it refuses what RE2 cannot compile.                   *)
Patterns == {"default", "any"}

(* NormalizeValidationMode, up to blanks and letter case; an unknown mode  *)
(* raises.                                                                 *)
NormalizeValidationMode(value) ==
    IF value = "full" THEN "smtp" ELSE IF value \in Modes THEN value ELSE Unknown

(* The mode argument of a row: of a constant vector, which is normalised   *)
(* before the rows, or of a column.                                        *)
Arguments ==
    [constant : BOOLEAN, value : Modes \cup {"full", "mx", "null"}]
        \cup {[constant |-> TRUE, value |-> "absent"]}

ModeOf(argument, default) ==
    IF argument.value \in {"absent", "null"} THEN default ELSE NormalizeValidationMode(argument.value)

(* "proper": the pattern matches, with a domain that is looked up;         *)
(* "reserved": the same with a reserved domain; "bare": no domain follows  *)
(* an @ (only a pattern of the user's own matches); "long": over a limit;  *)
(* "blank": nothing is left after trimming; "null": a NULL.                *)
Addresses == {"proper", "reserved", "bare", "long", "blank", "null"}

Matches(address, pattern) == pattern = "any" \/ address # "bare"

Verdict(s, valid, reason) == [stage |-> s, valid |-> valid, reason |-> reason]
NoVerdict == Verdict("none", FALSE, "none")

ValidateRegex(address, pattern) ==
    IF address = "blank" THEN Verdict("regex", FALSE, "empty")
    ELSE IF address = "long" THEN Verdict("regex", FALSE, "invalid_length")
    ELSE IF ~Matches(address, pattern) THEN Verdict("regex", FALSE, "invalid_format")
    ELSE Verdict("regex", TRUE, "none")

(* The early exits of the dns stage, for an address with no domain or a    *)
(* reserved one.                                                           *)
Unresolvable(address) ==
    CASE address = "bare" -> "resolution_failed"
      [] address = "reserved" -> "reserved_domain"
      [] OTHER -> "none"

(* ClassifyEmailFailure; the reasons of the smtp stage are in SmtpVerify.  *)
Definite(v) ==
    CASE v.stage = "regex" -> TRUE
      [] v.stage = "dns" -> v.reason \in {"resolution_failed", "reserved_domain", "domain_not_found",
                                          "no_records", "null_mx"}
      [] OTHER -> v.reason \in Smtp!Definite

(* Mutant: a check that failed is a refusal.                               *)
NeverUnknown(v) == IF v.valid THEN "true" ELSE "false"

(* The column `valid': IsUnknownOutcome makes it NULL.                     *)
Valid(v) == IF v.valid THEN "true" ELSE IF Definite(v) THEN "false" ELSE "null"

(* The next lookup and the next SMTP check start from nothing.             *)
ForgetLookup ==
    /\ lookupPc' = "init" /\ outstanding' = {} /\ pending' = 0
    /\ status' = [q \in Lookup!Queries |-> "destruction"]
    /\ records' = {} /\ addresses' = FALSE
    /\ lookupLate' = FALSE /\ lookupResult' = Lookup!NoResult

ForgetSmtp ==
    /\ smtpPc' = "next_host" /\ host' = 1 /\ endpoints' = 0 /\ stage' = 1 /\ lines' = 0
    /\ smtpLate' = FALSE /\ lastReason' = "verification_failed" /\ smtpResult' = Smtp!Refused("none")
    /\ attempts' = <<>> /\ connected' = {}

Init ==
    /\ row = 0 /\ pc = "idle" /\ upTo = "regex" /\ verdict = NoVerdict
    /\ cached = Lookup!NoResult
    /\ zone \in Lookup!Zones /\ Lookup!Start
    /\ mailbox = FALSE /\ kind = <<>> /\ Smtp!Start

-----------------------------------------------------------------------------
Finish(v) == pc' = "idle" /\ verdict' = v

(* ValidateEmailAddress up to the lookup.                                  *)
Syntax(address, pattern) ==
    IF ~ValidateRegex(address, pattern).valid \/ upTo' = "regex" THEN Finish(ValidateRegex(address, pattern))
    ELSE IF Unresolvable(address) # "none" THEN Finish(Verdict("dns", FALSE, Unresolvable(address)))
    ELSE pc' = "resolve" /\ verdict' = NoVerdict

(* A call, for a row of a statement: the snapshot of the settings holds    *)
(* whatever mode and pattern SET accepted last.  An unknown constant mode  *)
(* raises before the rows are read, one of a column for its row, unless    *)
(* the address is NULL.                                                    *)
Call ==
    /\ pc = "idle" /\ row < MaxRows /\ row' = row + 1
    /\ \E argument \in Arguments, address \in Addresses, default \in Modes, pattern \in Patterns :
          /\ upTo' = ModeOf(argument, default)
          /\ IF upTo' = Unknown /\ (argument.constant \/ address # "null")
             THEN Finish(NoVerdict)
             ELSE IF address = "null" THEN Finish(NoVerdict)
             ELSE Syntax(address, pattern)
    /\ mailbox' = FALSE /\ kind' = <<>>
    /\ UNCHANGED <<cached, zone, lookupVars, smtpVars>>

(* Resolve: a cached answer, or a lookup, if there is none or it has       *)
(* expired or was evicted since.                                           *)
Cached == pc = "resolve" /\ cached # Lookup!NoResult

ResolveUncached ==
    /\ pc = "resolve" /\ pc' = "lookup"
    /\ cached' = Lookup!NoResult
    /\ UNCHANGED <<row, upTo, verdict, zone, lookupVars, mailVars, smtpVars>>

LookupStep ==
    /\ pc = "lookup"
    /\ Lookup!Step \/ Lookup!Tick
    /\ UNCHANGED <<call, cached, mailVars, smtpVars>>

(* The mail hosts a successful lookup names: what the MX records name, or  *)
(* the addresses of the domain.                                            *)
NamedHosts(answer) == Smtp!HostLists(IF answer.hosts = {"host"} THEN HostKinds ELSE {"literal"})

(* What ValidateEmailAddress does with the answer of the lookup: the       *)
(* verdict of the dns stage, or the SMTP check of the hosts it names.      *)
AfterLookup(answer) ==
    \/ /\ ~answer.success /\ Finish(Verdict("dns", FALSE, answer.reason))
       /\ UNCHANGED mailVars
    \/ /\ answer.success /\ upTo = "dns" /\ Finish(Verdict("dns", TRUE, "none"))
       /\ UNCHANGED mailVars
    \/ /\ answer.success /\ upTo = "smtp" /\ pc' = "smtp" /\ UNCHANGED verdict
       /\ mailbox' \in BOOLEAN /\ kind' \in NamedHosts(answer)

(* IsCacheableDnsResult: an answer is stored, a failure is not.            *)
Store(answer) == cached' = IF Lookup!Cacheable(answer) THEN answer ELSE cached

UseCached ==
    /\ Cached
    /\ AfterLookup(cached)
    /\ UNCHANGED <<row, upTo, cached, zone, lookupVars, smtpVars>>

EndLookup ==
    /\ pc = "lookup" /\ lookupPc = "done"
    /\ AfterLookup(lookupResult) /\ Store(lookupResult)
    /\ ForgetLookup
    /\ UNCHANGED <<row, upTo, zone, smtpVars>>

SmtpStep ==
    /\ pc = "smtp"
    /\ Smtp!Step \/ Smtp!Tick
    /\ UNCHANGED <<call, cached, zone, lookupVars>>

EndSmtp ==
    /\ pc = "smtp" /\ smtpPc = "done"
    /\ Finish(Verdict("smtp", smtpResult.success, smtpResult.reason))
    /\ ForgetSmtp
    /\ UNCHANGED <<row, upTo, cached, zone, lookupVars, mailVars>>

Stopped == pc = "idle" /\ row = MaxRows /\ UNCHANGED vars

Next ==
    \/ Call \/ UseCached \/ ResolveUncached
    \/ LookupStep \/ EndLookup \/ SmtpStep \/ EndSmtp
    \/ Stopped

Spec == Init /\ [][Next]_vars

-----------------------------------------------------------------------------
(* The thread runs on, and time passes; the name servers owe nothing, and  *)
(* every wait of the SMTP check is bounded by a timeout of its own.        *)
Thread ==
    \/ UseCached \/ ResolveUncached \/ EndLookup \/ EndSmtp
    \/ LookupStep /\ ~Lookup!Process /\ ~Lookup!PollFails /\ ~Lookup!Tick
    \/ SmtpStep /\ Smtp!Step

FairSpec ==
    /\ Spec
    /\ WF_vars(Thread)
    /\ WF_vars(LookupStep /\ Lookup!Tick)

-----------------------------------------------------------------------------
Returned == pc = "idle" /\ verdict # NoVerdict
ProperAddress == verdict.reason \notin {"resolution_failed", "reserved_domain"}

(* The domain publishes something to deliver mail to.                      *)
NamesHosts(z) == "host" \in z.mx \/ z.addr

(* `true' of the smtp stage means that a mail host has the mailbox, `true' *)
(* of the dns stage that the domain names hosts, and `false' of the dns    *)
(* stage that it accepts no mail ("`false` is reserved for definite        *)
(* answers", docs/api/01-email.md:296): no failure of a name server or a   *)
(* mail host, in any order and from any earlier call, is taken for such an *)
(* answer.  `false' of the smtp stage is another matter:                   *)
(* SmtpVerify!FalseIsTrue.                                                 *)
VerdictIsTrue ==
    Returned =>
        /\ verdict.stage = "smtp" /\ Valid(verdict) = "true" => Smtp!Deliverable
        /\ verdict.stage = "dns" /\ Valid(verdict) = "true" => NamesHosts(zone)
        /\ verdict.stage = "dns" /\ ProperAddress /\ Valid(verdict) = "false" => ~Lookup!AcceptsMail(zone)

(* No callback of c-ares runs while the answers are judged (anofox_email_  *)
(* dns.cpp:555), whichever way the loop was left.                          *)
SettledBeforeUse == Lookup!SettledBeforeUse

(* "No fallback SMTP probing of the raw domain" (anofox_email.cpp:427-429, *)
(* issue 47): a host is contacted in smtp mode only, and for a domain that *)
(* names hosts only, whatever its lookup failed with.                      *)
NoFallbackProbing == connected # {} => upTo = "smtp" /\ NamesHosts(zone)

(* "The other mail hosts of the domain are not asked" once one refused the *)
(* mailbox for good (docs/api/01-email.md:285).                            *)
RefusalIsLast == Smtp!RefusalIsLast

(* Every call returns, whatever the servers do or leave undone.            *)
CallReturns == pc # "idle" ~> pc = "idle"
=============================================================================
