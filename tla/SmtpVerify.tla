----------------------------- MODULE SmtpVerify -----------------------------
(***************************************************************************)
(* The SMTP check of one address (src/src/anofox_email_smtp.cpp: Verify,   *)
(* AttemptHost, ResolveHostEndpoints, ConnectSocket, SendBuffer,           *)
(* ReadResponse) and what email_validate makes of its result (src/src/     *)
(* anofox_email.cpp: ClassifyEmailFailure).                                *)
(*                                                                         *)
(* `mailbox' and `kind' are the truth the check is after: whether the      *)
(* domain has the mailbox, and what the mail host names are.  A server     *)
(* that answers RCPT with 2xx or 5xx says the truth; it may put every      *)
(* client off with 4xx, or answer something else; a name server, a         *)
(* connection or a reply may fail.                                         *)
(***************************************************************************)
EXTENDS Naturals, Sequences, SequencesExt

CONSTANTS
    MaxHosts,       \* bound on the mail hosts of a domain
    HostKinds,      \* what a mail host may be: named, loopback, no_address, missing, reserved
    MaxEndpoints,   \* addresses a name may resolve to
    MaxLines        \* MAX_RESPONSE_LINES

Stages == <<"greeting", "helo", "mail_from", "rcpt">>

VARIABLES
    mailbox, kind,  \* the truth
    pc,
    host,           \* index of the mail host that is tried
    endpoints,      \* its addresses that are left to try
    stage,          \* index in Stages
    lines,          \* SmtpResponseBudget::line_count of the response that is read
    late,           \* whether the overall deadline has passed
    lastReason,     \* last_reason of Verify
    result,         \* what Verify returned
    attempts,       \* history: the outcome of each host
    connected       \* history: the hosts a connection was made to

truth == <<mailbox, kind>>
history == <<attempts, connected>>
vars == <<truth, pc, host, endpoints, stage, lines, late, lastReason, result, history>>

(* ClassifyEmailFailure, for the reasons of the SMTP stage; all others are *)
(* unknown outcomes.                                                       *)
Definite == {"dns_reserved_domain", "dns_domain_not_found", "dns_no_records", "dns_no_addresses",
             "recipient_rejected"}
DnsFailures == {"dns_timeout", "dns_init_failed"}
Accepted == [success |-> TRUE, reason |-> "none"]
Refused(reason) == [success |-> FALSE, reason |-> reason]

(* The mail hosts Verify is given, in the order of preference; a caller    *)
(* without any does not call it.                                           *)
HostLists(kinds) == UNION {[1..n -> kinds] : n \in 1..MaxHosts}

Start ==
    /\ pc = "next_host" /\ host = 1
    /\ endpoints = 0 /\ stage = 1 /\ lines = 0
    /\ late = FALSE
    /\ lastReason = "verification_failed" /\ result = Refused("none")
    /\ attempts = <<>> /\ connected = {}

Init == mailbox \in BOOLEAN /\ kind \in HostLists(HostKinds) /\ Start

-----------------------------------------------------------------------------
Return(value) == pc' = "done" /\ result' = value

(* AttemptHost returns without success: a permanent refusal of the mailbox *)
(* is the answer, anything else (or no reason at all) leads to the next    *)
(* host.                                                                   *)
AttemptFails(reason) ==
    /\ attempts' = Append(attempts, reason)
    /\ IF reason = "recipient_rejected"
       THEN Return(Refused(reason)) /\ UNCHANGED <<host, lastReason>>
       ELSE /\ pc' = "next_host" /\ host' = host + 1
            /\ lastReason' = IF reason = "none" THEN lastReason ELSE reason
            /\ UNCHANGED result

(* The loop of Verify: out of hosts, out of time, or the next host.        *)
NextHost ==
    /\ pc = "next_host"
    /\ \/ host > Len(kind) /\ Return(Refused(lastReason)) /\ UNCHANGED <<host, lastReason, attempts>>
       \/ host <= Len(kind) /\ late /\ Return(Refused("overall_timeout")) /\ UNCHANGED <<host, lastReason, attempts>>
       \/ host <= Len(kind) /\ ~late /\ pc' = "resolve" /\ UNCHANGED <<host, lastReason, attempts, result>>
       \/ host <= Len(kind) /\ ~late /\ AttemptFails("socket_init_failed")
    /\ UNCHANGED <<truth, endpoints, stage, lines, late, connected>>

-----------------------------------------------------------------------------
(* The hosts a connection can be made to; the first two are not looked up. *)
Contactable == {"literal", "loopback", "named"}

EndpointCounts == [literal |-> {1}, loopback |-> {2}, named |-> 1..MaxEndpoints]

(* The address of a literal, the two of localhost, or the answer of the    *)
(* name servers.                                                           *)
Resolved ==
    /\ kind[host] \in Contactable /\ (kind[host] = "named" => ~late)
    /\ pc' = "connect"
    /\ endpoints' \in EndpointCounts[kind[host]]
    /\ UNCHANGED <<host, lastReason, result, attempts>>

(* Why a name has no addresses: what it is, or a name server that failed.  *)
ResolveReasons ==
    CASE kind[host] = "reserved" -> {"dns_reserved_domain"}
      [] kind[host] = "missing" -> {"dns_domain_not_found"} \cup DnsFailures
      [] kind[host] = "no_address" -> {"dns_no_records", "dns_no_addresses"} \cup DnsFailures
      [] kind[host] = "named" -> DnsFailures
      [] OTHER -> {}

(* A reserved name is not looked up.                                       *)
NotResolved ==
    /\ kind[host] = "reserved" \/ ~late
    /\ \E r \in ResolveReasons : AttemptFails(r)
    /\ UNCHANGED endpoints

(* The deadline leaves no time to look the name up.                        *)
TooLateToResolve ==
    /\ late /\ kind[host] \in {"named", "missing", "no_address"}
    /\ AttemptFails("overall_timeout")
    /\ UNCHANGED endpoints

Resolve ==
    /\ pc = "resolve"
    /\ Resolved \/ NotResolved \/ TooLateToResolve
    /\ UNCHANGED <<truth, stage, lines, late, connected>>

(* No socket for this address: the next one is tried, and without any the  *)
(* attempt ends with no reason of its own.                                 *)
SocketFails ==
    /\ pc = "connect"
    /\ \/ endpoints > 0 /\ endpoints' = endpoints - 1 /\ UNCHANGED <<pc, host, lastReason, result, attempts>>
       \/ endpoints = 0 /\ AttemptFails("none") /\ UNCHANGED endpoints
    /\ UNCHANGED <<truth, stage, lines, late, connected>>

(* The reason of a wait that is not answered: the deadline, or the wait's. *)
TimeoutReason(reason) == IF late THEN "overall_timeout" ELSE reason

(* ConnectSocket gives a reason whenever it fails, so the loop over the    *)
(* addresses returns instead of trying the next.                           *)
Connect ==
    /\ pc = "connect" /\ endpoints > 0
    /\ \/ /\ pc' = "read" /\ stage' = 1 /\ lines' = 0
          /\ connected' = connected \cup {host}
          /\ UNCHANGED <<host, lastReason, result, attempts>>
       \/ /\ \E r \in {"connect_error", TimeoutReason("connect_timeout")} : AttemptFails(r)
          /\ UNCHANGED <<stage, lines, connected>>
    /\ UNCHANGED <<truth, endpoints, late>>

-----------------------------------------------------------------------------
(* SendCommand of EHLO, MAIL FROM or RCPT TO.                              *)
Send ==
    /\ pc = "send"
    /\ \/ pc' = "read" /\ lines' = 0 /\ UNCHANGED <<host, lastReason, result, attempts>>
       \/ /\ \E r \in {"write_error", TimeoutReason("write_timeout")} : AttemptFails(r)
          /\ UNCHANGED lines
    /\ UNCHANGED <<truth, endpoints, stage, late, connected>>

Reading == pc = "read"

(* ReadLine fails, or the line is not a reply.                             *)
ReadFails ==
    /\ Reading
    /\ \E r \in IF Stages[stage] = "greeting" THEN {"greeting_error", TimeoutReason("greeting_timeout")}
                ELSE {"read_error", TimeoutReason("read_timeout")} :
          AttemptFails(r)
    /\ UNCHANGED <<truth, endpoints, stage, lines, late, connected>>

BadLine ==
    /\ Reading
    /\ \E r \in {"invalid_response", "response_too_large"} : AttemptFails(r)
    /\ UNCHANGED <<truth, endpoints, stage, lines, late, connected>>

(* A line of a multi-line reply within the budget; a socket that is ready  *)
(* is read from even after the deadline.                                   *)
ContinuationLine ==
    /\ Reading /\ lines < MaxLines - 1
    /\ lines' = lines + 1
    /\ UNCHANGED <<truth, pc, host, endpoints, stage, late, lastReason, result, history>>

(* The classes a server may reply with; RCPT is answered with the truth,   *)
(* put off, or answered with neither (3 stands for every other class).     *)
ReplyClasses ==
    IF Stages[stage] # "rcpt" THEN {2, 3, 4, 5}
    ELSE {3, 4, IF mailbox THEN 2 ELSE 5}

StageRejected ==
    CASE Stages[stage] = "greeting" -> "invalid_greeting"
      [] Stages[stage] = "helo" -> "helo_rejected"
      [] Stages[stage] = "mail_from" -> "mail_from_rejected"

(* What the reply to RCPT TO means.                                        *)
RcptReason(class) ==
    IF class = 4 THEN "recipient_deferred"
    ELSE IF class # 2 THEN "recipient_rejected"
    ELSE "none"

(* The last line of a reply: on to the next command, or the end.  QUIT is  *)
(* sent after an acceptance, whose result does not depend on it.           *)
Reply ==
    /\ Reading
    /\ \E class \in ReplyClasses :
          /\ IF Stages[stage] # "rcpt"
             THEN \/ /\ class = 2 /\ pc' = "send" /\ stage' = stage + 1
                     /\ UNCHANGED <<host, lastReason, result, attempts>>
                  \/ class # 2 /\ AttemptFails(StageRejected) /\ UNCHANGED stage
             ELSE /\ UNCHANGED stage
                  /\ IF RcptReason(class) = "none"
                     THEN /\ Return(Accepted) /\ attempts' = Append(attempts, "none")
                          /\ UNCHANGED <<host, lastReason>>
                     ELSE AttemptFails(RcptReason(class))
    /\ UNCHANGED <<truth, endpoints, lines, late, connected>>

(* The overall deadline passes.                                            *)
Tick ==
    /\ ~late /\ pc # "done" /\ late' = TRUE
    /\ UNCHANGED <<truth, pc, host, endpoints, stage, lines, lastReason, result, history>>

Step ==
    \/ NextHost \/ Resolve \/ SocketFails \/ Connect
    \/ Send \/ ReadFails \/ BadLine \/ ContinuationLine \/ Reply

Stopped == pc = "done" /\ UNCHANGED vars

Next == Step \/ Tick \/ Stopped

Spec == Init /\ [][Next]_vars

-----------------------------------------------------------------------------
Done == pc = "done"
Deliverable == mailbox /\ \E h \in DOMAIN kind : kind[h] \in Contactable

(* Types, and how far the attempts have come.                              *)
SmtpTypeOK ==
    /\ mailbox \in BOOLEAN /\ kind \in HostLists(HostKinds)
    /\ pc \in {"next_host", "resolve", "connect", "send", "read", "done"}
    /\ host \in 1..Len(kind) + 1 /\ endpoints \in Nat
    /\ stage \in DOMAIN Stages /\ lines \in 0..MaxLines - 1
    /\ late \in BOOLEAN /\ result.success \in BOOLEAN
    /\ Len(attempts) \in {host - 1, host} /\ connected \subseteq DOMAIN kind


(* "The other mail hosts of the domain are not asked" once one refused the *)
(* mailbox for good (docs/api/01-email.md:285).                            *)
RefusalIsLast == \A i \in DOMAIN attempts : attempts[i] = "recipient_rejected" => Done /\ i = Len(attempts)
=============================================================================
