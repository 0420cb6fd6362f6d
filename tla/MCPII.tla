------------------------------- MODULE MCPII --------------------------------
(***************************************************************************)
(* The parts of PII detection, each on its own: a behaviour is one text    *)
(* with its matches, or statements and their settings, or the scan of a    *)
(* table.                                                                  *)
(***************************************************************************)
EXTENDS PIIMatches, StatementSettings, PIIScan

Plain == [patterns |-> {}, entities |-> {}, dictionary |-> {}, letters |-> TRUE]

(* A bare address, an address in a letter of a company, and a person whom  *)
(* the model and the dictionary find at different places.                  *)
MCReading ==
    [mail   |-> [patterns |-> {<<"EMAIL", 1>>}, entities |-> {}, dictionary |-> {}, letters |-> FALSE],
     letter |-> [patterns |-> {<<"EMAIL", 2>>}, entities |-> {<<"ORGANIZATION", 1>>},
                 dictionary |-> {}, letters |-> TRUE],
     person |-> [patterns |-> {}, entities |-> {<<"NAME", 2>>}, dictionary |-> {<<"NAME", 1>>},
                 letters |-> TRUE],
     i1 |-> Plain, i2 |-> Plain, i3 |-> Plain]

Row(id, note, contact) == [id |-> id, note |-> note, contact |-> contact]

Text(name) == [name |-> name, text |-> TRUE]
Customers(rows) ==
    [columns |-> <<[name |-> "id", text |-> FALSE], Text("note"), Text("contact")>>, rows |-> rows]

Before == Customers(<<Row("i1", "letter", Null), Row("i2", Null, "mail"), Row("i3", "person", "letter")>>)

(* The first row is deleted, the note of the last one changes.             *)
After == Customers(<<Row("i2", Null, "mail"), Row("i3", "letter", "letter")>>)

WithoutNote == [Before EXCEPT !.columns = <<[name |-> "id", text |-> FALSE], Text("contact")>>]

(* A view whose last note cannot be computed.                              *)
Broken == [Before EXCEPT !.rows[3].note = Fails]

MCTables == {Before, After, WithoutNote, Broken}

Call(fn, filter, id) == [fn |-> fn, filter |-> filter, id |-> id, uncommitted |-> FALSE]

MCRequests ==
    {Call("pii_scan_table", {}, Null), Call("pii_scan_table", {"note"}, Null),
     Call("pii_audit_table", {}, "id"), Call("pii_audit_table", {"note"}, Null),
     [Call("pii_scan_table", {}, Null) EXCEPT !.uncommitted = TRUE]}

MCSettings ==
    {[enabled |-> {}, required |-> FALSE], [enabled |-> {"ORGANIZATION"}, required |-> TRUE],
     [enabled |-> {"EMAIL"}, required |-> TRUE]}

(* One scan of the notes with the default settings.                        *)
MCOptional == {[enabled |-> {}, required |-> FALSE]}
MCNotes == {Call("pii_scan_table", {"note"}, Null)}

(* One audit of them.                                                      *)
MCAudit == {Call("pii_audit_table", {"note"}, Null)}

-----------------------------------------------------------------------------
VARIABLE component

MatchesOff ==
    /\ letters = {} /\ found = {} /\ names = {} /\ phase = "off" /\ call = "off" /\ pass = "off"
    /\ todo = {} /\ kept = {} /\ resolved = {} /\ copied = 0 /\ written = <<>> /\ hidden = {}

SettingsOff ==
    /\ config = 0 /\ running = <<>> /\ snapshot = <<>> /\ mutex = <<>> /\ pc = <<>>
    /\ began = <<>> /\ seen = [c \in Connections |-> {}]

ScanOff ==
    /\ committed = Null /\ states = {} /\ ner = "off" /\ reachable = FALSE /\ settings = Null /\ changes = 0
    /\ step = "off" /\ request = Null /\ using = Null
    /\ columns = <<>> /\ cursor = Null /\ report = <<>>

PIIInit ==
    \/ component = "matches" /\ Init /\ SettingsOff /\ ScanOff
    \/ component = "settings" /\ SettingsInit /\ MatchesOff /\ ScanOff
    \/ component = "scan" /\ ScanInit /\ MatchesOff /\ SettingsOff

PIINext ==
    \/ component = "matches" /\ Next /\ UNCHANGED <<component, settingsVars, scanVars>>
    \/ component = "settings" /\ SettingsNext /\ UNCHANGED <<component, vars, scanVars>>
    \/ component = "scan" /\ ScanNext /\ UNCHANGED <<component, vars, settingsVars>>
=============================================================================
