----------------------------- MODULE PIIMatches -----------------------------
(***************************************************************************)
(* What PIIEngine (src/src/anofox_pii.cpp) does with the matches of its    *)
(* recognizers in one text: overlapping pattern matches are resolved, the  *)
(* NER model is asked only where it can add something, its matches are     *)
(* resolved against the patterns', and Mask replaces what is left.         *)
(*                                                                         *)
(* A text is its number of bytes and the set of the bytes that are         *)
(* letters; a match is its type, its span and its confidence.  The         *)
(* regular expressions, checksums and the model decide which matches there *)
(* are: here any, of three pattern types that stand for the three roles a  *)
(* pattern type has in ResolveOverlaps.                                    *)
(***************************************************************************)
EXTENDS Naturals, FiniteSets

CONSTANTS
    Size,           \* bytes of the text
    Letterings,     \* which bytes of the text may be letters
    MaxMatches      \* bound on the matches of a text

(* PIIType in the order of its declaration.                                *)
Rank == [EMAIL |-> 0, CREDIT_CARD |-> 2, URL |-> 11, NAME |-> 12]

(* In percent: validated matches, checksum failures (reported when         *)
(* anofox_pii_require_checksum is false) and names of the dictionary.      *)
Confidences == [EMAIL |-> {100}, CREDIT_CARD |-> {60, 100}, URL |-> {100}, NAME |-> {50}]

ASSUME PIIAssumption ==
    /\ Size \in Nat
    /\ Letterings \subseteq SUBSET (0..Size - 1)
    /\ MaxMatches \in Nat

Bytes == 0..Size - 1
Match == {m \in [type : DOMAIN Rank, start : 0..Size, end : 0..Size,
                 confidence : {50, 60, 100}, userinfo : BOOLEAN] :
             m.confidence \in Confidences[m.type]}
IsNER(m) == m.type = "NAME"
Span(m) == m.start..m.end - 1

(* Only the authority of a URL has user information.                       *)
PatternMatch == {m \in Match : ~IsNER(m) /\ m.start <= m.end /\ (m.userinfo => m.type = "URL")}

VARIABLES
    letters,        \* the bytes that are letters
    found,          \* pattern matches of the recognizers
    names,          \* NER matches
    phase,          \* where Mask is
    call,           \* which call of ResolveOverlaps is running, or was last
    pass,           \* its pass: over the pattern matches, or over the NER matches
    todo,           \* matches its loop (or the loop of Mask) has not visited
    kept,           \* resolved: the matches kept so far
    resolved,       \* what DetectPatterns returned
    copied,         \* Mask: bytes before this one are dealt with
    written,        \* Mask: how often each byte of the text was copied
    hidden          \* Mask: bytes replaced by a mask

text == <<letters, found, names>>
loop == <<phase, call, pass>>
masking == <<copied, written, hidden>>
vars == <<text, loop, todo, kept, resolved, masking>>

Init ==
    /\ letters \in Letterings
    /\ found = {} /\ names = {}
    /\ phase = "recognise" /\ call = "patterns" /\ pass = "patterns"
    /\ todo = {} /\ kept = {} /\ resolved = {}
    /\ copied = 0 /\ written = [b \in Bytes |-> 0] /\ hidden = {}

-----------------------------------------------------------------------------
Overlap(m, k) == m.start < k.end /\ k.start < m.end
Contains(u, e) == u.start <= e.start /\ e.end <= u.end

(* Mutant: any match inside a URL makes it yield.                          *)
YieldsToAny(matches) ==
    {u \in matches : u.type = "URL" /\ \E e \in matches : e # u /\ Contains(u, e)}

(* A URL with an email address inside yields to it, unless its authority   *)
(* has user information.                                                   *)
Yielding(matches) ==
    {u \in matches : u.type = "URL" /\ ~u.userinfo
                     /\ \E e \in matches : e.type = "EMAIL" /\ Contains(u, e)}

(* The order of the first sort.                                            *)
Precedes(a, b) ==
    \/ a.start < b.start
    \/ a.start = b.start /\ a.end > b.end
    \/ a.start = b.start /\ a.end = b.end /\ a.confidence > b.confidence
    \/ a.start = b.start /\ a.end = b.end /\ a.confidence = b.confidence /\ Rank[a.type] < Rank[b.type]

SameText(a, b) == a.start = b.start /\ a.end = b.end /\ a.type = b.type

(* One of the recognizers' matches in the folded text (or in the text with *)
(* its line breaks folded too), mapped to the original.  User information  *)
(* is a matter of the text of a match.                                     *)
Recognise ==
    /\ phase = "recognise" /\ Cardinality(found) < MaxMatches
    /\ \E m \in PatternMatch \ found :
          /\ \A f \in found : SameText(m, f) => m.userinfo = f.userinfo
          /\ found' = found \cup {m}
    /\ UNCHANGED <<letters, names, loop, todo, kept, resolved, masking>>

(* ResolveOverlaps is called.                                              *)
BeginResolve(caller, matches) ==
    /\ phase' = "resolve" /\ call' = caller /\ pass' = "patterns"
    /\ todo' = matches \ Yielding(matches)
    /\ kept' = {}
    /\ UNCHANGED <<text, resolved, masking>>

ResolvePatterns == phase = "recognise" /\ BeginResolve("patterns", found)

Current == {m \in todo : IsNER(m) <=> pass = "names"}
First(matches) == {m \in matches : \A o \in matches : ~Precedes(o, m)}

(* Mutant: the kept span that starts last of all, not last before the end. *)
PreviousOfAll(end) == {k \in kept : \A l \in kept : l.start <= k.start}

(* kept_spans.lower_bound(end), and the entry before it.                   *)
Previous(end) == {k \in kept : k.start < end /\ \A l \in kept : l.start < end => l.start <= k.start}

OverlapsKept(m) == \E k \in Previous(m.end) : Overlap(m, k)

(* One iteration of the loop over the sorted matches.                      *)
Visit == \E m \in First(Current) :
    /\ phase = "resolve"
    /\ todo' = todo \ {m}
    /\ kept' = IF m.start >= m.end \/ OverlapsKept(m) THEN kept ELSE kept \cup {m}
    /\ UNCHANGED <<text, loop, resolved, masking>>

EndPass ==
    /\ phase = "resolve" /\ pass = "patterns" /\ Current = {}
    /\ pass' = "names"
    /\ UNCHANGED <<text, phase, call, todo, kept, resolved, masking>>

Resolved(caller) == phase = "resolve" /\ call = caller /\ pass = "names" /\ Current = {}

Covered(matches) == UNION {Span(m) : m \in matches}

(* Mutant: the model is asked only about texts without any pattern match.  *)
NoMatchInText == kept = {} /\ letters # {}

HasLetterOutside == \E b \in letters : b \notin Covered(kept)

BeginMask == phase' = "mask" /\ todo' = kept

(* DetectPatterns returns, and the NER model runs or is skipped.           *)
EndPatterns ==
    /\ Resolved("patterns")
    /\ resolved' = kept
    /\ \/ HasLetterOutside /\ phase' = "names" /\ UNCHANGED todo
       \/ ~HasLetterOutside /\ BeginMask
    /\ UNCHANGED <<text, call, pass, kept, masking>>

(* NER spans that AddNERMatches does not drop name something: they have a  *)
(* letter.                                                                 *)
NameMatch == {m \in Match : IsNER(m) /\ m.start < m.end /\ ~m.userinfo /\ Span(m) \cap letters # {}}

FindName ==
    /\ phase = "names" /\ Cardinality(found \cup names) < MaxMatches
    /\ \E m \in NameMatch \ names : names' = names \cup {m}
    /\ UNCHANGED <<letters, found, loop, todo, kept, resolved, masking>>

ResolveNames == phase = "names" /\ BeginResolve("names", kept \cup names)

EndNames ==
    /\ Resolved("names")
    /\ BeginMask
    /\ UNCHANGED <<text, call, pass, kept, resolved, masking>>

-----------------------------------------------------------------------------
(* result.append(text, from, to - from), whose length is unsigned: it      *)
(* appends the rest of the text when it wraps around.                      *)
Appended(from, to) == IF from <= to THEN from..to - 1 ELSE from..Size - 1

Write(from, to) == written' = [b \in Bytes |-> IF b \in Appended(from, to) THEN written[b] + 1 ELSE written[b]]

(* Mutant: copying goes on at the start of the mask.                       *)
MaskAndRepeat == \E m \in First(todo) :
    /\ phase = "mask"
    /\ Write(copied, m.start)
    /\ hidden' = hidden \cup Span(m)
    /\ copied' = m.start
    /\ todo' = todo \ {m}
    /\ UNCHANGED <<text, loop, kept, resolved>>

(* The loop of Mask, in the order of the last sort.                        *)
MaskMatch == \E m \in First(todo) :
    /\ phase = "mask"
    /\ Write(copied, m.start)
    /\ hidden' = hidden \cup Span(m)
    /\ copied' = m.end
    /\ todo' = todo \ {m}
    /\ UNCHANGED <<text, loop, kept, resolved>>

EndMask ==
    /\ phase = "mask" /\ todo = {}
    /\ Write(copied, Size)
    /\ phase' = "done"
    /\ UNCHANGED <<text, call, pass, todo, kept, resolved, copied, hidden>>

Done == phase = "done" /\ UNCHANGED vars

Next ==
    \/ Recognise \/ ResolvePatterns \/ Visit \/ EndPass \/ EndPatterns
    \/ FindName \/ ResolveNames \/ EndNames
    \/ MaskMatch \/ EndMask \/ Done

Spec == Init /\ [][Next]_vars

-----------------------------------------------------------------------------
TypeOK ==
    /\ letters \subseteq Bytes
    /\ found \subseteq PatternMatch /\ names \subseteq NameMatch
    /\ phase \in {"recognise", "resolve", "names", "mask", "done"}
    /\ call \in {"patterns", "names"} /\ pass \in {"patterns", "names"}
    /\ todo \subseteq Match /\ kept \subseteq Match /\ resolved \subseteq Match
    /\ copied \in 0..Size
    /\ written \in [Bytes -> Nat]
    /\ hidden \subseteq Bytes

(* "Greedily keep non-overlapping matches so Mask() replaces each region   *)
(* of the input exactly once" (anofox_pii.cpp:3540): no two kept matches   *)
(* share a byte, although each was compared with one other only.           *)
Disjoint == \A m, k \in kept : m.start < m.end /\ (m # k => ~Overlap(m, k))

Final == phase \in {"mask", "done"}
Outranks(k, m) ==
    /\ Overlap(k, m)
    /\ \/ IsNER(m) /\ ~IsNER(k)
       \/ (IsNER(m) <=> IsNER(k)) /\ Precedes(k, m)

(* A match is lost only to one that overlaps it and comes first in the     *)
(* documented order, or as a URL to the email address inside.              *)
NothingElseLost ==
    Final => \A m \in (found \ Yielding(found)) \cup names :
        m \in kept \/ m.start >= m.end \/ \E k \in kept : Outranks(k, m)

(* "A NER span is kept only where it overlaps none of them"                *)
(* (anofox_pii.cpp:3542): what DetectPatterns found is still there, and    *)
(* whole, after the second resolution, which only adds names.              *)
PatternsStay == Final => {k \in kept : ~IsNER(k)} = resolved

(* "Without such a letter the NER model cannot add anything to the pattern *)
(* matches" (anofox_pii.cpp:605): skipping it changes no result.           *)
SkipIsLossless ==
    Final /\ call = "patterns" => \A m \in NameMatch : \E k \in kept : Overlap(k, m)

(* Mask writes each byte of the text once: as it is, or as part of the one *)
(* mask of the match that holds it.                                        *)
MaskedOnce ==
    phase = "done" => /\ hidden = Covered(kept)
                      /\ \A b \in Bytes : written[b] = IF b \in hidden THEN 0 ELSE 1
=============================================================================
