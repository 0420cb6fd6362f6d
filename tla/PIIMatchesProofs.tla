-------------------------- MODULE PIIMatchesProofs --------------------------
(***************************************************************************)
(* PIIMatches for texts and sets of matches of any size.  Comparing a      *)
(* match with one kept match only is enough because the kept matches are   *)
(* disjoint and one of those that start before a byte starts last; that    *)
(* both stay true is the core of the inductive invariant.                  *)
(***************************************************************************)
EXTENDS PIIMatches, TLAPS

(* What is known of every match.                                           *)
LEMMA MatchFields ==
    ASSUME NEW m \in Match
    PROVE  /\ m.start \in Nat /\ m.end \in Nat /\ m.start <= Size /\ m.end <= Size
           /\ m.type \in DOMAIN Rank /\ m.confidence \in Nat /\ m.userinfo \in BOOLEAN
           /\ m = [type |-> m.type, start |-> m.start, end |-> m.end,
                   confidence |-> m.confidence, userinfo |-> m.userinfo]
BY PIIAssumption DEF Match

LEMMA ByteIsNat == \A b \in Bytes : b \in Nat /\ b < Size
BY PIIAssumption DEF Bytes

LEMMA Subtypes == PatternMatch \subseteq Match /\ NameMatch \subseteq Match
BY DEF PatternMatch, NameMatch

-----------------------------------------------------------------------------
(* The types.                                                              *)
LEMMA InitType == Init => TypeOK
BY PIIAssumption DEF Init, TypeOK, Bytes

LEMMA ResolveType ==
    ASSUME TypeOK, NEW caller \in {"patterns", "names"}, NEW matches,
           matches \subseteq Match, BeginResolve(caller, matches)
    PROVE  TypeOK'
BY DEF TypeOK, BeginResolve, text, masking, NameMatch

LEMMA WriteType ==
    ASSUME TypeOK, NEW from, NEW to, Write(from, to)
    PROVE  written' \in [Bytes -> Nat]
BY DEF TypeOK, Write

LEMMA NextType == TypeOK /\ [Next]_vars => TypeOK'
<1> SUFFICES ASSUME TypeOK, [Next]_vars PROVE TypeOK'
  OBVIOUS
<1> USE Subtypes
<1>1. CASE Recognise
  BY <1>1 DEF Recognise, TypeOK, loop, masking, NameMatch
<1>2. CASE ResolvePatterns
  BY <1>2, ResolveType DEF ResolvePatterns, TypeOK
<1>3. CASE Visit
  <2>1. PICK m \in First(Current) :
           /\ todo' = todo \ {m}
           /\ kept' = IF m.start >= m.end \/ OverlapsKept(m) THEN kept ELSE kept \cup {m}
    BY <1>3 DEF Visit
  <2>2. m \in todo
    BY DEF First, Current
  <2> QED
    BY <1>3, <2>1, <2>2 DEF Visit, TypeOK, text, loop, masking, NameMatch
<1>4. CASE EndPass
  BY <1>4 DEF EndPass, TypeOK, text, masking, NameMatch
<1>5. CASE EndPatterns
  BY <1>5 DEF EndPatterns, BeginMask, TypeOK, masking, NameMatch, PatternMatch, text
<1>6. CASE FindName
  BY <1>6 DEF FindName, TypeOK, loop, masking, NameMatch
<1>7. CASE ResolveNames
  BY <1>7, ResolveType DEF ResolveNames, TypeOK
<1>8. CASE EndNames
  BY <1>8 DEF EndNames, BeginMask, TypeOK, text, masking, NameMatch
<1>9. CASE MaskMatch
  <2>1. PICK m \in First(todo) :
           Write(copied, m.start) /\ hidden' = hidden \cup Span(m) /\ copied' = m.end /\ todo' = todo \ {m}
    BY <1>9 DEF MaskMatch
  <2>2. m \in todo /\ m \in Match
    BY <2>1 DEF First, TypeOK
  <2>3. Span(m) \subseteq Bytes /\ m.end \in 0..Size
    BY <2>2, MatchFields, PIIAssumption DEF Span, Bytes
  <2>4. written' \in [Bytes -> Nat]
    BY <2>1, WriteType
  <2> QED
    BY <1>9, <2>1, <2>2, <2>3, <2>4 DEF MaskMatch, TypeOK, text, loop, NameMatch
<1>10. CASE EndMask
  <2>1. written' \in [Bytes -> Nat]
    BY <1>10, WriteType DEF EndMask
  <2> QED
    BY <1>10, <2>1 DEF EndMask, TypeOK, text, NameMatch
<1>11. CASE UNCHANGED vars
  BY <1>11 DEF TypeOK, vars, text, loop, masking, NameMatch
<1> QED
  BY <1>1, <1>2, <1>3, <1>4, <1>5, <1>6, <1>7, <1>8, <1>9, <1>10, <1>11 DEF Next, Done

(* TypeOK: every variable stays in its type, for texts of any size.        *)
THEOREM TypeCorrect == Spec => []TypeOK
BY InitType, NextType, PTL DEF Spec

-----------------------------------------------------------------------------
(* The kept matches are apart, and among those that start before a byte    *)
(* one starts last: the match that OverlapsKept compares with.             *)
PreviousExists == \A e \in Nat : (\E k \in kept : k.start < e) => Previous(e) # {}
Apart == Disjoint /\ PreviousExists

(* The lookup of one kept match finds an overlap with any.                 *)
LEMMA LookupFindsOverlap ==
    ASSUME TypeOK, Apart, NEW m \in Match, NEW k \in kept, Overlap(m, k)
    PROVE  OverlapsKept(m)
<1>1. m.end \in Nat /\ k.start \in Nat /\ k.end \in Nat /\ m.start \in Nat
  BY MatchFields DEF TypeOK
<1>2. k.start < m.end /\ m.start < k.end
  BY DEF Overlap
<1>3. PICK p \in Previous(m.end) : TRUE
  BY <1>1, <1>2 DEF Apart, PreviousExists
<1>4. p \in kept /\ p.start < m.end /\ k.start <= p.start
  BY <1>2, <1>3 DEF Previous
<1>5. p.start \in Nat /\ p.end \in Nat /\ p.start < p.end
  BY <1>4, MatchFields DEF TypeOK, Apart, Disjoint
<1>6. CASE p = k
  BY <1>3, <1>6 DEF OverlapsKept
<1>7. CASE p # k
  <2>1. ~Overlap(k, p)
    BY <1>4, <1>7 DEF Apart, Disjoint
  <2>2. k.end <= p.start
    BY <1>1, <1>4, <1>5, <2>1 DEF Overlap
  <2>3. Overlap(m, p)
    BY <1>1, <1>2, <1>4, <1>5, <2>2 DEF Overlap
  <2> QED
    BY <1>3, <2>3 DEF OverlapsKept
<1> QED
  BY <1>6, <1>7

(* Keeping one more match that passed the test.                            *)
LEMMA KeepApart ==
    ASSUME TypeOK, Apart, NEW m \in Match, m.start < m.end, ~OverlapsKept(m),
           kept' = kept \cup {m}
    PROVE  Apart'
<1>1. \A k \in kept : ~Overlap(m, k) /\ ~Overlap(k, m)
  BY LookupFindsOverlap DEF Overlap
<1>2. Disjoint'
  BY <1>1 DEF Apart, Disjoint
<1>3. SUFFICES ASSUME NEW e \in Nat, NEW k \in kept', k.start < e
               PROVE  Previous(e)' # {}
  BY <1>2 DEF Apart, PreviousExists
<1>4. \A l \in kept' : l.start \in Nat
  BY MatchFields DEF TypeOK
<1>5. CASE \E l \in kept : l.start < e
  <2>1. PICK p \in Previous(e) : TRUE
    BY <1>5 DEF Apart, PreviousExists
  <2>2. p \in kept /\ p.start < e /\ \A l \in kept : l.start < e => l.start <= p.start
    BY <2>1 DEF Previous
  <2>3. CASE m.start < e /\ p.start <= m.start
    <3>1. m \in kept' /\ \A l \in kept' : l.start < e => l.start <= m.start
      BY <1>4, <2>2, <2>3
    <3> QED
      BY <2>3, <3>1 DEF Previous
  <2>4. CASE ~(m.start < e /\ p.start <= m.start)
    <3>1. p \in kept' /\ \A l \in kept' : l.start < e => l.start <= p.start
      BY <1>4, <2>2, <2>4
    <3> QED
      BY <2>2, <3>1 DEF Previous
  <2> QED
    BY <2>3, <2>4
<1>6. CASE \A l \in kept : ~(l.start < e)
  <2>1. k = m
    BY <1>3, <1>6
  <2>2. m \in kept' /\ m.start < e /\ \A l \in kept' : l.start < e => l.start <= m.start
    BY <1>3, <1>4, <1>6, <2>1
  <2> QED
    BY <2>2 DEF Previous
<1> QED
  BY <1>5, <1>6

LEMMA SameKept == Apart /\ UNCHANGED kept => Apart'
BY DEF Apart, Disjoint, PreviousExists, Previous

LEMMA NoneKept == kept' = {} => Apart'
BY DEF Apart, Disjoint, PreviousExists

(* Next visits, keeps nothing new, or begins with nothing kept.            *)
LEMMA KeptSteps ==
    ASSUME [Next]_vars
    PROVE  Visit \/ UNCHANGED kept \/ kept' = {}
BY DEF Next, vars, Recognise, ResolvePatterns, ResolveNames, BeginResolve, EndPass, EndPatterns,
       FindName, EndNames, MaskMatch, EndMask, Done

LEMMA NextApart == TypeOK /\ Apart /\ [Next]_vars => Apart'
<1> SUFFICES ASSUME TypeOK, Apart, [Next]_vars PROVE Apart'
  OBVIOUS
<1>1. CASE Visit
  <2>1. PICK m \in First(Current) :
           kept' = IF m.start >= m.end \/ OverlapsKept(m) THEN kept ELSE kept \cup {m}
    BY <1>1 DEF Visit
  <2>2. m \in Match /\ m.start \in Nat /\ m.end \in Nat
    BY MatchFields DEF First, Current, TypeOK
  <2>3. CASE m.start >= m.end \/ OverlapsKept(m)
    BY <2>1, <2>3, SameKept
  <2>4. CASE m.start < m.end /\ ~OverlapsKept(m)
    <3>1. kept' = kept \cup {m}
      BY <2>1, <2>2, <2>4
    <3> QED
      BY <2>2, <2>4, <3>1, KeepApart
  <2> QED
    BY <2>2, <2>3, <2>4
<1> QED
  BY <1>1, KeptSteps, SameKept, NoneKept

LEMMA InitApart == Init => Apart
BY DEF Init, Apart, Disjoint, PreviousExists

THEOREM ApartCorrect == Spec => []Apart
BY InitApart, NextApart, TypeCorrect, PTL, InitType, NextType DEF Spec

(* Disjoint: no two kept matches ever share a byte, for texts and sets of  *)
(* matches of any size, although each was compared with one other only.    *)
THEOREM DisjointCorrect == Spec => []Disjoint
BY ApartCorrect, PTL DEF Apart
-----------------------------------------------------------------------------
(* Mask: what the loop over the kept matches has done when it is at copied. *)
Quiet ==
    phase \in {"recognise", "resolve", "names"} =>
        copied = 0 /\ hidden = {} /\ \A b \in Bytes : written[b] = 0

Masking ==
    phase = "mask" =>
        /\ todo \subseteq kept
        /\ \A m \in todo : copied <= m.start
        /\ hidden = Covered(kept \ todo)
        /\ \A b \in hidden : b < copied
        /\ \A b \in Bytes : written[b] = IF b < copied /\ b \notin hidden THEN 1 ELSE 0

MaskInv == Quiet /\ Masking /\ MaskedOnce

LEMMA InitMask == Init => MaskInv
BY DEF Init, MaskInv, Quiet, Masking, MaskedOnce

(* The other steps: Mask has not begun, begins, or has returned.           *)
Detecting == phase \in {"recognise", "resolve", "names"}

LEMMA OtherSteps ==
    ASSUME [Next]_vars
    PROVE  \/ MaskMatch \/ EndMask
           \/ Detecting /\ Detecting' /\ UNCHANGED masking
           \/ Detecting /\ BeginMask /\ UNCHANGED <<kept, masking>>
           \/ UNCHANGED <<phase, kept, todo, masking>>
<1>1. Recognise \/ FindName => Detecting /\ Detecting' /\ UNCHANGED masking
  BY DEF Recognise, FindName, loop, Detecting
<1>2. ResolvePatterns \/ ResolveNames => Detecting /\ Detecting' /\ UNCHANGED masking
  BY DEF ResolvePatterns, ResolveNames, BeginResolve, Detecting
<1>3. Visit \/ EndPass => Detecting /\ Detecting' /\ UNCHANGED masking
  BY DEF Visit, EndPass, loop, Detecting
<1>4. EndPatterns => \/ Detecting /\ Detecting' /\ UNCHANGED masking
                     \/ Detecting /\ BeginMask /\ UNCHANGED <<kept, masking>>
  BY DEF EndPatterns, Resolved, Detecting
<1>5. EndNames => Detecting /\ BeginMask /\ UNCHANGED <<kept, masking>>
  BY DEF EndNames, Resolved, Detecting
<1>6. Done \/ UNCHANGED vars => UNCHANGED <<phase, kept, todo, masking>>
  BY DEF Done, vars, loop
<1> QED
  BY <1>1, <1>2, <1>3, <1>4, <1>5, <1>6 DEF Next

LEMMA BeginMaskInv ==
    ASSUME TypeOK, Quiet, Detecting, UNCHANGED <<kept, masking>>, BeginMask
    PROVE  MaskInv'
<1>1. hidden = {} /\ copied = 0 /\ \A b \in Bytes : written[b] = 0
  BY DEF Quiet, Detecting
<1>2. Covered(kept \ todo)' = {}
  BY DEF Covered, BeginMask
<1>3. todo' = kept' /\ hidden' = {} /\ copied' = 0 /\ written' = written /\ phase' = "mask"
  BY <1>1 DEF BeginMask, masking
<1>4. todo' \subseteq kept' /\ \A m \in todo' : copied' <= m.start
  BY <1>3, MatchFields DEF TypeOK
<1>5. \A b \in Bytes : written'[b] = IF b < copied' /\ b \notin hidden' THEN 1 ELSE 0
  BY <1>1, <1>3 DEF Bytes
<1>6. Masking'
  BY <1>2, <1>3, <1>4, <1>5 DEF Masking
<1> QED
  BY <1>3, <1>6 DEF MaskInv, Quiet, MaskedOnce

(* One match of the loop: it is the first of those left, and apart from    *)
(* every other.                                                            *)
LEMMA MaskStep ==
    ASSUME TypeOK, Apart, MaskInv, MaskMatch
    PROVE  MaskInv'
<1>1. PICK m \in First(todo) :
         Write(copied, m.start) /\ hidden' = hidden \cup Span(m) /\ copied' = m.end /\ todo' = todo \ {m}
  BY DEF MaskMatch
<1>2. phase = "mask" /\ phase' = "mask" /\ kept' = kept
  BY DEF MaskMatch, loop
<1>3. m \in todo /\ m \in kept /\ todo \subseteq kept /\ copied <= m.start /\ copied \in Nat
  BY <1>1, <1>2, PIIAssumption DEF First, MaskInv, Masking, TypeOK
<1>4. m.start \in Nat /\ m.end \in Nat /\ m.start < m.end
  BY <1>3, MatchFields DEF TypeOK, Apart, Disjoint
<1>5. \A o \in todo' : m.end <= o.start
  <2> SUFFICES ASSUME NEW o \in todo' PROVE m.end <= o.start
    OBVIOUS
  <2>1. o \in todo /\ o # m /\ o \in kept
    BY <1>1, <1>3
  <2>2. o.start \in Nat /\ o.end \in Nat /\ o.start < o.end /\ ~Overlap(m, o)
    BY <1>3, <2>1, MatchFields DEF TypeOK, Apart, Disjoint
  <2>3. ~Precedes(o, m)
    BY <1>1, <2>1 DEF First
  <2>4. ~(o.start < m.start)
    BY <2>3 DEF Precedes
  <2> QED
    BY <1>4, <2>2, <2>4 DEF Overlap
<1>6. hidden' = Covered(kept \ todo)'
  <2>1. kept' \ todo' = (kept \ todo) \cup {m}
    BY <1>1, <1>2, <1>3
  <2>2. Covered((kept \ todo) \cup {m}) = Covered(kept \ todo) \cup Span(m)
    BY DEF Covered
  <2>3. hidden = Covered(kept \ todo)
    BY <1>2 DEF MaskInv, Masking
  <2>4. Covered(kept \ todo)' = Covered((kept \ todo) \cup {m})
    BY <2>1 DEF Covered, Span
  <2> QED
    BY <1>1, <2>2, <2>3, <2>4
<1>7. \A b \in hidden' : b < copied'
  <2>1. \A b \in hidden : b < copied /\ b \in Nat
    BY <1>2, ByteIsNat DEF MaskInv, Masking, TypeOK
  <2>2. \A b \in Span(m) : b < m.end
    BY <1>4 DEF Span
  <2> QED
    BY <1>1, <1>3, <1>4, <2>1, <2>2
<1>8. \A b \in Bytes : written'[b] = IF b < copied' /\ b \notin hidden' THEN 1 ELSE 0
  <2> SUFFICES ASSUME NEW b \in Bytes
               PROVE  written'[b] = IF b < m.end /\ b \notin hidden' THEN 1 ELSE 0
    BY <1>1
  <2>1. b \in Nat /\ written[b] = IF b < copied /\ b \notin hidden THEN 1 ELSE 0
    BY <1>2, ByteIsNat DEF MaskInv, Masking
  <2>2. written'[b] = IF b \in copied..m.start - 1 THEN written[b] + 1 ELSE written[b]
    BY <1>1, <1>3 DEF Write, Appended
  <2>3. b \in hidden => b < copied
    BY <1>2 DEF MaskInv, Masking
  <2>4. b \in hidden' <=> b \in hidden \/ (m.start <= b /\ b < m.end)
    BY <1>1, <1>4, <2>1 DEF Span
  <2> QED
    BY <1>3, <1>4, <2>1, <2>2, <2>3, <2>4
<1>9. Masking'
  BY <1>1, <1>2, <1>3, <1>5, <1>6, <1>7, <1>8 DEF Masking
<1> QED
  BY <1>2, <1>9 DEF MaskInv, Quiet, MaskedOnce

LEMMA MaskEnds ==
    ASSUME TypeOK, MaskInv, EndMask
    PROVE  MaskInv'
<1>1. phase = "mask" /\ todo = {} /\ phase' = "done" /\ kept' = kept /\ hidden' = hidden /\ Write(copied, Size)
  BY DEF EndMask
<1>2. hidden = Covered(kept) /\ Covered(kept)' = Covered(kept)
  BY <1>1 DEF MaskInv, Masking, Covered, Span
<1>3. \A b \in Bytes : written'[b] = IF b \in hidden THEN 0 ELSE 1
  <2> SUFFICES ASSUME NEW b \in Bytes PROVE written'[b] = IF b \in hidden THEN 0 ELSE 1
    OBVIOUS
  <2>1. b \in Nat /\ b < Size /\ copied \in 0..Size
    BY PIIAssumption DEF Bytes, TypeOK
  <2>2. written[b] = (IF b < copied /\ b \notin hidden THEN 1 ELSE 0) /\ (b \in hidden => b < copied)
    BY <1>1 DEF MaskInv, Masking
  <2>3. written'[b] = IF copied <= b THEN written[b] + 1 ELSE written[b]
    BY <1>1, <2>1, PIIAssumption DEF Write, Appended
  <2> QED
    BY <2>1, <2>2, <2>3
<1> QED
  BY <1>1, <1>2, <1>3 DEF MaskInv, Quiet, Masking, MaskedOnce

LEMMA NextMask == TypeOK /\ Apart /\ MaskInv /\ [Next]_vars => MaskInv'
<1> SUFFICES ASSUME TypeOK, Apart, MaskInv, [Next]_vars PROVE MaskInv'
  OBVIOUS
<1>1. CASE Detecting /\ Detecting' /\ UNCHANGED masking
  BY <1>1 DEF MaskInv, Quiet, Masking, MaskedOnce, masking, Detecting
<1>2. CASE Detecting /\ BeginMask /\ UNCHANGED <<kept, masking>>
  BY <1>2, BeginMaskInv DEF MaskInv
<1>3. CASE UNCHANGED <<phase, kept, todo, masking>>
  BY <1>3 DEF MaskInv, Quiet, Masking, MaskedOnce, masking, Covered, Span
<1> QED
  BY <1>1, <1>2, <1>3, OtherSteps, MaskStep, MaskEnds

(* MaskedOnce: Mask deals with every byte of a text of any size once.      *)
THEOREM MaskedOnceCorrect == Spec => []MaskedOnce
<1>1. Spec => []MaskInv
  BY TypeCorrect, ApartCorrect, InitMask, NextMask, PTL DEF Spec
<1> QED
  BY <1>1, PTL DEF MaskInv
-----------------------------------------------------------------------------
(* Where every match goes.  Flow says it of the state between two steps:   *)
(* of what the loop has not visited, what it has kept, and what the first  *)
(* resolution returned.                                                    *)
Lost(m, matches) == \E k \in matches : Outranks(k, m)

(* One text and span has its user information or not.                      *)
Consistent == \A m, f \in found : SameText(m, f) => m.userinfo = f.userinfo

Loop ==
    phase = "resolve" =>
        /\ todo \cap kept = {}
        /\ pass = "patterns" => \A k \in kept : ~IsNER(k)
        /\ pass = "names" => \A m \in todo : IsNER(m)
        /\ \A k \in kept, m \in todo : (IsNER(k) <=> IsNER(m)) => Precedes(k, m)

FirstCall ==
    phase = "resolve" /\ call = "patterns" =>
        /\ todo \cup kept \subseteq found \ Yielding(found)
        /\ \A m \in found \ Yielding(found) : m \in todo \cup kept \/ m.start >= m.end \/ Lost(m, kept)

Returned ==
    phase \in {"names", "mask", "done"} \/ (phase = "resolve" /\ call = "names") =>
        /\ resolved \subseteq found \ Yielding(found)
        /\ \A r, s \in resolved : r.start < r.end /\ (r # s => ~Overlap(r, s))
        /\ \A m \in found \ Yielding(found) : m \in resolved \/ m.start >= m.end \/ Lost(m, resolved)

BetweenCalls == phase = "names" => kept = resolved /\ call = "patterns"
NoNamesYet ==
    /\ phase # "names" /\ call = "patterns" => names = {}
    /\ phase = "recognise" => call = "patterns"

SecondCall ==
    phase = "resolve" /\ call = "names" =>
        /\ todo \cup kept \subseteq resolved \cup names
        /\ resolved \subseteq todo \cup kept
        /\ \A n \in names : n \in todo \cup kept \/ Lost(n, kept)

End ==
    Final => /\ resolved \subseteq kept /\ kept \subseteq resolved \cup names
             /\ \A n \in names : n \in kept \/ Lost(n, kept)
             /\ call = "patterns" => \A b \in letters : b \in Covered(kept)

Flow == Consistent /\ Loop /\ FirstCall /\ Returned /\ BetweenCalls /\ NoNamesYet /\ SecondCall /\ End

LEMMA RankIsOrder ==
    \A s, t \in DOMAIN Rank : Rank[s] \in Nat /\ (Rank[s] = Rank[t] => s = t)
BY DEF Rank

(* Two matches are in order one way or the other.                          *)
LEMMA PrecedesIsTotal ==
    ASSUME NEW a \in Match, NEW b \in Match, a # b, SameText(a, b) => a.userinfo = b.userinfo,
           ~Precedes(b, a)
    PROVE  Precedes(a, b)
<1>1. /\ a.start \in Nat /\ a.end \in Nat /\ a.confidence \in Nat /\ a.type \in DOMAIN Rank
      /\ b.start \in Nat /\ b.end \in Nat /\ b.confidence \in Nat /\ b.type \in DOMAIN Rank
  BY MatchFields
<1>2. ~(a.start = b.start /\ a.end = b.end /\ a.confidence = b.confidence /\ a.type = b.type)
  BY MatchFields DEF SameText
<1>3. /\ Rank[a.type] \in Nat /\ Rank[b.type] \in Nat
      /\ Rank[a.type] = Rank[b.type] => a.type = b.type
  BY <1>1, RankIsOrder
<1> QED
  BY <1>1, <1>2, <1>3 DEF Precedes
LEMMA InitFlow == Init => Flow
BY DEF Init, Flow, Consistent, Loop, FirstCall, Returned, BetweenCalls, NoNamesYet, SecondCall, End, Final

(* Recognise adds a match that agrees with those of the same text.         *)
LEMMA RecogniseFlow ==
    ASSUME TypeOK, Flow, Recognise
    PROVE  Flow'
<1>1. PICK m \in PatternMatch \ found :
         (\A f \in found : SameText(m, f) => m.userinfo = f.userinfo) /\ found' = found \cup {m}
  BY DEF Recognise
<1>2. Consistent'
  BY <1>1 DEF Flow, Consistent, SameText
<1>3. phase' = "recognise" /\ call' = call /\ names' = names /\ phase = "recognise"
  BY DEF Recognise, loop
<1> QED
  BY <1>2, <1>3
     DEF Flow, Loop, FirstCall, Returned, BetweenCalls, NoNamesYet, SecondCall, End, Final

LEMMA ResolvePatternsFlow ==
    ASSUME TypeOK, Flow, ResolvePatterns
    PROVE  Flow'
<1>1. /\ phase = "recognise" /\ phase' = "resolve" /\ call' = "patterns" /\ pass' = "patterns"
      /\ todo' = found \ Yielding(found) /\ kept' = {} /\ found' = found /\ names' = names
  BY DEF ResolvePatterns, BeginResolve, text
<1>2. Yielding(found)' = Yielding(found)
  BY <1>1 DEF Yielding, Contains
<1>3. FirstCall'
  BY <1>1, <1>2 DEF FirstCall
<1>4. Loop' /\ Consistent'
  BY <1>1 DEF Loop, Flow, Consistent, SameText
<1>5. NoNamesYet'
  BY <1>1 DEF Flow, NoNamesYet
<1> QED
  BY <1>1, <1>3, <1>4, <1>5 DEF Flow, Returned, BetweenCalls, SecondCall, End, Final
(* A visit: the match is kept, is empty, or is lost to a kept match.       *)
LEMMA VisitIsLostOrKept ==
    ASSUME TypeOK, Flow, NEW m \in First(Current), phase = "resolve", m.start < m.end, OverlapsKept(m)
    PROVE  Lost(m, kept)
<1>1. m \in todo /\ (IsNER(m) <=> pass = "names")
  BY DEF First, Current
<1>2. PICK k \in Previous(m.end) : Overlap(m, k)
  BY DEF OverlapsKept
<1>3. k \in kept /\ Overlap(k, m)
  BY <1>2 DEF Previous, Overlap
<1>4. (IsNER(k) <=> IsNER(m)) => Precedes(k, m)
  BY <1>1, <1>3 DEF Flow, Loop
<1>5. pass = "patterns" => ~IsNER(k)
  BY <1>3 DEF Flow, Loop
<1>6. pass = "patterns" \/ pass = "names"
  BY DEF TypeOK
<1> QED
  BY <1>1, <1>3, <1>4, <1>5, <1>6 DEF Lost, Outranks

(* The matches of the loop come from one text.                             *)
LEMMA LoopIsConsistent ==
    ASSUME TypeOK, Flow, phase = "resolve", NEW a \in todo, NEW b \in todo, SameText(a, b)
    PROVE  a.userinfo = b.userinfo
<1>1. todo \subseteq found \cup names
  BY DEF Flow, FirstCall, SecondCall, Returned, TypeOK
<1>2. \A n \in names : IsNER(n) /\ ~n.userinfo /\ n.userinfo \in BOOLEAN
  BY MatchFields DEF TypeOK, NameMatch
<1>3. \A f \in found : ~IsNER(f)
  BY DEF TypeOK, PatternMatch
<1>4. IsNER(a) <=> IsNER(b)
  BY DEF SameText, IsNER
<1> QED
  BY <1>1, <1>2, <1>3, <1>4 DEF Flow, Consistent

LEMMA VisitLoop ==
    ASSUME TypeOK, Flow, Visit
    PROVE  Loop'
<1>1. PICK m \in First(Current) :
         /\ todo' = todo \ {m}
         /\ kept' = IF m.start >= m.end \/ OverlapsKept(m) THEN kept ELSE kept \cup {m}
  BY DEF Visit
<1>2. phase = "resolve" /\ phase' = "resolve" /\ pass' = pass
  BY DEF Visit, loop
<1>3. m \in todo /\ (IsNER(m) <=> pass = "names") /\ todo \subseteq Match
  BY DEF First, Current, TypeOK
<1>4. kept' \subseteq kept \cup {m}
  BY <1>1
<1>5. todo' \cap kept' = {}
  BY <1>1, <1>2, <1>4 DEF Flow, Loop
<1>6. pass' = "patterns" => \A k \in kept' : ~IsNER(k)
  BY <1>2, <1>3, <1>4 DEF Flow, Loop
<1>7. pass' = "names" => \A o \in todo' : IsNER(o)
  BY <1>1, <1>2 DEF Flow, Loop
<1>8. ASSUME NEW k \in kept', NEW o \in todo', IsNER(k) <=> IsNER(o)
      PROVE  Precedes(k, o)
  <2>1. CASE k \in kept
    BY <1>1, <1>2, <1>8, <2>1 DEF Flow, Loop
  <2>2. CASE k = m
    <3>1. o \in todo /\ o # m /\ o \in Current
      BY <1>1, <1>3, <1>8, <2>2 DEF Current
    <3>2. ~Precedes(o, m)
      BY <3>1 DEF First
    <3>3. SameText(m, o) => m.userinfo = o.userinfo
      BY <1>2, <1>3, <3>1, LoopIsConsistent
    <3> QED
      BY <1>3, <2>2, <3>1, <3>2, <3>3, PrecedesIsTotal
  <2> QED
    BY <1>4, <2>1, <2>2
<1> QED
  BY <1>5, <1>6, <1>7, <1>8 DEF Loop
(* What was lost stays lost, and the visited match is kept or lost.        *)
LEMMA VisitCalls ==
    ASSUME TypeOK, Apart, Flow, Visit
    PROVE  FirstCall' /\ SecondCall'
<1>1. PICK m \in First(Current) :
         /\ todo' = todo \ {m}
         /\ kept' = IF m.start >= m.end \/ OverlapsKept(m) THEN kept ELSE kept \cup {m}
  BY DEF Visit
<1>2. /\ phase = "resolve" /\ call' = call /\ found' = found /\ names' = names /\ resolved' = resolved
  BY DEF Visit, text, loop
<1>3. m \in todo /\ (IsNER(m) <=> pass = "names") /\ m \in Match
  BY DEF First, Current, TypeOK
<1>4. m.start \in Nat /\ m.end \in Nat
  BY <1>3, MatchFields
<1>5. todo' \cup kept' \subseteq todo \cup kept /\ kept \subseteq kept'
  BY <1>1, <1>3
<1>6. \A o : Lost(o, kept) => Lost(o, kept')
  BY <1>5 DEF Lost
<1>7. \A o \in todo \cup kept : o \in todo' \cup kept' \/ o.start >= o.end \/ Lost(o, kept')
  <2>1. m \in kept' \/ m.start >= m.end \/ Lost(m, kept)
    BY <1>1, <1>2, <1>4, VisitIsLostOrKept
  <2> QED
    BY <1>1, <1>5, <1>6, <2>1
<1>8. FirstCall'
  <2>1. Yielding(found)' = Yielding(found)
    BY <1>2 DEF Yielding, Contains
  <2> SUFFICES ASSUME call = "patterns"
               PROVE  /\ todo' \cup kept' \subseteq found \ Yielding(found)
                      /\ \A o \in found \ Yielding(found) :
                            o \in todo' \cup kept' \/ o.start >= o.end \/ Lost(o, kept')
    BY <1>2, <2>1 DEF FirstCall, Lost, Outranks, Overlap, IsNER, Precedes
  <2> QED
    BY <1>2, <1>5, <1>6, <1>7 DEF Flow, FirstCall
<1>9. ASSUME call = "names" PROVE resolved \subseteq todo' \cup kept'
  <2>1. resolved \subseteq todo \cup kept /\ kept \subseteq resolved \cup names
    BY <1>2, <1>9 DEF Flow, SecondCall
  <2>2. \A r, k \in resolved : r.start < r.end /\ (r # k => ~Overlap(r, k))
    BY <1>2, <1>9 DEF Flow, Returned
  <2> SUFFICES ASSUME m \in resolved PROVE m \in kept'
    BY <1>1, <2>1
  <2>3. ~IsNER(m)
    BY <1>2, <1>9 DEF TypeOK, PatternMatch, Flow, Returned
  <2> SUFFICES ASSUME OverlapsKept(m) PROVE FALSE
    BY <1>1, <1>4, <2>2
  <2>4. PICK k \in Previous(m.end) : Overlap(m, k)
    BY DEF OverlapsKept
  <2>5. k \in kept /\ k # m
    BY <1>2, <1>3, <2>4 DEF Previous, Flow, Loop
  <2>6. ~IsNER(k)
    BY <1>2, <1>3, <2>3, <2>5 DEF Flow, Loop, TypeOK
  <2>7. k \in resolved
    BY <2>1, <2>5, <2>6 DEF TypeOK, NameMatch
  <2> QED
    BY <2>2, <2>4, <2>5, <2>7
<1>10. ASSUME call = "names"
       PROVE  /\ todo' \cup kept' \subseteq resolved \cup names
              /\ \A n \in names : n \in todo' \cup kept' \/ Lost(n, kept')
  <2>1. /\ todo \cup kept \subseteq resolved \cup names
        /\ \A n \in names : n \in todo \cup kept \/ Lost(n, kept)
    BY <1>2, <1>10 DEF Flow, SecondCall
  <2>2. \A n \in names : n.start \in Nat /\ n.end \in Nat /\ n.start < n.end
    BY MatchFields DEF TypeOK, NameMatch
  <2> QED
    BY <1>5, <1>6, <1>7, <2>1, <2>2
<1>11. SecondCall'
  BY <1>2, <1>9, <1>10 DEF SecondCall, Lost, Outranks, Overlap, IsNER, Precedes
<1> QED
  BY <1>8, <1>11
LEMMA VisitFlow ==
    ASSUME TypeOK, Apart, Flow, Visit
    PROVE  Flow'
<1>1. /\ phase = "resolve" /\ phase' = "resolve" /\ call' = call
      /\ found' = found /\ names' = names /\ resolved' = resolved
  BY DEF Visit, text, loop
<1>2. Loop' /\ FirstCall' /\ SecondCall'
  BY VisitLoop, VisitCalls
<1>3. Returned'
  BY <1>1 DEF Flow, Returned, Yielding, Contains, Overlap, Lost, Outranks, IsNER, Precedes
<1> QED
  BY <1>1, <1>2, <1>3 DEF Flow, Consistent, SameText, BetweenCalls, NoNamesYet, End, Final

(* The second pass begins when no pattern match is left.                   *)
LEMMA EndPassFlow ==
    ASSUME TypeOK, Flow, EndPass
    PROVE  Flow'
<1>1. /\ phase = "resolve" /\ phase' = "resolve" /\ call' = call /\ pass' = "names"
      /\ found' = found /\ names' = names /\ resolved' = resolved /\ todo' = todo /\ kept' = kept
      /\ \A m \in todo : IsNER(m)
  BY DEF EndPass, text, Current
<1>2. Loop'
  BY <1>1 DEF Flow, Loop
<1>3. Returned' /\ FirstCall' /\ SecondCall'
  BY <1>1 DEF Flow, Returned, FirstCall, SecondCall, Yielding, Contains, Overlap, Lost, Outranks, IsNER, Precedes
<1> QED
  BY <1>1, <1>2, <1>3 DEF Flow, Consistent, SameText, BetweenCalls, NoNamesYet, End, Final

LEMMA ResolvedHasVisitedAll == Flow /\ (\E caller : Resolved(caller)) => todo = {}
BY DEF Flow, Loop, Resolved, Current

(* DetectPatterns has returned: what it kept is all there is to keep.      *)
LEMMA EndPatternsFlow ==
    ASSUME TypeOK, Apart, Flow, EndPatterns
    PROVE  Flow'
<1>1. /\ phase = "resolve" /\ call = "patterns" /\ call' = call /\ resolved' = kept /\ kept' = kept
      /\ found' = found /\ names' = names /\ letters' = letters
      /\ phase' = "names" \/ (phase' = "mask" /\ ~HasLetterOutside)
  BY DEF EndPatterns, Resolved, text, BeginMask
<1>2. todo = {}
  BY ResolvedHasVisitedAll DEF EndPatterns
<1>3. Returned'
  <2>1. kept \subseteq found \ Yielding(found)
    BY <1>1 DEF Flow, FirstCall
  <2>2. \A r, s \in kept : r.start < r.end /\ (r # s => ~Overlap(r, s))
    BY DEF Apart, Disjoint
  <2>3. \A m \in found \ Yielding(found) : m \in kept \/ m.start >= m.end \/ Lost(m, kept)
    BY <1>1, <1>2 DEF Flow, FirstCall
  <2> QED
    BY <1>1, <2>1, <2>2, <2>3
       DEF Returned, Yielding, Contains, Overlap, Lost, Outranks, IsNER, Precedes
<1>4. End'
  <2> SUFFICES ASSUME phase' = "mask", ~HasLetterOutside
               PROVE  /\ names = {}
                      /\ \A b \in letters : b \in Covered(kept)
    BY <1>1 DEF End, Final, Covered, Span
  <2> QED
    BY <1>1 DEF Flow, NoNamesYet, HasLetterOutside
<1>5. NoNamesYet' /\ BetweenCalls'
  BY <1>1 DEF Flow, NoNamesYet, BetweenCalls
<1> QED
  BY <1>1, <1>3, <1>4, <1>5 DEF Flow, Consistent, SameText, Loop, FirstCall, SecondCall

LEMMA FindNameFlow ==
    ASSUME TypeOK, Flow, FindName
    PROVE  Flow'
<1>1. /\ phase = "names" /\ phase' = "names" /\ call' = call /\ found' = found
      /\ kept' = kept /\ resolved' = resolved
  BY DEF FindName, loop
<1>2. Returned'
  BY <1>1 DEF Flow, Returned, Yielding, Contains, Overlap, Lost, Outranks, IsNER, Precedes
<1> QED
  BY <1>1, <1>2
     DEF Flow, Consistent, SameText, Loop, FirstCall, SecondCall, BetweenCalls, NoNamesYet, End, Final

(* No URL yields in the second call: those that would have already did.    *)
LEMMA NothingYieldsAgain ==
    ASSUME TypeOK, Flow, phase = "names"
    PROVE  Yielding(kept \cup names) = {}
<1>1. resolved \subseteq found \ Yielding(found) /\ kept = resolved
  BY DEF Flow, Returned, BetweenCalls
<1>2. \A n \in names : n.type = "NAME"
  BY DEF TypeOK, NameMatch, IsNER
<1> SUFFICES ASSUME NEW u \in kept \cup names, u.type = "URL", ~u.userinfo,
                    NEW e \in kept \cup names, e.type = "EMAIL", Contains(u, e)
             PROVE  FALSE
  BY DEF Yielding
<1>3. u \in found \ Yielding(found) /\ e \in found
  BY <1>1, <1>2
<1> QED
  BY <1>3 DEF Yielding

LEMMA ResolveNamesFlow ==
    ASSUME TypeOK, Flow, ResolveNames
    PROVE  Flow'
<1>1. /\ phase = "names" /\ phase' = "resolve" /\ call' = "names" /\ pass' = "patterns"
      /\ todo' = (kept \cup names) \ Yielding(kept \cup names) /\ kept' = {}
      /\ found' = found /\ names' = names /\ resolved' = resolved
  BY DEF ResolveNames, BeginResolve, text
<1>2. todo' = resolved \cup names
  BY <1>1, NothingYieldsAgain DEF Flow, BetweenCalls
<1>3. Returned'
  BY <1>1 DEF Flow, Returned, Yielding, Contains, Overlap, Lost, Outranks, IsNER, Precedes
<1>4. SecondCall' /\ Loop'
  BY <1>1, <1>2 DEF SecondCall, Loop
<1> QED
  BY <1>1, <1>3, <1>4 DEF Flow, Consistent, SameText, FirstCall, BetweenCalls, NoNamesYet, End, Final

LEMMA EndNamesFlow ==
    ASSUME TypeOK, Flow, EndNames
    PROVE  Flow'
<1>1. /\ phase = "resolve" /\ phase' = "mask" /\ call = "names" /\ call' = "names"
      /\ found' = found /\ names' = names /\ resolved' = resolved /\ kept' = kept
  BY DEF EndNames, Resolved, BeginMask, text
<1>2. todo = {}
  BY ResolvedHasVisitedAll DEF EndNames
<1>3. Returned'
  BY <1>1 DEF Flow, Returned, Yielding, Contains, Overlap, Lost, Outranks, IsNER, Precedes
<1>4. End'
  BY <1>1, <1>2 DEF Flow, SecondCall, End, Lost, Outranks, Overlap, IsNER, Precedes
<1> QED
  BY <1>1, <1>3, <1>4 DEF Flow, Consistent, SameText, Loop, FirstCall, SecondCall, BetweenCalls, NoNamesYet

(* Mask changes none of it.                                                *)
LEMMA MaskFlow ==
    ASSUME TypeOK, Flow, MaskMatch \/ EndMask \/ Done \/ UNCHANGED vars
    PROVE  Flow'
<1>1. /\ UNCHANGED <<text, call, kept, resolved>>
      /\ (phase \in {"mask", "done"} /\ phase' \in {"mask", "done"}) \/ UNCHANGED <<loop, todo>>
  BY DEF MaskMatch, EndMask, Done, vars, loop
<1>2. Consistent' /\ Returned' /\ End'
  BY <1>1 DEF Flow, Consistent, SameText, Returned, End, Final, text, loop, Covered, Span,
     Yielding, Contains, Overlap, Lost, Outranks, IsNER, Precedes
<1>3. CASE phase \in {"mask", "done"} /\ phase' \in {"mask", "done"}
  BY <1>1, <1>2, <1>3 DEF Flow, Loop, FirstCall, BetweenCalls, NoNamesYet, SecondCall, text
<1>4. CASE UNCHANGED <<loop, todo>>
  BY <1>1, <1>2, <1>4 DEF Flow, Loop, FirstCall, BetweenCalls, NoNamesYet, SecondCall, text, loop,
     Yielding, Contains, Overlap, Lost, Outranks, IsNER, Precedes
<1> QED
  BY <1>1, <1>3, <1>4
THEOREM FlowCorrect == Spec => []Flow
<1>1. TypeOK /\ Apart /\ Flow /\ [Next]_vars => Flow'
  BY RecogniseFlow, ResolvePatternsFlow, VisitFlow, EndPassFlow, EndPatternsFlow, FindNameFlow,
     ResolveNamesFlow, EndNamesFlow, MaskFlow DEF Next
<1> QED
  BY <1>1, InitFlow, TypeCorrect, ApartCorrect, PTL DEF Spec

(* NothingElseLost: whatever the matches of a text of any size, one is     *)
(* lost only to a kept match that overlaps it and comes first.             *)
THEOREM NothingElseLostCorrect == Spec => []NothingElseLost
<1>1. Flow => NothingElseLost
  <2> SUFFICES ASSUME Flow, Final, NEW m \in (found \ Yielding(found)) \cup names
               PROVE  m \in kept \/ m.start >= m.end \/ Lost(m, kept)
    BY DEF NothingElseLost, Lost
  <2>1. resolved \subseteq kept /\ \A n \in names : n \in kept \/ Lost(n, kept)
    BY DEF Flow, End
  <2>2. \A o \in found \ Yielding(found) : o \in resolved \/ o.start >= o.end \/ Lost(o, resolved)
    BY DEF Flow, Returned, Final
  <2> QED
    BY <2>1, <2>2 DEF Lost
<1> QED
  BY <1>1, FlowCorrect, PTL

(* PatternsStay: the second resolution drops no pattern match, whatever    *)
(* the NER model found.                                                    *)
THEOREM PatternsStayCorrect == Spec => []PatternsStay
<1>1. TypeOK /\ Flow => PatternsStay
  <2> SUFFICES ASSUME TypeOK, Flow, Final PROVE {k \in kept : ~IsNER(k)} = resolved
    BY DEF PatternsStay
  <2>1. resolved \subseteq kept /\ kept \subseteq resolved \cup names /\ resolved \subseteq found
    BY DEF Flow, End, Returned, Final
  <2>2. (\A r \in found : ~IsNER(r)) /\ \A n \in names : IsNER(n)
    BY DEF TypeOK, PatternMatch, NameMatch
  <2> QED
    BY <2>1, <2>2
<1> QED
  BY <1>1, TypeCorrect, FlowCorrect, PTL

(* SkipIsLossless: no match of the NER model could have been kept where it *)
(* was not asked.                                                          *)
THEOREM SkipIsLosslessCorrect == Spec => []SkipIsLossless
<1>1. TypeOK /\ Flow => SkipIsLossless
  <2> SUFFICES ASSUME TypeOK, Flow, Final, call = "patterns", NEW m \in NameMatch
               PROVE  \E k \in kept : Overlap(k, m)
    BY DEF SkipIsLossless
  <2>1. PICK b \in letters : b \in Span(m)
    BY DEF NameMatch
  <2>2. b \in Covered(kept) /\ b \in Nat
    BY ByteIsNat DEF Flow, End, TypeOK
  <2>3. PICK k \in kept : b \in Span(k)
    BY <2>2 DEF Covered
  <2>4. k.start \in Nat /\ k.end \in Nat /\ m.start \in Nat /\ m.end \in Nat
    BY MatchFields DEF TypeOK, NameMatch
  <2> QED
    BY <2>1, <2>2, <2>3, <2>4 DEF Span, Overlap
<1> QED
  BY <1>1, TypeCorrect, FlowCorrect, PTL
=============================================================================
