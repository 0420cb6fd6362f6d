------------------------------ MODULE MCProfile ------------------------------
EXTENDS Profile, TLC

CONSTANT Text

(***************************************************************************)
(* A column of each kind of number and columns of other types, one of them *)
(* with the name of a number in the text of its type.                      *)
(***************************************************************************)
Of(name, type, words, kind, digits, family) ==
  [name |-> name, type |-> type, words |-> words, kind |-> kind, scale |-> 0, digits |-> digits,
   family |-> family]

Numbers == <<
  Of("h", "HUGEINT", {"INT"}, "wide", 38, "numeric"),
  Of("x", "DOUBLE", {}, "double", 0, "numeric"),
  Of("d", "DECIMAL", {"DECIMAL"}, "decimal", 38, "numeric") >>

Others == <<
  Of("pause", "INTERVAL", {"INT"}, "none", 0, "temporal"),
  Of("tags", "LIST", {"INT"}, "none", 0, "complex"),
  Of("note", "VARCHAR", {"VARCHAR"}, "none", 0, "string"),
  Of("at", "TIMESTAMP", {"TIMESTAMP", "TIME"}, "none", 0, "temporal"),
  Of("done", "BOOLEAN", {}, "none", 0, "boolean"),
  Of("ref", "UUID", {}, "none", 0, "other") >>

MCColumns == Numbers \o Others

RowOf(h, x, d, v) ==
  [h |-> h, x |-> x, d |-> d, pause |-> v, tags |-> v, note |-> v, at |-> v, done |-> v, ref |-> v]

MCRows == {
  RowOf(Num(63), Num(1), Num(-36), Text),
  RowOf(Num(64), Null, Num(-34), Null),
  RowOf(Num(64), Num(2), Num(43), Text),
  RowOf(Null, NaN, Num(-40), Null),
  RowOf(Num(57), Inf, Num(-34), Text),
  RowOf(Num(127), Num(1), Num(-34), Null) }

MCStates ==
  { <<>>,
    << RowOf(Num(63), Num(1), Num(-36), Text), RowOf(Num(64), Null, Num(-34), Null) >>,
    << RowOf(Num(64), Num(2), Num(43), Text), RowOf(Num(63), Num(1), Num(-36), Text),
       RowOf(Num(51), Num(0), Null, Text) >>,
    << RowOf(Null, NaN, Num(-40), Null), RowOf(Num(57), Inf, Num(-34), Text) >>,
    << RowOf(Num(-128), Num(1), Num(-36), Text), RowOf(Num(64), Num(2), Num(43), Null) >> }

==============================================================================
