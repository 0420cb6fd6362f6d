------------------------------- MODULE MCDiff -------------------------------
EXTENDS Diff, TLC

Words(s) == <<"word", s, s>>

(***************************************************************************)
(* A table with a numeric key, an amount and an instant.                   *)
(***************************************************************************)
Line(id, amount, at) == [id |-> id, amount |-> amount, at |-> at]

Columns(key, amount, at) ==
  <<[name |-> "id", type |-> key], [name |-> "amount", type |-> amount], [name |-> "at", type |-> at]>>

Both(columns, rows) == LET t == [columns |-> columns, rows |-> rows] IN [old |-> t, new |-> t]

Decimals ==
  Both(Columns("INTEGER", "DECIMAL", "TIMESTAMPTZ"),
       <<Line(Num(1), Frac(5, 4), <<4>>), Line(Num(2), Null, <<6>>), Line(Null, Num(3), Null)>>)

Doubles ==
  Both(Columns("INTEGER", "DOUBLE", "TIMESTAMP"),
       <<Line(Num(1), Frac(5, 4), <<4>>), Line(Num(2), Null, <<6>>), Line(Null, NaN, Null)>>)

Migrated == {Decimals, Doubles}

\* Keys next to each other beyond the integers a DOUBLE holds.
WideKeys ==
  {Both(Columns("BIGINT", "DECIMAL", "TIMESTAMP"),
        <<Line(Num(8), Frac(5, 4), <<4>>), Line(Num(9), Num(3), <<4>>)>>)}

Written ==
  [INTEGER |-> {Num(1), Num(4), Null}, BIGINT |-> {Num(2)}, DECIMAL |-> {Num(1), Null},
   DOUBLE |-> {Frac(13, 10), Inf}, FLOAT |-> {Frac(3, 2)}, TIMESTAMP |-> {<<6>>}, TIMESTAMPTZ |-> {<<6>>, Null},
   TIMESTAMP_NS |-> {<<5>>}, VARCHAR |-> {<<"zeros", 1, 1>>, Words("n/a")}]

Changes ==
  {<<"INTEGER", "BIGINT">>, <<"INTEGER", "VARCHAR">>, <<"DECIMAL", "DOUBLE">>,
   <<"DECIMAL", "VARCHAR">>, <<"DOUBLE", "FLOAT">>, <<"DOUBLE", "VARCHAR">>, <<"TIMESTAMPTZ", "VARCHAR">>,
   <<"TIMESTAMPTZ", "TIMESTAMP">>}

KeyToDouble == {<<"BIGINT", "DOUBLE">>}

CallOf(fn, positional, named) == [fn |-> fn, positional |-> positional, named |-> named]

ById(fn, named) == CallOf(fn, <<"old", "new", <<"id">>>>, named)

None == [n \in {} |-> Null]

Diffs == <<
  ById("diff_joindiff", [float_tolerance |-> Frac(1, 2)]),
  ById("diff_joindiff", [float_tolerance |-> NaN]),
  ById("diff_hashdiff", [float_precision |-> 1]),
  CallOf("diff_joindiff", <<"old", "new">>, [primary_key |-> <<"id">>, primary_keys |-> <<"id">>]),
  CallOf("diff_joindiff", <<"old">>, [target_table |-> "new", primary_keys |-> <<"id", "at">>]),
  CallOf("diff_joindiff", <<"new", "new", <<Null>>>>, [source_table |-> "old", primary_key |-> <<"id">>]),
  CallOf("diff_joindiff", <<"new", "old", <<"id">>>>,
         [compare_columns |-> <<"at", "amount", Null>>, include_all |-> TRUE]),
  CallOf("diff_joindiff", <<"old", "gone", <<"id">>>>, None),
  CallOf("diff_hashdiff", <<"old", "new", <<"id">>, 3>>, None),
  CallOf("diff_schema", <<"old", "new">>, None) >>

NewColumns == {"note", "diff_type"}
=============================================================================
