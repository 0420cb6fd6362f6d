----------------------------- MODULE MCCheckSuite -----------------------------
(***************************************************************************)
(* Small checks tables and targets for module CheckSuite: every check type *)
(* alone over the tables of up to MaxRows rows that it can tell apart, and *)
(* a few checks tables with several definitions.                           *)
(***************************************************************************)
EXTENDS CheckSuite

CONSTANTS MaxTargetRows, k1, k2, k3

\* The columns of the target: a DOUBLE, an integer far from zero, a HUGEINT, a DECIMAL with one
\* digit, a date, a text date, a key, a partition and the outcomes of two expressions.
MCColumnType ==
  [v |-> [kind |-> "double", scale |-> 0], i |-> [kind |-> "integer", scale |-> 0],
   w |-> [kind |-> "wide", scale |-> 0],   x |-> [kind |-> "decimal", scale |-> 1],
   d |-> [kind |-> "date", scale |-> 0],   s |-> [kind |-> "text", scale |-> 0],
   k |-> [kind |-> "id", scale |-> 0],     g |-> [kind |-> "id", scale |-> 0],
   p |-> [kind |-> "boolean", scale |-> 0], f |-> [kind |-> "boolean", scale |-> 0]]

BaseRow ==
  [v |-> Num(1), i |-> Num(1), w |-> Num(1), x |-> Num(1), d |-> 2, s |-> 2, k |-> k1, g |-> k2,
   p |-> TRUE, f |-> TRUE]

TablesOf(S) == UNION {[1 .. n -> S] : n \in 0 .. MaxTargetRows}

With(col, S) == {[BaseRow EXCEPT ![col] = y] : y \in S}
With2(col, S, col2, S2) == {[r EXCEPT ![col2] = y] : r \in With(col, S), y \in S2}

Outcomes == {TRUE, FALSE, Null, Fails}

Check ==
  [name |-> "n1", type |-> "volume", table |-> "t", column |-> <<>>, lower |-> Null,
   upper |-> Null, monitor |-> FALSE, id |-> Null, filter |-> Null, plain |-> TRUE,
   params |-> <<>>]

CheckOf(type, columns, params) ==
  [Check EXCEPT !.type = type, !.column = columns, !.params = params]

Bounded(s, lowers, uppers) == {[s EXCEPT !.lower = l, !.upper = u] : l \in lowers, u \in uppers}

\* The ways a check can be filtered, partitioned and made strict.
Shapes(S) ==
  LET empty == [fail_on_empty |-> TRUE] IN
    S \cup {[s EXCEPT !.filter = "f"] : s \in S}
      \cup {[s EXCEPT !.filter = "f", !.params = s.params @@ empty] : s \in S}
      \cup {[s EXCEPT !.params = s.params @@ empty, !.monitor = TRUE] : s \in S}

Grouping(S) == S \cup {[s EXCEPT !.id = "g"] : s \in S}

Alone(checks, rows) ==
  [target : TablesOf(rows), defs : {<<s>> : s \in checks}, sources : {{"table"}}]

Half1 == Frac(1, 2)
Unset == {Null}
Filtered(col, S) == With2(col, S, "f", {TRUE, Fails})
Parted(col, S) == With2(col, S, "g", {k2, Null})

Rates == {Null, Half1, Num(1), NaN}

Named(name, s) == [s EXCEPT !.name = name]

\* Checks tables of up to four definitions: none, shared and missing names, and definitions that
\* cannot run beside ones that can.
MCDefinitions ==
  LET rate == CheckOf("null_rate", <<"v">>, <<>>)
      keys == CheckOf("duplicate_count", <<"k">>, [fail_on_empty |-> TRUE])
  IN  { <<>>,
        <<Check, rate, Named("n2", keys)>>,
        <<Named(Null, Check), [Check EXCEPT !.table = "gone"]>>,
        <<Check, Named("n2", [Check EXCEPT !.params = [fail_on_empty |-> Malformed]]),
          Named("n3", CheckOf("no_such_type", <<>>, <<>>)), Named("n4", [keys EXCEPT !.column = <<"zz">>])>>,
        <<[Check EXCEPT !.id = "g"], Named("n2", [keys EXCEPT !.id = "g"]),
          Named("n3", [rate EXCEPT !.filter = "f", !.id = "g"])>>,
        <<Check, Named("n2", CheckOf("compliance", <<>>, [expression |-> "p", agg |-> "sum"])),
          Named("n3", [CheckOf("compliance", <<>>, [expression |-> "p"]) EXCEPT !.plain = FALSE])>> }

MCEdits(defs) == IF defs \in MCDefinitions THEN MCDefinitions \ {defs} ELSE {}

MCOther == << [BaseRow EXCEPT !.k = k1], [BaseRow EXCEPT !.k = k1], [BaseRow EXCEPT !.k = Null] >>

MCCases ==
  UNION {
    Alone(Grouping(Shapes(Bounded(Check, {Null, Num(1), Num(3)}, {Null, Num(1)}))),
          With2("g", {k2, Null}, "f", {TRUE, Fails})),
    Alone(Grouping(Shapes(Bounded(CheckOf("null_rate", <<"v">>, <<>>), Unset, Rates))),
          Filtered("v", {Null, Num(1)}) \cup Parted("v", {Null, Num(1)})),
    Alone(Shapes(Bounded(CheckOf("distinct_count", <<"k">>, <<>>), {Null, Num(2)}, {Num(1), Inf})),
          Filtered("k", {k1, k2, Null})),
    Alone(Grouping(Shapes(Bounded(CheckOf("regex_match", <<"k">>, [pattern |-> {k1}]), Rates, {Null, Half1})
            \cup Bounded(CheckOf("values_in_set", <<"k">>, [allowed_values |-> {k1}]), Rates, Unset))),
          With("k", {k1, k2, Null}) \cup Parted("k", {k1, k2}) \cup With2("k", {k1}, "f", {Fails})),
    Alone(Grouping(Shapes(UNION {
            Bounded(CheckOf("agg", <<"v">>, [agg |-> g]), {Num(1), NegInf}, {Num(1), Num(2)})
              : g \in {"avg", "min", "max", "sum", "median"}})),
          With("v", {Null, Num(1), Num(3), NaN}) \cup Parted("v", {Num(1)})),
    Alone(Grouping(UNION {Bounded(CheckOf("agg", <<"w">>, [agg |-> g]), {Null, Num(0)}, {Num(4)})
              : g \in {"avg", "max", "sum"}}),
          With("w", {Num(n) : n \in {-128, -80, -3, 2, 50, 127}}) \cup Parted("w", {Num(127), Num(-80)})),
    Alone(UNION {Bounded(CheckOf("agg", <<"x">>, [agg |-> g]), {Null, Frac(5, 6)}, {Frac(3, 2)})
              : g \in {"avg", "min", "sum"}},
          With("x", {Frac(n, 3) : n \in {-8, -1, 0, 2, 3, 4, 5, 8}})),
    [target : [1 .. 4 -> With("i", {Num(n) : n \in {-3, 14, 17, 18, 19, 20}})],
     defs : {<<CheckOf("agg", <<"i">>, [agg |-> "max"]),
               Named("n2", CheckOf("agg", <<"i">>, [agg |-> "sum"]))>>},
     sources : {{"table"}}],
    Alone(Grouping(Shapes(Bounded(CheckOf("duplicate_count", <<"k">>, <<>>), Unset, {Null, Num(0), Num(1)}))),
          Parted("k", {k1, Null})),
    Alone(Bounded(CheckOf("duplicate_count", <<"k", "g">>, <<>>), Unset, {Num(0)}), Parted("k", {k1, Null})),
    Alone(Grouping(Shapes(Bounded(CheckOf("compliance", <<>>, [expression |-> "p"]), Rates, Unset)
            \cup {[CheckOf("compliance", <<>>, [expression |-> "p"]) EXCEPT !.plain = FALSE]})),
          With("p", Outcomes) \cup With2("p", {TRUE, Fails}, "f", {TRUE, FALSE})),
    Alone(Grouping(Shapes(Bounded(CheckOf("freshness", <<"s">>, [reference_time |-> 4]), Unset,
                                  {Null, Num(1), Num(2)}))),
          With("s", {Null, 1, 3, Inf, NotDate}) \cup Parted("s", {3, NotDate})),
    Alone(Shapes(UNION {Bounded(CheckOf("occurrence", <<"k">>, [mode |-> m]), {Null, Num(2)}, {Num(1), Num(2)})
              : m \in {"min", "max"}}),
          Filtered("k", {k1, k2, Null})),
    Alone(Shapes(Bounded(CheckOf("match_rate", <<"k">>, [right_keys |-> <<"k">>]), Rates, Unset)
            \cup Bounded(CheckOf("match_rate", <<>>, [left_keys |-> <<"k", "g">>,
                                                  right_keys |-> <<"k", "g">>]), {Half1}, Unset)),
          Filtered("k", {k1, k2, Null}) \cup With2("k", {k1, k3}, "g", {k2, Null})),
    Alone({CheckOf("schema_check", <<>>, [columns |-> S]) : S \in {{}, {"v"}, {"v", "zz"}}}, {BaseRow}),
    Alone(Shapes(UNION {Bounded(CheckOf("rel_count_change", <<>>,
                   [date_column |-> "s", window_days |-> w, fill_missing_days |-> q] @@ r),
                   {Null}, {Half1})
              : w \in {1, 2}, q \in BOOLEAN, r \in {<<>>, [reference_date |-> 4],
                                                    [count_column |-> "k"]}}),
          With("s", {1, 2, 3, Inf, NotDate}) \cup With2("s", {2}, "k", {k2})
            \cup With2("s", {2}, "f", {FALSE})),
    Alone(Shapes({CheckOf("metric_anomaly_iqr", col, [date_column |-> "d", k |-> k] @@ r)
              : col \in {<<>>, <<"v">>}, k \in {Num(0), Frac(3, 2)}, r \in {<<>>, [reference_date |-> 4]}}),
          With2("d", {1, 2, 3}, "v", {Num(1), Num(3), Null})),
    Alone(Shapes({[CheckOf("rolling_values_in_set", <<"k">>,
                      [date_column |-> "d", window_days |-> 2, allowed_values |-> {k1}] @@ r)
                    EXCEPT !.lower = Half1] : r \in {<<>>, [reference_date |-> 3]}}),
          With2("d", {1, 2, 3, Inf}, "k", {k1, k3, Null}) \cup With2("d", {1, 3}, "f", {TRUE, Null})),
    [target : TablesOf({BaseRow}), defs : MCDefinitions,
     sources : {{"table", "view", "temp view"}}] }
===============================================================================
