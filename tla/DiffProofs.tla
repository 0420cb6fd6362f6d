----------------------------- MODULE DiffProofs -----------------------------
(***************************************************************************)
(* Proofs about Diff, for any two tables, any migration and any calls.     *)
(***************************************************************************)
EXTENDS Diff, SequenceTheorems, TLAPS

(***************************************************************************)
(* Values and their forms.                                                 *)
(***************************************************************************)

Numbers == (Int \X (Nat \ {0})) \cup {Null, NaN, Inf, NegInf}

(* An integer that is left stays, and so does one where more are left.     *)
LEMMA NearestStays ==
  ASSUME NEW n \in Int, NEW e \in Nat
  PROVE  /\ NearestInteger(n, e) \in Int
         /\ NearestInteger(NearestInteger(n, e), e) = NearestInteger(n, e)
         /\ \A f \in Nat : n = NearestInteger(n, e) /\ e <= f => NearestInteger(n, f) = n
<1>1. CASE Abs(n) <= e
  BY <1>1 DEF NearestInteger, Abs
<1>2. CASE ~(Abs(n) <= e)
  <2> DEFINE m == 4 * ((n + 2) \div 4) + (IF n % 4 = 2 THEN -2 ELSE 0)
  <2>1. NearestInteger(n, e) = m
    BY <1>2 DEF NearestInteger
  <2>2. m \in Int /\ 4 * ((m + 2) \div 4) + (IF m % 4 = 2 THEN -2 ELSE 0) = m
    <3>1. PICK q \in Int : q = (n + 2) \div 4
      OBVIOUS
    <3>2. \/ m = 4 * q /\ (m + 2) \div 4 = q /\ m % 4 = 0
          \/ m = 4 * q - 2 /\ (m + 2) \div 4 = q /\ m % 4 = 2
      BY <3>1
    <3> QED
      BY <3>1, <3>2
  <2> HIDE DEF m
  <2>3. \A f \in Nat : NearestInteger(m, f) = m
    BY <2>2 DEF NearestInteger
  <2> QED
    BY <2>1, <2>2, <2>3
<1> QED
  BY <1>1, <1>2

(* A pair of numbers is none of the special values.                        *)
LEMMA NumberIsOrdinary ==
  ASSUME NEW n \in Int, NEW d \in Nat \ {0}
  PROVE  /\ <<n, d>> \in Numbers /\ <<n, d>>[1] = n /\ <<n, d>>[2] = d
         /\ <<n, d>> \notin {Null, NaN, Inf, NegInf} /\ IsFinite(<<n, d>>)
<1>1. <<n, d>> \notin {Null, NaN, Inf, NegInf}
  BY TablesAssumption
<1> QED
  BY <1>1 DEF Numbers, IsFinite

(* What a cast to DOUBLE gives is a DOUBLE, and NULL only for NULL.        *)
LEMMA DoubleOfDouble ==
  ASSUME NEW x \in Numbers
  PROVE  /\ ToDouble(x) = ToDouble(ToDouble(x))
         /\ ToDouble(x) \in Numbers
         /\ x # Null <=> ToDouble(x) # Null
<1>1. CASE ~IsFinite(x) \/ x[2] # 1
  BY <1>1 DEF ToDouble
<1>2. CASE IsFinite(x) /\ x[2] = 1
  <2>1. PICK n \in Int, d \in Nat \ {0} : x = <<n, d>>
    BY <1>2 DEF IsFinite, Numbers
  <2> DEFINE m == NearestInteger(n, ExactUpTo)
  <2>2. x[1] = n /\ d = 1
    BY <1>2, <2>1
  <2>3. ToDouble(x) = Num(m)
    BY <1>2, <2>2 DEF ToDouble
  <2>4. m \in Int /\ NearestInteger(m, ExactUpTo) = m
    BY <2>2, NearestStays, TablesAssumption
  <2> HIDE DEF m
  <2>5. /\ Num(m) \in Numbers /\ Num(m)[1] = m /\ Num(m)[2] = 1
        /\ Num(m) \notin {Null, NaN, Inf, NegInf} /\ IsFinite(Num(m))
    BY <2>4, NumberIsOrdinary DEF Num
  <2>6. ToDouble(Num(m)) = Num(m)
    BY <2>4, <2>5 DEF ToDouble
  <2> QED
    BY <1>2, <2>3, <2>5, <2>6 DEF IsFinite
<1> QED
  BY <1>1, <1>2

(* What a cast to FLOAT gives is a FLOAT, and a DOUBLE too.                *)
LEMMA FloatOfFloat ==
  ASSUME NEW x \in Numbers
  PROVE  /\ ToFloat(x) = ToFloat(ToFloat(x))
         /\ ToFloat(x) \in Numbers
         /\ x # Null <=> ToFloat(x) # Null
         /\ x = ToFloat(x) => x = ToDouble(x)
<1>1. CASE ~IsFinite(x)
  BY <1>1 DEF ToFloat, ToDouble
<1>2. CASE IsFinite(x)
  <2>1. PICK n \in Int, d \in Nat \ {0} : x = <<n, d>>
    BY <1>2 DEF IsFinite, Numbers
  <2>2. x[1] = n /\ x[2] = d
    BY <2>1
  <2> DEFINE h == (4 * n + d) \div (2 * d)
             Integer(k) == NearestInteger(k, FloatUpTo)
  <2>3. h \in Int
    <3>1. 4 * n + d \in Int /\ 2 * d \in Nat /\ 2 * d > 0
      OBVIOUS
    <3> QED
      BY <3>1
  <2>4. ToFloat(x) = IF d = 2 THEN x
                     ELSE IF d = 1 THEN Num(Integer(n))
                     ELSE IF h % 2 = 1 THEN <<h, 2>>
                          ELSE Num(Integer(h \div 2))
    BY <1>2, <2>2 DEF ToFloat
  <2> HIDE DEF h
  <2>5. ASSUME NEW k \in Int
        PROVE  /\ Num(Integer(k)) \in Numbers /\ Num(Integer(k)) # Null
               /\ ToFloat(Num(Integer(k))) = Num(Integer(k))
    <3> DEFINE m == Integer(k)
    <3>0. FloatUpTo \in Nat
      BY TablesAssumption
    <3>1. m \in Int /\ Integer(m) = m
      BY <3>0, NearestStays
    <3> HIDE DEF m
    <3>2. Num(m) \in Numbers /\ Num(m)[1] = m /\ Num(m)[2] = 1 /\ Num(m) # Null /\ IsFinite(Num(m))
      BY <3>1, NumberIsOrdinary DEF Num
    <3>3. ToFloat(Num(m)) = Num(m)
      BY <3>1, <3>2 DEF ToFloat
    <3> QED
      BY <3>2, <3>3 DEF m
  <2>6. <<h, 2>> \in Numbers /\ <<h, 2>> # Null /\ ToFloat(<<h, 2>>) = <<h, 2>>
    <3>1. <<h, 2>> \in Numbers /\ <<h, 2>> # Null /\ <<h, 2>>[2] = 2
      BY <2>3, NumberIsOrdinary
    <3> QED
      BY <3>1 DEF ToFloat
  <2>7. h \div 2 \in Int
    BY <2>3
  <2>8. x # Null
    BY <1>2 DEF IsFinite
  <2>9. /\ ToFloat(x) = ToFloat(ToFloat(x))
        /\ ToFloat(x) \in Numbers
        /\ ToFloat(x) # Null
    <3> HIDE DEF Integer
    <3>1. CASE d = 2
      BY <2>4, <2>8, <3>1
    <3>2. CASE d = 1
      BY <2>4, <2>5, <3>2
    <3>3. CASE d \notin {1, 2} /\ h % 2 = 1
      BY <2>4, <2>6, <3>3
    <3>4. CASE d \notin {1, 2} /\ h % 2 # 1
      BY <2>4, <2>5, <2>7, <3>4
    <3> QED
      BY <3>1, <3>2, <3>3, <3>4
  <2>10. ASSUME x = ToFloat(x) PROVE x = ToDouble(x)
    <3>1. CASE d # 1
      BY <2>2, <3>1 DEF ToDouble
    <3>2. CASE d = 1
      <4>1. x = Num(Integer(n)) /\ x = Num(n)
        BY <2>1, <2>4, <2>10, <3>2 DEF Num
      <4>2. n = Integer(n)
        <5> HIDE DEF Integer
        <5> QED
          BY <4>1 DEF Num
      <4>3. NearestInteger(n, ExactUpTo) = n
        BY <4>2, NearestStays, TablesAssumption
      <4> QED
        BY <1>2, <2>2, <3>2, <4>1, <4>3 DEF ToDouble
    <3> QED
      BY <3>1, <3>2
  <2> QED
    BY <2>8, <2>9, <2>10
<1> QED
  BY <1>1, <1>2

(* The same of the type in which numbers are compared.                     *)
LEMMA CommonOfCommon ==
  ASSUME NEW x \in Numbers, NEW types
  PROVE  /\ ToCommon(x, types) = ToCommon(ToCommon(x, types), types)
         /\ ToCommon(x, types) \in Numbers
         /\ x # Null <=> ToCommon(x, types) # Null
BY DoubleOfDouble, FloatOfFloat DEF ToCommon

(* No type writes its values as the special words are written.             *)
LEMMA SpellingIsNoWord ==
  ASSUME NEW type \in ColumnTypes, type # "VARCHAR"
  PROVE  type \in DOMAIN Spelling /\ Spelling[type] # "word"
<1>1. /\ Spelling["INTEGER"] = "digits" /\ Spelling["BIGINT"] = "digits" /\ Spelling["DECIMAL"] = "fixed"
      /\ Spelling["FLOAT"] = "point" /\ Spelling["DOUBLE"] = "point"
      /\ Spelling["TIMESTAMP"] = "time" /\ Spelling["TIMESTAMP_NS"] = "time" /\ Spelling["TIMESTAMPTZ"] = "utc time"
  BY DEF Spelling
<1>2. type \in {"INTEGER", "BIGINT", "DECIMAL", "FLOAT", "DOUBLE", "TIMESTAMP", "TIMESTAMP_NS", "TIMESTAMPTZ"}
  BY DEF ColumnTypes, Numeric, Integral, FloatingPoint, PlainTimestamps
<1> HIDE DEF Spelling
<1>3. /\ "digits" # "word" /\ "fixed" # "word" /\ "point" # "word" /\ "time" # "word" /\ "utc time" # "word"
  OBVIOUS
<1>4. type \in DOMAIN Spelling
  BY <1>2 DEF Spelling
<1> QED
  BY <1>1, <1>2, <1>3, <1>4

(* A text that a value is written as is none of the special values.        *)
LEMMA TextIsOrdinary ==
  ASSUME NEW type \in ColumnTypes, type # "VARCHAR", NEW x, IsValue(x, type), x # Null
  PROVE  AsText(x, type) \notin {Null, NaN, Inf, NegInf}
<1>1. CASE x \in {NaN, Inf, NegInf}
  BY <1>1, TablesAssumption DEF AsText
<1>2. CASE x \notin {NaN, Inf, NegInf}
  <2>1. AsText(x, type) = <<Spelling[type], x[1], x[Len(x)]>>
    BY <1>2 DEF AsText
  <2>2. Spelling[type] \in {Spelling[kind] : kind \in DOMAIN Spelling}
    BY SpellingIsNoWord
  <2>3. x[1] \in Int /\ x[Len(x)] \in Int
    <3>1. x \in Int \X Int \/ (x \in Seq(Int) /\ Len(x) = 1)
      BY <1>2 DEF IsValue, ColumnTypes, Numeric, Integral, FloatingPoint, PlainTimestamps
    <3>2. ASSUME x \in Int \X Int PROVE x[1] \in Int /\ x[2] \in Int /\ Len(x) = 2
      <4>1. PICK n \in Int, d \in Int : x = <<n, d>>
        BY <3>2
      <4> QED
        BY <4>1
    <3>3. ASSUME x \in Seq(Int), Len(x) = 1 PROVE x[1] \in Int
      <4>1. 1 \in 1..Len(x)
        BY <3>3
      <4> QED
        BY <3>3, <4>1, ElementOfSeq
    <3>4. CASE x \in Int \X Int
      BY <3>2, <3>4
    <3>5. CASE x \in Seq(Int) /\ Len(x) = 1
      BY <3>3, <3>5
    <3> QED
      BY <3>1, <3>4, <3>5
  <2> QED
    BY <2>1, <2>2, <2>3, TablesAssumption
<1> QED
  BY <1>1, <1>2

(* A cast of a migration gives a value of the new type.                    *)
LEMMA CastFits ==
  ASSUME NEW from, NEW to, <<from, to>> \in Castable, NEW v, IsValue(v, from)
  PROVE  IsValue(Cast(v, from, to), to)
<1>1. CASE to = "VARCHAR"
  <2>1. CASE v = Null \/ from = "VARCHAR"
    BY <1>1, <2>1 DEF Cast, AsText, IsValue, Integral, FloatingPoint
  <2>2. CASE v # Null /\ from # "VARCHAR"
    <3>1. DOMAIN AsText(v, from) = 1..3
      BY <2>2 DEF AsText
    <3>2. AsText(v, from) \notin {NaN, Inf, NegInf}
      <4>1. from \in ColumnTypes
        BY DEF Castable, ColumnTypes, Numeric, PlainTimestamps
      <4> QED
        BY <2>2, <4>1, TextIsOrdinary
    <3> QED
      BY <1>1, <3>1, <3>2 DEF Cast, IsValue
  <2> QED
    BY <2>1, <2>2
<1>2. CASE from \in Numeric /\ to \in FloatingPoint
  <2>1. v \in Numbers
    BY <1>2 DEF IsValue, Numeric, Integral, FloatingPoint, Numbers
  <2>2. Cast(v, from, to) = ToCommon(v, {to})
    BY <1>2 DEF Cast, FloatingPoint
  <2> DEFINE w == ToCommon(v, {to})
  <2>3. w \in Numbers /\ w = ToCommon(w, {to})
    BY <2>1, CommonOfCommon
  <2> HIDE DEF w
  <2> QED
    BY <1>2, <2>2, <2>3 DEF IsValue, Numbers, w
<1>3. CASE from \in Integral /\ to \in Integral \cup {"DECIMAL"}
  <2>1. Cast(v, from, to) = v
    BY <1>3 DEF Cast, ToCommon, Integral
  <2> QED
    BY <1>3, <2>1 DEF IsValue, FloatingPoint, Integral
<1>4. CASE from \in {"TIMESTAMP", "TIMESTAMPTZ"} /\ to \in PlainTimestamps \cup {"TIMESTAMPTZ"}
  <2>1. Cast(v, from, to) = v
    BY <1>4 DEF Cast, ToCommon, FloatingPoint, PlainTimestamps, Numeric, Integral
  <2> QED
    BY <1>4, <2>1 DEF IsValue, FloatingPoint, Integral, PlainTimestamps
<1> QED
  BY <1>1, <1>2, <1>3, <1>4 DEF Castable, Numeric

(***************************************************************************)
(* Tables.                                                                 *)
(***************************************************************************)

(* A sequence over any set is one over its own elements.                   *)
LEMMA SeqOfItsElements ==
  ASSUME NEW A, NEW s \in Seq(A)
  PROVE  s \in Seq(ToSet(s)) /\ ToSet(s) \subseteq A
<1>1. DOMAIN s = 1..Len(s) /\ Len(s) \in Nat /\ s = [i \in 1..Len(s) |-> s[i]]
  OBVIOUS
<1>2. ToSet(s) \subseteq A /\ \A i \in 1..Len(s) : s[i] \in ToSet(s)
  BY <1>1 DEF ToSet
<1> HIDE DEF ToSet
<1>3. [i \in 1..Len(s) |-> s[i]] \in Seq(ToSet(s))
  BY <1>1, <1>2
<1> QED
  BY <1>1, <1>2, <1>3

HasColumns(t) == t.columns \in Seq([name : STRING, type : ColumnTypes]) /\ IsInjective(Names(t))

(* A name of a table belongs to one column, and its type is that column's. *)
LEMMA TypeOfColumn ==
  ASSUME NEW t, HasColumns(t), NEW i \in DOMAIN t.columns
  PROVE  /\ t.columns[i].name \in NameSet(t)
         /\ TypeOf(t, t.columns[i].name) = t.columns[i].type
         /\ t.columns[i].type \in ColumnTypes
         /\ t.columns[i].name \in STRING
<1>1. /\ DOMAIN Names(t) = DOMAIN t.columns
      /\ \A j \in DOMAIN t.columns : Names(t)[j] = t.columns[j].name
  BY DEF Names
<1>2. \A c \in ToSet(t.columns) : c.name = t.columns[i].name => c = t.columns[i]
  BY <1>1 DEF HasColumns, IsInjective, ToSet
<1>3. t.columns[i] \in ToSet(t.columns)
  BY DEF ToSet
<1> DEFINE C == [name : STRING, type : ColumnTypes]
<1>4. t.columns \in Seq(C)
  BY DEF HasColumns
<1>5. t.columns[i].name \in STRING /\ t.columns[i].type \in ColumnTypes
  <2>1. t.columns[i] \in C
    <3> HIDE DEF C
    <3> QED
      BY <1>4
  <2> QED
    BY <2>1
<1>6. t.columns[i].name \in NameSet(t)
  BY <1>1 DEF NameSet, ToSet
<1> QED
  BY <1>2, <1>3, <1>5, <1>6 DEF TypeOf

(* Every name of a table has a type.                                       *)
LEMMA NameHasType ==
  ASSUME NEW t, HasColumns(t), NEW n \in NameSet(t)
  PROVE  \E i \in DOMAIN t.columns : n = t.columns[i].name /\ TypeOf(t, n) = t.columns[i].type
<1>1. PICK i \in DOMAIN t.columns : n = t.columns[i].name
  BY DEF NameSet, Names, ToSet
<1> QED
  BY <1>1, TypeOfColumn

(* Other rows of the same columns make a table again.                      *)
LEMMA RowsReplaced ==
  ASSUME NEW t, IsTable(t), NEW A, NEW s \in Seq(A), \A r \in A : IsRow(t, r)
  PROVE  IsTable([t EXCEPT !.rows = s])
<1> DEFINE u == [t EXCEPT !.rows = s]
<1>1. DOMAIN u = {"columns", "rows"} /\ u.columns = t.columns /\ u.rows = s
  BY DEF IsTable
<1> HIDE DEF u
<1>2. Names(u) = Names(t) /\ NameSet(u) = NameSet(t)
  BY <1>1 DEF Names, NameSet
<1>3. \A n : TypeOf(u, n) = TypeOf(t, n)
  BY <1>1 DEF TypeOf
<1>4. \A r \in A : IsRow(u, r)
  BY <1>2, <1>3 DEF IsRow
<1>5. s \in Seq(ToSet(s)) /\ ToSet(s) \subseteq A
  BY SeqOfItsElements
<1>6. IsTable(u)
  BY <1>1, <1>2, <1>4, <1>5 DEF IsTable
<1> QED
  BY <1>6 DEF u

(* The rows of a table are numbered from 1.                                *)
LEMMA RowsOfTable ==
  ASSUME NEW t, IsTable(t)
  PROVE  /\ t.rows \in Seq(ToSet(t.rows))
         /\ DOMAIN t.rows = 1..Len(t.rows) /\ Len(t.rows) \in Nat
         /\ \A i \in DOMAIN t.rows : IsRow(t, t.rows[i])
<1>1. t.rows \in Seq(ToSet(t.rows)) /\ \A r \in ToSet(t.rows) : IsRow(t, r)
  BY DEF IsTable
<1>2. \A i \in DOMAIN t.rows : t.rows[i] \in ToSet(t.rows)
  BY DEF ToSet
<1> HIDE DEF ToSet
<1>3. DOMAIN t.rows = 1..Len(t.rows) /\ Len(t.rows) \in Nat
  BY <1>1
<1> QED
  BY <1>1, <1>2, <1>3

(* Changing one value of a row to one of its column's leaves it a row.     *)
LEMMA ValueWritten ==
  ASSUME NEW t, NEW r, IsRow(t, r), NEW n, NEW v, IsValue(v, TypeOf(t, n))
  PROVE  IsRow(t, [r EXCEPT ![n] = v])
BY DEF IsRow

(* A type's written values are its values.                                 *)
LEMMA WrittenFits ==
  ASSUME NEW t, IsTable(t), NEW n \in NameSet(t), NEW v \in ValuesOf[TypeOf(t, n)]
  PROVE  IsValue(v, TypeOf(t, n))
<1>1. HasColumns(t)
  BY DEF IsTable, HasColumns
<1>2. TypeOf(t, n) \in ColumnTypes
  BY <1>1, NameHasType, TypeOfColumn
<1> QED
  BY <1>2, TablesAssumption

(* INSERT, DELETE and UPDATE make tables.                                  *)
LEMMA WritesKeepTables ==
  ASSUME NEW name \in DOMAIN tables, IsTable(tables[name]), Insert(name) \/ Delete(name) \/ Update(name)
  PROVE  IsTable(tables'[name])
<1> DEFINE t == tables[name]
           B == ToSet(t.rows)
<1>1. t.rows \in Seq(B) /\ DOMAIN t.rows = 1..Len(t.rows) /\ Len(t.rows) \in Nat
      /\ \A i \in DOMAIN t.rows : IsRow(t, t.rows[i])
  BY RowsOfTable
<1>2. \A r \in B : IsRow(t, r)
  BY DEF IsTable
<1>3. "id" \in NameSet(t)
  BY DEF IsTable
<1> HIDE DEF B
<1>4. CASE Insert(name)
  <2>1. PICK key \in ValuesOf[TypeOf(t, "id")], i \in DOMAIN t.rows :
          Edit(name, [t EXCEPT !.rows = Append(@, [t.rows[i] EXCEPT !["id"] = key])])
    BY <1>4 DEF Insert
  <2> DEFINE new == [t.rows[i] EXCEPT !["id"] = key]
  <2>2. IsRow(t, new)
    BY <1>1, <1>3, ValueWritten, WrittenFits
  <2> HIDE DEF new
  <2>3. Append(t.rows, new) \in Seq(B \cup {new}) /\ \A r \in B \cup {new} : IsRow(t, r)
    BY <1>1, <1>2, <2>2
  <2>4. IsTable([t EXCEPT !.rows = Append(t.rows, new)])
    BY <2>3, RowsReplaced
  <2>5. tables'[name] = [t EXCEPT !.rows = Append(t.rows, new)]
    BY <2>1 DEF Edit, new
  <2> QED
    BY <2>4, <2>5
<1>5. CASE Delete(name)
  <2>1. PICK i \in DOMAIN t.rows : Edit(name, [t EXCEPT !.rows = RemoveAt(@, i)])
    BY <1>5 DEF Delete
  <2>2. RemoveAt(t.rows, i) \in Seq(B)
    BY <1>1 DEF RemoveAt
  <2>3. IsTable([t EXCEPT !.rows = RemoveAt(t.rows, i)])
    BY <1>2, <2>2, RowsReplaced
  <2>4. tables'[name] = [t EXCEPT !.rows = RemoveAt(t.rows, i)]
    BY <2>1 DEF Edit
  <2> QED
    BY <2>3, <2>4
<1>6. CASE Update(name)
  <2>0. PICK i \in DOMAIN t.rows, n \in NameSet(t) :
          \E v \in ValuesOf[TypeOf(t, n)] : Edit(name, [t EXCEPT !.rows[i][n] = v])
    BY <1>6 DEF Update
  <2>1. PICK v \in ValuesOf[TypeOf(t, n)] : Edit(name, [t EXCEPT !.rows[i][n] = v])
    BY <2>0
  <2> DEFINE new == [t.rows[i] EXCEPT ![n] = v]
  <2>2. IsRow(t, new)
    BY <1>1, ValueWritten, WrittenFits
  <2>3. tables'[name] = [t EXCEPT !.rows = [t.rows EXCEPT ![i] = new]]
    BY <2>1 DEF Edit
  <2> HIDE DEF new
  <2>4. [t.rows EXCEPT ![i] = new] \in Seq(B \cup {new}) /\ \A r \in B \cup {new} : IsRow(t, r)
    BY <1>1, <1>2, <2>2
  <2>5. IsTable([t EXCEPT !.rows = [t.rows EXCEPT ![i] = new]])
    BY <2>4, RowsReplaced
  <2> QED
    BY <2>3, <2>5
<1> QED
  BY <1>4, <1>5, <1>6

(* ALTER COLUMN TYPE makes a table.                                        *)
LEMMA RetypeKeepsTable ==
  ASSUME NEW name \in DOMAIN tables, IsTable(tables[name]), Retype(name)
  PROVE  IsTable(tables'[name])
<1> DEFINE t == tables[name]
<1>1. PICK i \in DOMAIN t.columns, r \in Retypes :
        /\ t.columns[i].type = r[1]
        /\ Edit(name, [columns |-> [t.columns EXCEPT ![i].type = r[2]],
                       rows    |-> [j \in DOMAIN t.rows |->
                                      [t.rows[j] EXCEPT ![t.columns[i].name] = Cast(@, r[1], r[2])]]])
  BY DEF Retype
<1> DEFINE n == t.columns[i].name
           columns == [t.columns EXCEPT ![i].type = r[2]]
           newRow == [j \in DOMAIN t.rows |-> [t.rows[j] EXCEPT ![n] = Cast(@, r[1], r[2])]]
           u == [columns |-> columns, rows |-> newRow]
           C == [name : STRING, type : ColumnTypes]
<1>2. tables'[name] = u
  BY <1>1 DEF Edit
<1>3. <<r[1], r[2]>> \in Castable /\ r[2] \in ColumnTypes
  BY TablesAssumption DEF Castable, ColumnTypes, Numeric
<1>4. HasColumns(t)
  BY DEF IsTable, HasColumns
<1>5. /\ t.columns \in Seq(C) /\ t.columns[i] \in C
  <2>1. t.columns \in Seq(C)
    BY <1>4 DEF HasColumns
  <2> HIDE DEF C
  <2> QED
    BY <2>1
<1>6. /\ columns \in Seq(C) /\ DOMAIN columns = DOMAIN t.columns
      /\ \A k \in DOMAIN t.columns :
           columns[k].name = t.columns[k].name /\ columns[k].type = IF k = i THEN r[2] ELSE t.columns[k].type
  <2> DEFINE new == [t.columns[i] EXCEPT !.type = r[2]]
  <2>1. new \in C /\ new.name = t.columns[i].name /\ new.type = r[2]
    BY <1>3, <1>5
  <2>2. columns = [t.columns EXCEPT ![i] = new]
    OBVIOUS
  <2> HIDE DEF new, C, columns
  <2>3. columns \in Seq(C) /\ DOMAIN columns = DOMAIN t.columns
    BY <1>5, <2>1, <2>2
  <2> QED
    BY <2>1, <2>2, <2>3
<1> HIDE DEF columns, newRow
<1>7. u.columns = columns /\ u.rows = newRow /\ DOMAIN u = {"columns", "rows"}
  OBVIOUS
<1> HIDE DEF u
<1>8. Names(u) = Names(t) /\ NameSet(u) = NameSet(t)
  BY <1>6, <1>7 DEF Names, NameSet
<1>9. HasColumns(u)
  BY <1>4, <1>6, <1>7, <1>8 DEF HasColumns
<1>10. n \in NameSet(t) /\ TypeOf(t, n) = r[1] /\ TypeOf(u, n) = r[2]
  BY <1>1, <1>4, <1>6, <1>7, <1>9, TypeOfColumn
<1>11. \A m \in NameSet(t) : m # n => TypeOf(u, m) = TypeOf(t, m)
  <2>1. SUFFICES ASSUME NEW m \in NameSet(t), m # n PROVE TypeOf(u, m) = TypeOf(t, m)
    OBVIOUS
  <2>2. PICK k \in DOMAIN t.columns : m = t.columns[k].name /\ TypeOf(t, m) = t.columns[k].type
    BY <1>4, NameHasType
  <2>3. TypeOf(u, columns[k].name) = columns[k].type
    BY <1>6, <1>7, <1>9, TypeOfColumn
  <2> QED
    BY <1>6, <2>1, <2>2, <2>3
<1>12. /\ DOMAIN t.rows = 1..Len(t.rows) /\ Len(t.rows) \in Nat
       /\ \A j \in DOMAIN t.rows : IsRow(t, t.rows[j])
  BY RowsOfTable
<1>13. \A j \in DOMAIN t.rows : IsRow(u, newRow[j])
  <2>1. SUFFICES ASSUME NEW j \in DOMAIN t.rows PROVE IsRow(u, newRow[j])
    OBVIOUS
  <2>2. /\ DOMAIN t.rows[j] = NameSet(t)
        /\ \A m \in NameSet(t) : IsValue(t.rows[j][m], TypeOf(t, m))
    BY <1>12 DEF IsRow
  <2>3. newRow[j] = [t.rows[j] EXCEPT ![n] = Cast(t.rows[j][n], r[1], r[2])]
    BY DEF newRow
  <2>4. IsValue(Cast(t.rows[j][n], r[1], r[2]), r[2])
    BY <1>3, <1>10, <2>2, CastFits
  <2> QED
    BY <1>8, <1>10, <1>11, <2>2, <2>3, <2>4 DEF IsRow
<1>14. newRow \in Seq(ToSet(newRow)) /\ \A x \in ToSet(newRow) : IsRow(u, x)
  <2>1. DOMAIN newRow = DOMAIN t.rows /\ newRow = [j \in 1..Len(t.rows) |-> newRow[j]]
    BY <1>12 DEF newRow
  <2>2. \A j \in 1..Len(t.rows) : newRow[j] \in ToSet(newRow)
    BY <1>12, <2>1 DEF ToSet
  <2>3. \A x \in ToSet(newRow) : IsRow(u, x)
    BY <1>13, <2>1 DEF ToSet
  <2> HIDE DEF ToSet
  <2>4. [j \in 1..Len(t.rows) |-> newRow[j]] \in Seq(ToSet(newRow))
    BY <1>12, <2>2
  <2> QED
    BY <2>1, <2>3, <2>4
<1> QED
  BY <1>2, <1>7, <1>8, <1>9, <1>14 DEF IsTable, HasColumns

(* RENAME COLUMN makes a table.                                            *)
LEMMA RenameKeepsTable ==
  ASSUME NEW name \in DOMAIN tables, IsTable(tables[name]), Rename(name)
  PROVE  IsTable(tables'[name])
<1> DEFINE t == tables[name]
<1>1. PICK i \in DOMAIN t.columns, new \in NewNames \ NameSet(t) :
        LET n == t.columns[i].name
            old(m) == IF m = new THEN n ELSE m
        IN  /\ n # "id"
            /\ Edit(name, [columns |-> [t.columns EXCEPT ![i].name = new],
                           rows    |-> [j \in DOMAIN t.rows |->
                                          [m \in (NameSet(t) \ {n}) \cup {new} |-> t.rows[j][old(m)]]]])
  BY DEF Rename
<1> DEFINE n == t.columns[i].name
           old(m) == IF m = new THEN n ELSE m
           names == (NameSet(t) \ {n}) \cup {new}
           columns == [t.columns EXCEPT ![i].name = new]
           newRow == [j \in DOMAIN t.rows |-> [m \in names |-> t.rows[j][old(m)]]]
           u == [columns |-> columns, rows |-> newRow]
           C == [name : STRING, type : ColumnTypes]
<1>2. tables'[name] = u /\ n # "id"
  BY <1>1 DEF Edit
<1>3. new \in STRING
  BY TablesAssumption
<1>4. HasColumns(t) /\ "id" \in NameSet(t)
  BY DEF IsTable, HasColumns
<1>5. /\ t.columns \in Seq(C) /\ t.columns[i] \in C
  <2>1. t.columns \in Seq(C)
    BY <1>4 DEF HasColumns
  <2> HIDE DEF C
  <2> QED
    BY <2>1
<1>6. /\ columns \in Seq(C) /\ DOMAIN columns = DOMAIN t.columns
      /\ \A k \in DOMAIN t.columns :
           columns[k].name = (IF k = i THEN new ELSE t.columns[k].name) /\ columns[k].type = t.columns[k].type
  <2> DEFINE col == [t.columns[i] EXCEPT !.name = new]
  <2>1. col \in C /\ col.name = new /\ col.type = t.columns[i].type
    BY <1>3, <1>5
  <2>2. columns = [t.columns EXCEPT ![i] = col]
    OBVIOUS
  <2> HIDE DEF col, C, columns
  <2>3. columns \in Seq(C) /\ DOMAIN columns = DOMAIN t.columns
    BY <1>5, <2>1, <2>2
  <2> QED
    BY <2>1, <2>2, <2>3
<1> HIDE DEF columns, newRow
<1>7. u.columns = columns /\ u.rows = newRow /\ DOMAIN u = {"columns", "rows"}
  OBVIOUS
<1> HIDE DEF u
<1>8. \A k, l \in DOMAIN t.columns : t.columns[k].name = t.columns[l].name => k = l
  BY <1>4 DEF HasColumns, IsInjective, Names
<1>9. NameSet(t) = {t.columns[k].name : k \in DOMAIN t.columns}
  BY DEF NameSet, Names, ToSet
<1>10. NameSet(u) = {columns[k].name : k \in DOMAIN t.columns}
  BY <1>6, <1>7 DEF NameSet, Names, ToSet
<1>11. NameSet(u) = names
  BY <1>6, <1>8, <1>9, <1>10
<1>12. HasColumns(u)
  <2>1. \A k \in DOMAIN t.columns : t.columns[k].name # new
    BY <1>9
  <2>2. \A k, l \in DOMAIN t.columns : columns[k].name = columns[l].name => k = l
    BY <1>6, <1>8, <2>1
  <2>3. IsInjective(Names(u))
    BY <1>6, <1>7, <2>2 DEF IsInjective, Names
  <2> QED
    BY <1>6, <1>7, <2>3 DEF HasColumns
<1>13. \A m \in names : old(m) \in NameSet(t) /\ TypeOf(u, m) = TypeOf(t, old(m))
  <2>1. SUFFICES ASSUME NEW m \in names PROVE old(m) \in NameSet(t) /\ TypeOf(u, m) = TypeOf(t, old(m))
    OBVIOUS
  <2>2. PICK k \in DOMAIN t.columns : m = columns[k].name
    BY <1>10, <1>11
  <2>3. TypeOf(u, m) = t.columns[k].type
    BY <1>6, <1>7, <1>12, <2>2, TypeOfColumn
  <2>4. old(m) = t.columns[k].name
    BY <1>6, <1>9, <2>2
  <2> QED
    BY <1>4, <2>3, <2>4, TypeOfColumn
<1>14. /\ DOMAIN t.rows = 1..Len(t.rows) /\ Len(t.rows) \in Nat
       /\ \A j \in DOMAIN t.rows : IsRow(t, t.rows[j])
  BY RowsOfTable
<1>15. \A j \in DOMAIN t.rows : IsRow(u, newRow[j])
  <2>1. SUFFICES ASSUME NEW j \in DOMAIN t.rows PROVE IsRow(u, newRow[j])
    OBVIOUS
  <2>2. \A m \in NameSet(t) : IsValue(t.rows[j][m], TypeOf(t, m))
    BY <1>14 DEF IsRow
  <2>3. newRow[j] = [m \in names |-> t.rows[j][old(m)]]
    BY DEF newRow
  <2> HIDE DEF names, old
  <2> QED
    BY <1>11, <1>13, <2>2, <2>3 DEF IsRow
<1>16. newRow \in Seq(ToSet(newRow)) /\ \A x \in ToSet(newRow) : IsRow(u, x)
  <2>1. DOMAIN newRow = DOMAIN t.rows /\ newRow = [j \in 1..Len(t.rows) |-> newRow[j]]
    BY <1>14 DEF newRow
  <2>2. \A j \in 1..Len(t.rows) : newRow[j] \in ToSet(newRow)
    BY <1>14, <2>1 DEF ToSet
  <2>3. \A x \in ToSet(newRow) : IsRow(u, x)
    BY <1>15, <2>1 DEF ToSet
  <2> HIDE DEF ToSet
  <2>4. [j \in 1..Len(t.rows) |-> newRow[j]] \in Seq(ToSet(newRow))
    BY <1>14, <2>2
  <2> QED
    BY <2>1, <2>3, <2>4
<1> QED
  BY <1>2, <1>4, <1>7, <1>11, <1>12, <1>16 DEF IsTable, HasColumns

(* The tables are tables of their columns' values before and after every   *)
(* migration, and a call is one of the calls.                              *)
THEOREM TablesHoldTheirTypes ==
  Spec => []TypeOK
<1>1. Init => TypeOK
  <2>1. SUFFICES ASSUME Init PROVE TypeOK
    OBVIOUS
  <2>2. \A name \in DOMAIN tables : IsTable(tables[name])
    BY <2>1, TablesAssumption DEF Init
  <2>3. Len(Calls) \in Nat
    BY TablesAssumption
  <2> QED
    BY <2>1, <2>2, <2>3, TablesAssumption DEF Init, TypeOK
<1>2. TypeOK /\ [Next]_vars => TypeOK'
  <2>1. SUFFICES ASSUME TypeOK, [Next]_vars PROVE TypeOK'
    OBVIOUS
  <2>2. CASE Migrate("new")
    <3>1. \A u : Edit("new", u) =>
            /\ edits' \in 0..MaxEdits /\ UNCHANGED call /\ DOMAIN tables' = DOMAIN tables
            /\ \A name \in DOMAIN tables : name # "new" => tables'[name] = tables[name]
      BY <2>1, TablesAssumption DEF Edit, TypeOK
    <3>2. /\ edits' \in 0..MaxEdits /\ UNCHANGED call /\ DOMAIN tables' = DOMAIN tables
          /\ \A name \in DOMAIN tables : name # "new" => tables'[name] = tables[name]
      BY <2>2, <3>1 DEF Migrate, Insert, Delete, Update, Retype, Rename
    <3>3. \A name \in DOMAIN tables : name = "new" => IsTable(tables'[name])
      BY <2>1, <2>2, WritesKeepTables, RetypeKeepsTable, RenameKeepsTable DEF Migrate, TypeOK
    <3> QED
      BY <2>1, <3>2, <3>3 DEF TypeOK
  <2>3. ASSUME NEW i \in DOMAIN Calls, Call(i) PROVE TypeOK'
    <3>1. i \in 0..Len(Calls)
      BY TablesAssumption
    <3> QED
      BY <2>1, <2>3, <3>1 DEF Call, TypeOK
  <2>4. CASE UNCHANGED vars
    BY <2>1, <2>4 DEF vars, TypeOK
  <2> QED
    BY <2>1, <2>2, <2>3, <2>4 DEF Next
<1> QED
  BY <1>1, <1>2, PTL DEF Spec

(***************************************************************************)
(* The last call: its answer is about the tables as they are.              *)
(***************************************************************************)
SourceIn(ts, i) == ts[Argument(Calls[i], 1, "source_table")]
TargetIn(ts, i) == ts[Argument(Calls[i], 2, "target_table")]

IsAnswer(o, i, ts) ==
  \/ o = Refused
  \/ /\ {Argument(Calls[i], 1, "source_table"), Argument(Calls[i], 2, "target_table")} \subseteq DOMAIN ts
     /\ o = Answer(Calls[i], SourceIn(ts, i), TargetIn(ts, i))

Answered == call # 0 => IsAnswer(outcome, call, tables)

(* The migration is over when the diff is called: what it answered stays   *)
(* the answer about the tables.                                            *)
THEOREM AnswersDescribeTables ==
  Spec => []Answered
<1>1. Init => Answered
  BY DEF Init, Answered
<1>2. Answered /\ [Next]_vars => Answered'
  <2>1. SUFFICES ASSUME Answered, [Next]_vars PROVE Answered'
    OBVIOUS
  <2>2. CASE Migrate("new")
    <3>1. \A u : Edit("new", u) => call' = 0
      BY DEF Edit
    <3> QED
      BY <2>2, <3>1 DEF Migrate, Insert, Delete, Update, Retype, Rename, Answered
  <2>3. ASSUME NEW i \in DOMAIN Calls, Call(i) PROVE Answered'
    <3>1. /\ call' = i /\ tables' = tables
          /\ \/ outcome' = Refused
             \/ TablesExist(Calls[i]) /\ outcome' = Answer(Calls[i], SourceIn(tables, i), TargetIn(tables, i))
      BY <2>3 DEF Call, TheTable, SourceIn, TargetIn
    <3> QED
      BY <3>1 DEF Answered, IsAnswer, TablesExist
  <2>4. CASE UNCHANGED vars
    BY <2>1, <2>4 DEF vars, Answered
  <2> QED
    BY <2>1, <2>2, <2>3, <2>4 DEF Next
<1> QED
  BY <1>1, <1>2, PTL DEF Spec

(* What a diff that returns rows has checked, and what its rows are.       *)
LEMMA RowsOfDiff ==
  ASSUME TypeOK, Answered, RowsReturned
  PROVE  /\ IsTable(TheSource) /\ IsTable(TheTarget)
         /\ ColumnsAccepted(TheCall, TheSource, TheTarget)
         /\ Guard(TheSource, TheTarget, ThePlan.keys) = "none"
         /\ LET rows == {DiffRow(TheSource, TheTarget, p, ThePlan) : p \in Joined(TheSource, TheTarget, ThePlan.keys)}
            IN  outcome.rows = IF ThePlan.all THEN rows ELSE {r \in rows : r.type # "unchanged"}
<1>1. /\ IsTable(TheSource) /\ IsTable(TheTarget) /\ outcome = Answer(TheCall, TheSource, TheTarget)
  BY DEF TypeOK, Answered, RowsReturned, IsAnswer, TheSource, TheTarget, TheCall, TheTable, SourceIn, TargetIn
<1>2. ColumnsAccepted(TheCall, TheSource, TheTarget) /\ outcome = RowDiff(TheSource, TheTarget, ThePlan)
  BY <1>1 DEF Answer, RowsReturned, ThePlan
<1>3. Guard(TheSource, TheTarget, ThePlan.keys) = "none"
  BY <1>2 DEF RowDiff, RowsReturned, Raised
<1> QED
  BY <1>1, <1>2, <1>3 DEF RowDiff, Returned

(***************************************************************************)
(* Keys.                                                                   *)
(***************************************************************************)

(* The texts of two values of a type are the same only of equal values.    *)
LEMMA TextStaysApart ==
  ASSUME NEW type \in ColumnTypes, NEW v, NEW w, IsValue(v, type), IsValue(w, type),
         AsText(v, type) = AsText(w, type)
  PROVE  v = w
<1>1. CASE type = "VARCHAR"
  BY <1>1 DEF AsText
<1>2. CASE type # "VARCHAR" /\ v # Null /\ w # Null
  <2>1. CASE type \in Numeric
    <3>1. v \in (Int \X (Nat \ {0})) \cup {NaN, Inf, NegInf} /\ w \in (Int \X (Nat \ {0})) \cup {NaN, Inf, NegInf}
      BY <1>2, <2>1 DEF IsValue, Numeric, Integral, FloatingPoint
    <3>2. Spelling[type] # "word"
      BY <1>2, SpellingIsNoWord
    <3>3. \A x \in Int \X (Nat \ {0}) :
            /\ x \notin {Null, NaN, Inf, NegInf}
            /\ AsText(x, type) = <<Spelling[type], x[1], x[2]>> /\ x = <<x[1], x[2]>>
      <4>1. SUFFICES ASSUME NEW n \in Int, NEW d \in Nat \ {0}
                     PROVE  /\ <<n, d>> \notin {Null, NaN, Inf, NegInf}
                            /\ AsText(<<n, d>>, type) = <<Spelling[type], n, d>>
        OBVIOUS
      <4>2. <<n, d>> \notin {Null, NaN, Inf, NegInf}
        BY TablesAssumption
      <4>3. Len(<<n, d>>) = 2 /\ <<n, d>>[1] = n /\ <<n, d>>[2] = d
        OBVIOUS
      <4> QED
        BY <1>2, <4>2, <4>3 DEF AsText
    <3>4. \A x \in {NaN, Inf, NegInf} : x # Null => AsText(x, type) = <<"word", x, x>>
      BY <1>2 DEF AsText
    <3>5. \A x \in Int \X (Nat \ {0}), y \in {NaN, Inf, NegInf} : y # Null => AsText(x, type) # AsText(y, type)
      BY <3>2, <3>3, <3>4
    <3>6. CASE v \in Int \X (Nat \ {0}) /\ w \in Int \X (Nat \ {0})
      <4>1. v[1] = w[1] /\ v[2] = w[2]
        BY <3>3, <3>6
      <4> QED
        BY <3>3, <3>6, <4>1
    <3>7. CASE v \in {NaN, Inf, NegInf} /\ w \in {NaN, Inf, NegInf}
      BY <1>2, <3>4, <3>7
    <3> QED
      BY <1>2, <3>1, <3>5, <3>6, <3>7
  <2>2. CASE type \in PlainTimestamps \cup {"TIMESTAMPTZ"}
    <3>1. v \in Seq(Int) /\ Len(v) = 1 /\ w \in Seq(Int) /\ Len(w) = 1
      BY <1>2, <2>2 DEF IsValue, PlainTimestamps, Integral, FloatingPoint
    <3>2. \A x \in Seq(Int) : Len(x) = 1 =>
            /\ x \notin {Null, NaN, Inf, NegInf}
            /\ AsText(x, type) = <<Spelling[type], x[1], x[1]>> /\ x = <<x[1]>>
      BY <1>2, TablesAssumption DEF AsText
    <3> QED
      BY <3>1, <3>2
  <2> QED
    BY <1>2, <2>1, <2>2 DEF ColumnTypes
<1>3. CASE type # "VARCHAR" /\ (v = Null \/ w = Null)
  <2>1. \A x : IsValue(x, type) /\ x # Null => AsText(x, type) # Null
    BY <1>3, TextIsOrdinary
  <2>2. AsText(Null, type) = Null
    BY DEF AsText
  <2> QED
    BY <1>3, <2>1, <2>2
<1> QED
  BY <1>1, <1>2, <1>3

(* Values of a type that stays apart from the other are compared as what   *)
(* they are.                                                               *)
LEMMA FormStaysApart ==
  ASSUME NEW type \in ColumnTypes, NEW other \in ColumnTypes, StaysApart(type, other),
         NEW v, NEW w, IsValue(v, type), IsValue(w, type),
         SideColumn(v, type, other) = SideColumn(w, type, other)
  PROVE  v = w
<1>1. CASE ChooseComparisonForm(type, other) = "text"
  <2>1. AsText(v, type) = AsText(w, type)
    BY <1>1 DEF SideColumn
  <2> QED
    BY <2>1, TextStaysApart
<1>2. CASE ChooseComparisonForm(type, other) = "raw"
  <2>1. CASE type \in FloatingPoint
    <3>1. \A x : IsValue(x, type) => x \in Numbers /\ (x # Null => x = ToCommon(x, {type}))
      BY <2>1 DEF IsValue, FloatingPoint, Integral, Numbers
    <3>2. ToDouble(Null) = Null /\ ToFloat(Null) = Null
      BY DEF ToDouble, ToFloat, IsFinite
    <3>3. \A x : IsValue(x, type) =>
            /\ type = "DOUBLE" => x = ToDouble(x)
            /\ type = "FLOAT" => x = ToFloat(x) /\ x = ToDouble(x)
      BY <3>1, <3>2, FloatOfFloat DEF ToCommon
    <3>4. \A x : IsValue(x, type) => x = ToCommon(x, {type, other})
      BY <2>1, <3>3 DEF ToCommon, FloatingPoint
    <3> QED
      BY <1>2, <3>4 DEF SideColumn
  <2>2. CASE type \notin FloatingPoint
    <3>1. other \notin FloatingPoint
      BY <1>2, <2>2 DEF StaysApart, ChooseComparisonForm, ByValue, FloatingPoint
    <3> QED
      BY <1>2, <2>2, <3>1 DEF SideColumn, ToCommon, FloatingPoint
  <2> QED
    BY <2>1, <2>2
<1>3. CASE ChooseComparisonForm(type, other) = "utc timestamp"
  <2>1. type \in {"TIMESTAMP", "TIMESTAMPTZ"}
    BY <1>3 DEF ChooseComparisonForm, StaysApart, PlainTimestamps
  <2>2. UtcTimestamp(Null) = Null
    BY DEF UtcTimestamp
  <2>3. v = UtcTimestamp(v) /\ w = UtcTimestamp(w)
    BY <2>1, <2>2 DEF IsValue, FloatingPoint, Integral
  <2> QED
    BY <1>3, <2>3 DEF SideColumn
<1> QED
  BY <1>1, <1>2, <1>3 DEF ChooseComparisonForm

(* What a retyped column holds is compared as equal to what it was, unless *)
(* FLOAT did not hold what DOUBLE did.                                     *)
LEMMA RetypedComparesEqual ==
  ASSUME NEW from \in ColumnTypes, NEW to \in ColumnTypes,
         NEW v, IsValue(v, from), IsValue(Cast(v, from, to), to),
         from = "DOUBLE" /\ to = "FLOAT" => Cast(v, from, to) = v
  PROVE  SideColumn(v, from, to) = SideColumn(Cast(v, from, to), to, from)
<1> DEFINE w == Cast(v, from, to)
<1>1. ChooseComparisonForm(from, to) = ChooseComparisonForm(to, from)
  BY DEF ChooseComparisonForm, ByValue
<1>2. from \in Numeric => v \in Numbers
  BY DEF IsValue, Numeric, Integral, FloatingPoint, Numbers
<1>3. from \in Numeric /\ to \in FloatingPoint => w = ToCommon(v, {to}) /\ w = ToCommon(w, {to})
  BY <1>2, CommonOfCommon DEF Cast, FloatingPoint
<1>4. to # "VARCHAR" /\ ~(from \in Numeric /\ to \in FloatingPoint) => w = v
  BY DEF Cast, ToCommon, FloatingPoint
<1>5. CASE ChooseComparisonForm(from, to) = "raw"
  <2>1. CASE from \in Numeric /\ to \in Numeric
    <3>1. to # "VARCHAR"
      BY <2>1 DEF Numeric, Integral, FloatingPoint
    <3>2. {from, to} = {to, from}
      OBVIOUS
    <3>3. ToCommon(v, {from, to}) = ToCommon(w, {from, to})
      <4>1. CASE to = "DOUBLE"
        BY <1>3, <2>1, <4>1 DEF ToCommon, FloatingPoint
      <4>2. CASE to = "FLOAT" /\ from # "DOUBLE"
        BY <1>3, <2>1, <4>2 DEF ToCommon, FloatingPoint
      <4>3. CASE to = "FLOAT" /\ from = "DOUBLE"
        BY <4>3
      <4>4. CASE to \notin FloatingPoint
        BY <1>4, <3>1, <4>4
      <4> QED
        BY <4>1, <4>2, <4>3, <4>4 DEF FloatingPoint
    <3> QED
      BY <1>1, <1>5, <3>2, <3>3 DEF SideColumn
  <2>2. CASE from = to /\ from \notin Numeric
    <3>1. w = v
      BY <2>2 DEF Cast, AsText
    <3> QED
      BY <2>2, <3>1
  <2> QED
    BY <1>5, <2>1, <2>2 DEF ChooseComparisonForm, ByValue
<1>6. CASE ChooseComparisonForm(from, to) = "utc timestamp"
  <2>1. to # "VARCHAR" /\ from \notin Numeric
    BY <1>6 DEF ChooseComparisonForm, PlainTimestamps, Numeric, Integral, FloatingPoint
  <2> QED
    BY <1>1, <1>4, <1>6, <2>1 DEF SideColumn
<1>7. CASE ChooseComparisonForm(from, to) = "text"
  <2>0. ~ByValue(from, to)
    BY <1>7 DEF ChooseComparisonForm
  <2>1. SUFFICES AsText(v, from) = AsText(w, to)
    BY <1>1, <1>7 DEF SideColumn
  <2>2. CASE to = "VARCHAR"
    BY <2>2 DEF AsText, Cast
  <2>3. CASE to # "VARCHAR" /\ v = Null
    BY <1>4, <2>0, <2>3 DEF AsText, ByValue, FloatingPoint, Numeric
  <2>4. CASE to # "VARCHAR" /\ v # Null
    <3>1. w = v
      BY <1>4, <2>0, <2>4 DEF ByValue, FloatingPoint, Numeric
    <3>2. IsValue(v, to)
      BY <3>1
    <3>3. from # to /\ ~(from \in Numeric /\ to \in Numeric)
      BY <2>0 DEF ByValue
    <3> DEFINE Number(x) == x \in (Int \X (Nat \ {0})) \cup {NaN, Inf, NegInf}
               Moment(x) == x \in Seq(Int) /\ Len(x) = 1
               Text(x)   == DOMAIN x = 1..3 /\ x \notin {NaN, Inf, NegInf}
    <3>4. \A type \in ColumnTypes :
            IsValue(v, type) =>
              \/ type \in Numeric /\ Number(v)
              \/ type \in PlainTimestamps \cup {"TIMESTAMPTZ"} /\ Moment(v)
              \/ type = "VARCHAR" /\ Text(v)
      BY <2>4 DEF IsValue, ColumnTypes, Numeric, Integral, FloatingPoint, PlainTimestamps
    <3>5. ~(Number(v) /\ Moment(v))
      <4>1. \A n \in Int, d \in Nat \ {0} : Len(<<n, d>>) # 1
        OBVIOUS
      <4>2. \A x \in Int \X (Nat \ {0}) : Len(x) # 1
        BY <4>1
      <4>3. \A x \in {NaN, Inf, NegInf} : x \notin Seq(Int)
        BY TablesAssumption
      <4> QED
        BY <4>2, <4>3
    <3>6. ~(Number(v) /\ Text(v))
      <4>1. \A n \in Int, d \in Nat \ {0} : DOMAIN <<n, d>> # 1..3
        <5>1. SUFFICES ASSUME NEW n \in Int, NEW d \in Nat \ {0}, DOMAIN <<n, d>> = 1..3 PROVE FALSE
          OBVIOUS
        <5>2. 3 \in 1..3 /\ 3 \notin DOMAIN <<n, d>>
          OBVIOUS
        <5> QED
          BY <5>1, <5>2
      <4>2. \A x \in Int \X (Nat \ {0}) : DOMAIN x # 1..3
        BY <4>1
      <4> QED
        BY <4>2
    <3>7. ~(Moment(v) /\ Text(v))
      <4>1. \A x \in Seq(Int) : DOMAIN x = 1..Len(x)
        OBVIOUS
      <4>2. 3 \in 1..3 /\ 3 \notin 1..1
        OBVIOUS
      <4> QED
        BY <4>1, <4>2
    <3> HIDE DEF Number, Moment, Text
    <3>8. Moment(v) /\ from \in PlainTimestamps \cup {"TIMESTAMPTZ"} /\ to \in PlainTimestamps \cup {"TIMESTAMPTZ"}
      BY <2>4, <3>2, <3>3, <3>4, <3>5, <3>6, <3>7
    <3>9. from \in PlainTimestamps /\ to \in PlainTimestamps
      BY <1>7, <3>3, <3>8 DEF ChooseComparisonForm
    <3>10. Spelling[from] = Spelling[to] /\ from # "VARCHAR"
      <4>1. Spelling["TIMESTAMP"] = "time" /\ Spelling["TIMESTAMP_NS"] = "time"
        BY DEF Spelling
      <4> HIDE DEF Spelling
      <4> QED
        BY <3>9, <4>1 DEF PlainTimestamps
    <3> QED
      BY <2>4, <3>1, <3>10 DEF AsText
  <2> QED
    BY <2>2, <2>3, <2>4
<1> QED
  BY <1>5, <1>6, <1>7 DEF ChooseComparisonForm

(* The pairs of the join: two rows whose keys match, or a row without one. *)
LEMMA JoinedPairs ==
  ASSUME NEW S, NEW T, NEW keys, IsTable(S), IsTable(T), NEW p \in Joined(S, T, keys)
  PROVE  /\ p = <<p[1], p[2]>> /\ 0 \notin DOMAIN S.rows /\ 0 \notin DOMAIN T.rows
         /\ \/ /\ p[1] \in DOMAIN S.rows /\ p[2] \in DOMAIN T.rows /\ KeysMatch(S, T, keys, p[1], p[2])
            \/ /\ p[1] \in DOMAIN S.rows /\ p[2] = 0
               /\ \A j \in DOMAIN T.rows : ~KeysMatch(S, T, keys, p[1], j)
            \/ /\ p[1] = 0 /\ p[2] \in DOMAIN T.rows
               /\ \A i \in DOMAIN S.rows : ~KeysMatch(S, T, keys, i, p[2])
<1> DEFINE pairs == {q \in (DOMAIN S.rows) \X (DOMAIN T.rows) : KeysMatch(S, T, keys, q[1], q[2])}
<1>1. 0 \notin DOMAIN S.rows /\ 0 \notin DOMAIN T.rows
  BY RowsOfTable
<1>2. \A i \in DOMAIN S.rows, j \in DOMAIN T.rows : KeysMatch(S, T, keys, i, j) => <<i, j>> \in pairs
  OBVIOUS
<1>3. CASE p \in pairs
  BY <1>1, <1>3
<1>4. CASE \E i \in DOMAIN S.rows \ {q[1] : q \in pairs} : p = <<i, 0>>
  <2>1. PICK i \in DOMAIN S.rows \ {q[1] : q \in pairs} : p = <<i, 0>>
    BY <1>4
  <2>2. \A j \in DOMAIN T.rows : ~KeysMatch(S, T, keys, i, j)
    <3>1. SUFFICES ASSUME NEW j \in DOMAIN T.rows, KeysMatch(S, T, keys, i, j) PROVE FALSE
      OBVIOUS
    <3>2. <<i, j>> \in pairs /\ <<i, j>>[1] = i
      BY <1>2, <3>1
    <3> QED
      BY <3>2
  <2> QED
    BY <1>1, <2>1, <2>2
<1>5. CASE \E j \in DOMAIN T.rows \ {q[2] : q \in pairs} : p = <<0, j>>
  <2>1. PICK j \in DOMAIN T.rows \ {q[2] : q \in pairs} : p = <<0, j>>
    BY <1>5
  <2>2. \A i \in DOMAIN S.rows : ~KeysMatch(S, T, keys, i, j)
    <3>1. SUFFICES ASSUME NEW i \in DOMAIN S.rows, KeysMatch(S, T, keys, i, j) PROVE FALSE
      OBVIOUS
    <3>2. <<i, j>> \in pairs /\ <<i, j>>[2] = j
      BY <1>2, <3>1
    <3> QED
      BY <3>2
  <2> QED
    BY <1>1, <2>1, <2>2
<1> QED
  BY <1>3, <1>4, <1>5 DEF Joined

(* Every row of both tables is in a pair, and rows whose keys match are one. *)
LEMMA EveryRowIsJoined ==
  ASSUME NEW S, NEW T, NEW keys
  PROVE  /\ \A i \in DOMAIN S.rows, j \in DOMAIN T.rows :
              KeysMatch(S, T, keys, i, j) => <<i, j>> \in Joined(S, T, keys)
         /\ \A i \in DOMAIN S.rows :
              (\A j \in DOMAIN T.rows : ~KeysMatch(S, T, keys, i, j)) => <<i, 0>> \in Joined(S, T, keys)
         /\ \A j \in DOMAIN T.rows :
              (\A i \in DOMAIN S.rows : ~KeysMatch(S, T, keys, i, j)) => <<0, j>> \in Joined(S, T, keys)
BY DEF Joined

SourceKey(S, T, keys, i) == [k \in DOMAIN keys |-> SourceValue(S, T, keys[k], i)]
TargetKey(S, T, keys, j) == [k \in DOMAIN keys |-> TargetValue(S, T, keys[k], j)]

(* Keys match when all their columns do.                                   *)
LEMMA MatchIsEqualKey ==
  ASSUME NEW S, NEW T, NEW keys, NEW i, NEW j
  PROVE  KeysMatch(S, T, keys, i, j) <=> SourceKey(S, T, keys, i) = TargetKey(S, T, keys, j)
<1>1. KeysMatch(S, T, keys, i, j) <=>
        \A k \in DOMAIN keys : SourceValue(S, T, keys[k], i) = TargetValue(S, T, keys[k], j)
  BY DEF KeysMatch, ToSet
<1>2. (\A k \in DOMAIN keys : SourceValue(S, T, keys[k], i) = TargetValue(S, T, keys[k], j))
        => SourceKey(S, T, keys, i) = TargetKey(S, T, keys, j)
  BY DEF SourceKey, TargetKey
<1>3. \A k \in DOMAIN keys : /\ SourceKey(S, T, keys, i)[k] = SourceValue(S, T, keys[k], i)
                             /\ TargetKey(S, T, keys, j)[k] = TargetValue(S, T, keys[k], j)
  BY DEF SourceKey, TargetKey
<1> QED
  BY <1>1, <1>2, <1>3

KeptApart(S, T, keys) ==
  /\ \A i, j \in DOMAIN S.rows : SourceKey(S, T, keys, i) = SourceKey(S, T, keys, j) => i = j
  /\ \A i, j \in DOMAIN T.rows : TargetKey(S, T, keys, i) = TargetKey(S, T, keys, j) => i = j

(* Where the keys are of types that stay apart, the guard over the stored  *)
(* keys also tells their compared forms apart.                             *)
LEMMA GuardKeepsApart ==
  ASSUME NEW S, NEW T, NEW keys, IsTable(S), IsTable(T),
         ToSet(keys) \subseteq NameSet(S) \cap NameSet(T), Guard(S, T, keys) = "none",
         \A k \in ToSet(keys) : /\ StaysApart(TypeOf(S, k), TypeOf(T, k))
                               /\ StaysApart(TypeOf(T, k), TypeOf(S, k))
  PROVE  KeptApart(S, T, keys)
<1>1. \A k \in DOMAIN keys : keys[k] \in ToSet(keys)
  BY DEF ToSet
<1>2. \A t : IsTable(t) => HasColumns(t)
  BY DEF IsTable, HasColumns
<1>3. \A k \in ToSet(keys) : TypeOf(S, k) \in ColumnTypes /\ TypeOf(T, k) \in ColumnTypes
  BY <1>2, NameHasType, TypeOfColumn
<1>4. RepeatedKeys(S, keys) = {} /\ RepeatedKeys(T, keys) = {}
  BY DEF Guard
<1>5. \A t : RepeatedKeys(t, keys) = {} =>
        \A i, j \in DOMAIN t.rows : KeyOf(t, i, keys) = KeyOf(t, j, keys) => i = j
  BY DEF RepeatedKeys
<1>6. ASSUME NEW i \in DOMAIN S.rows, NEW j \in DOMAIN S.rows, SourceKey(S, T, keys, i) = SourceKey(S, T, keys, j)
      PROVE  i = j
  <2>1. \A k \in DOMAIN keys : S.rows[i][keys[k]] = S.rows[j][keys[k]]
    <3>1. SUFFICES ASSUME NEW k \in DOMAIN keys PROVE S.rows[i][keys[k]] = S.rows[j][keys[k]]
      OBVIOUS
    <3> DEFINE n == keys[k]
    <3>2. IsRow(S, S.rows[i]) /\ IsRow(S, S.rows[j])
      BY RowsOfTable
    <3>3. IsValue(S.rows[i][n], TypeOf(S, n)) /\ IsValue(S.rows[j][n], TypeOf(S, n))
      BY <1>1, <3>2 DEF IsRow
    <3>4. SourceKey(S, T, keys, i)[k] = SourceValue(S, T, n, i) /\ SourceKey(S, T, keys, j)[k] = SourceValue(S, T, n, j)
      BY DEF SourceKey
    <3>5. SideColumn(S.rows[i][n], TypeOf(S, n), TypeOf(T, n)) = SideColumn(S.rows[j][n], TypeOf(S, n), TypeOf(T, n))
      BY <1>6, <3>4 DEF SourceValue
    <3> QED
      BY <1>1, <1>3, <3>3, <3>5, FormStaysApart
  <2> QED
    BY <1>4, <1>5, <2>1 DEF KeyOf
<1>7. ASSUME NEW i \in DOMAIN T.rows, NEW j \in DOMAIN T.rows, TargetKey(S, T, keys, i) = TargetKey(S, T, keys, j)
      PROVE  i = j
  <2>1. \A k \in DOMAIN keys : T.rows[i][keys[k]] = T.rows[j][keys[k]]
    <3>1. SUFFICES ASSUME NEW k \in DOMAIN keys PROVE T.rows[i][keys[k]] = T.rows[j][keys[k]]
      OBVIOUS
    <3> DEFINE n == keys[k]
    <3>2. IsRow(T, T.rows[i]) /\ IsRow(T, T.rows[j])
      BY RowsOfTable
    <3>3. IsValue(T.rows[i][n], TypeOf(T, n)) /\ IsValue(T.rows[j][n], TypeOf(T, n))
      BY <1>1, <3>2 DEF IsRow
    <3>4. TargetKey(S, T, keys, i)[k] = TargetValue(S, T, n, i) /\ TargetKey(S, T, keys, j)[k] = TargetValue(S, T, n, j)
      BY DEF TargetKey
    <3>5. SideColumn(T.rows[i][n], TypeOf(T, n), TypeOf(S, n)) = SideColumn(T.rows[j][n], TypeOf(T, n), TypeOf(S, n))
      BY <1>7, <3>4 DEF TargetValue
    <3> QED
      BY <1>1, <1>3, <3>3, <3>5, FormStaysApart
  <2> QED
    BY <1>4, <1>5, <2>1 DEF KeyOf
<1> QED
  BY <1>6, <1>7 DEF KeptApart

(* Of the rows of the join no two have one key.                            *)
LEMMA JoinTellsKeysApart ==
  ASSUME NEW S, NEW T, NEW plan, IsTable(S), IsTable(T), KeptApart(S, T, plan.keys),
         NEW p \in Joined(S, T, plan.keys), NEW q \in Joined(S, T, plan.keys),
         DiffRow(S, T, p, plan).key = DiffRow(S, T, q, plan).key
  PROVE  p = q
<1> DEFINE keys == plan.keys
           RowKey(r) == IF r[1] # 0 THEN SourceKey(S, T, keys, r[1]) ELSE TargetKey(S, T, keys, r[2])
<1>1. \A r : DiffRow(S, T, r, plan).key = RowKey(r)
  BY DEF DiffRow, SourceKey, TargetKey
<1>2. RowKey(p) = RowKey(q)
  BY <1>1
<1>3. \A i, j : KeysMatch(S, T, keys, i, j) <=> SourceKey(S, T, keys, i) = TargetKey(S, T, keys, j)
  BY MatchIsEqualKey
<1> DEFINE Pair(r) ==
      /\ r = <<r[1], r[2]>> /\ 0 \notin DOMAIN S.rows /\ 0 \notin DOMAIN T.rows
      /\ \/ /\ r[1] \in DOMAIN S.rows /\ r[2] \in DOMAIN T.rows
            /\ SourceKey(S, T, keys, r[1]) = TargetKey(S, T, keys, r[2])
         \/ /\ r[1] \in DOMAIN S.rows /\ r[2] = 0
            /\ \A j \in DOMAIN T.rows : SourceKey(S, T, keys, r[1]) # TargetKey(S, T, keys, j)
         \/ /\ r[1] = 0 /\ r[2] \in DOMAIN T.rows
            /\ \A i \in DOMAIN S.rows : SourceKey(S, T, keys, i) # TargetKey(S, T, keys, r[2])
<1>4. Pair(p) /\ Pair(q)
  BY <1>3, JoinedPairs
<1>5. p[1] = q[1] /\ p[2] = q[2]
  BY <1>2, <1>4 DEF KeptApart
<1> QED
  BY <1>4, <1>5

(***************************************************************************)
(* What a diff reports.                                                    *)
(***************************************************************************)

(* Without rounding and tolerance a column differs when its forms do.      *)
LEMMA ExactColumnDiffers ==
  ASSUME NEW S, NEW T, NEW n, NEW i, NEW j, NEW plan, plan.precision = Null, plan.tolerance = Num(0)
  PROVE  ColumnDiffers(S, T, n, i, j, plan) <=> SourceValue(S, T, n, i) # TargetValue(S, T, n, j)
<1>1. ~Less(Num(0), Num(0))
  <2>1. Num(0)[1] = 0 /\ Num(0)[2] = 1 /\ Magnitude(Num(0)) \in Int
    BY DEF Num, Magnitude
  <2> HIDE DEF Num
  <2> QED
    BY <2>1 DEF Less
<1>2. \A v, type, other : RoundedSide(v, type, other, plan.precision) = v
  BY DEF RoundedSide
<1> QED
  BY <1>1, <1>2 DEF ColumnDiffers, DistinctValues

(* The row of a pair of the join, by the two rows it joins.                *)
LEMMA RowOfPair ==
  ASSUME NEW S, NEW T, NEW plan, IsTable(S), IsTable(T), NEW p \in Joined(S, T, plan.keys)
  PROVE  LET r == DiffRow(S, T, p, plan) IN
         /\ p[1] \in DOMAIN S.rows => r.key = SourceKey(S, T, plan.keys, p[1])
         /\ p[2] \in DOMAIN T.rows => /\ r.key = TargetKey(S, T, plan.keys, p[2])
                                     /\ \A n \in NameSet(T) \ ToSet(plan.keys) : r.values[n] = T.rows[p[2]][n]
         /\ p[1] = 0 <=> r.type = "added"
         /\ p[2] = 0 <=> r.type = "removed"
         /\ r.type = "unchanged" <=>
              /\ p[1] \in DOMAIN S.rows /\ p[2] \in DOMAIN T.rows
              /\ \A n \in plan.compare : ~ColumnDiffers(S, T, n, p[1], p[2], plan)
         /\ r.type = "changed" => /\ p[1] \in DOMAIN S.rows /\ p[2] \in DOMAIN T.rows
                                 /\ r.changed = {n \in plan.compare : ColumnDiffers(S, T, n, p[1], p[2], plan)}
                                 /\ r.changed # {}
<1> DEFINE r == DiffRow(S, T, p, plan)
           keys == plan.keys
<1>1. /\ 0 \notin DOMAIN S.rows /\ 0 \notin DOMAIN T.rows
      /\ \/ p[1] \in DOMAIN S.rows /\ p[2] \in DOMAIN T.rows /\ KeysMatch(S, T, keys, p[1], p[2])
         \/ p[1] \in DOMAIN S.rows /\ p[2] = 0
         \/ p[1] = 0 /\ p[2] \in DOMAIN T.rows
  BY JoinedPairs
<1>2. r.key = IF p[1] # 0 THEN SourceKey(S, T, keys, p[1]) ELSE TargetKey(S, T, keys, p[2])
  BY DEF DiffRow, SourceKey, TargetKey
<1>3. /\ r.changed = ChangedColumns(S, T, p, plan)
      /\ r.type = DiffType(p, r.changed)
      /\ r.values = [n \in NameSet(T) \ ToSet(keys) |-> IF p[2] = 0 THEN Null ELSE T.rows[p[2]][n]]
  BY DEF DiffRow
<1> HIDE DEF r
<1>4. p[1] # 0 /\ p[2] # 0 => r.changed = {n \in plan.compare : ColumnDiffers(S, T, n, p[1], p[2], plan)}
  BY <1>3 DEF ChangedColumns
<1>5. p[1] # 0 /\ p[2] # 0 => SourceKey(S, T, keys, p[1]) = TargetKey(S, T, keys, p[2])
  BY <1>1, MatchIsEqualKey
<1>6. /\ p[1] \in DOMAIN S.rows => r.key = SourceKey(S, T, keys, p[1])
      /\ p[2] \in DOMAIN T.rows => r.key = TargetKey(S, T, keys, p[2])
  BY <1>1, <1>2, <1>5
<1>7. p[2] \in DOMAIN T.rows => \A n \in NameSet(T) \ ToSet(keys) : r.values[n] = T.rows[p[2]][n]
  BY <1>1, <1>3
<1>8. /\ p[1] = 0 <=> r.type = "added"
      /\ p[2] = 0 <=> r.type = "removed"
      /\ r.type = "unchanged" <=> p[1] # 0 /\ p[2] # 0 /\ r.changed = {}
      /\ r.type = "changed" <=> p[1] # 0 /\ p[2] # 0 /\ r.changed # {}
  BY <1>1, <1>3 DEF DiffType
<1>9. r.type = "unchanged" <=>
        /\ p[1] \in DOMAIN S.rows /\ p[2] \in DOMAIN T.rows
        /\ \A n \in plan.compare : ~ColumnDiffers(S, T, n, p[1], p[2], plan)
  BY <1>1, <1>4, <1>8
<1> QED
  BY <1>1, <1>4, <1>6, <1>7, <1>8, <1>9 DEF r

(* Where keys stay apart an exact diff misses nothing: the source patched  *)
(* with it is the target.                                                  *)
THEOREM ExactDiffIsAPatch ==
  Spec => [](KeysStayApart => PatchGivesTarget)
<1>1. TypeOK /\ Answered => (KeysStayApart => PatchGivesTarget)
  <2> SUFFICES ASSUME TypeOK, Answered, KeysStayApart, RowsReturned,
                      ThePlan.tolerance = Num(0), ThePlan.precision = Null
               PROVE  LET S        == TheSource
                          T        == TheTarget
                          plan     == ThePlan
                          reported == {r.key : r \in outcome.rows}
                          kept     == {SourceView(S, T, plan, i) : i \in DOMAIN S.rows}
                          written  == {ReportedView(S, T, plan, r) : r \in {r \in outcome.rows : r.type # "removed"}}
                      IN  {v \in kept : v.key \notin reported} \cup written
                            = {TargetView(S, T, plan, j) : j \in DOMAIN T.rows}
    BY DEF PatchGivesTarget
  <2> DEFINE S == TheSource
             T == TheTarget
             plan == ThePlan
             keys == plan.keys
             J == Joined(S, T, keys)
             Row(p) == DiffRow(S, T, p, plan)
             reported == {r.key : r \in outcome.rows}
             kept     == {SourceView(S, T, plan, i) : i \in DOMAIN S.rows}
             written  == {ReportedView(S, T, plan, r) : r \in {r \in outcome.rows : r.type # "removed"}}
             target   == {TargetView(S, T, plan, j) : j \in DOMAIN T.rows}
  <2>1. /\ IsTable(S) /\ IsTable(T) /\ ColumnsAccepted(TheCall, S, T) /\ Guard(S, T, keys) = "none"
        /\ \A x \in outcome.rows : \E p \in J : x = Row(p)
        /\ \A p \in J : Row(p).type # "unchanged" => Row(p) \in outcome.rows
    BY RowsOfDiff
  <2>2. ToSet(keys) \cup plan.compare \subseteq NameSet(S) \cap NameSet(T)
    BY <2>1 DEF ColumnsAccepted, ThePlan, Plan, SharedColumns
  <2>3. KeptApart(S, T, keys)
    BY <2>1, <2>2, GuardKeepsApart DEF KeysStayApart
  <2>4. \A i : SourceView(S, T, plan, i) = [key |-> SourceKey(S, T, keys, i),
                               rest |-> [n \in Beside(plan) |-> SourceValue(S, T, n, i)]]
    BY DEF SourceView, SourceKey
  <2>5. \A j : TargetView(S, T, plan, j) = [key |-> TargetKey(S, T, keys, j),
                               rest |-> [n \in Beside(plan) |-> TargetValue(S, T, n, j)]]
    BY DEF TargetView, TargetKey
  <2>6. ASSUME NEW p \in J, p[2] \in DOMAIN T.rows
        PROVE  ReportedView(S, T, plan, Row(p)) = TargetView(S, T, plan, p[2])
    <3>1. /\ Row(p).key = TargetKey(S, T, keys, p[2])
          /\ \A n \in NameSet(T) \ ToSet(keys) : Row(p).values[n] = T.rows[p[2]][n]
      BY <2>1, <2>6, RowOfPair
    <3> HIDE DEF Row
    <3>2. \A n \in Beside(plan) :
            SideColumn(Row(p).values[n], TypeOf(T, n), TypeOf(S, n)) = TargetValue(S, T, n, p[2])
      BY <2>2, <3>1 DEF Beside, TargetValue
    <3> QED
      BY <2>5, <3>1, <3>2 DEF ReportedView
  <2>7. ASSUME NEW p \in J, Row(p).type = "unchanged"
        PROVE  /\ p[1] \in DOMAIN S.rows /\ p[2] \in DOMAIN T.rows
               /\ SourceView(S, T, plan, p[1]) = TargetView(S, T, plan, p[2])
    <3>1. /\ p[1] \in DOMAIN S.rows /\ p[2] \in DOMAIN T.rows
          /\ \A n \in plan.compare : ~ColumnDiffers(S, T, n, p[1], p[2], plan)
          /\ SourceKey(S, T, keys, p[1]) = TargetKey(S, T, keys, p[2])
      BY <2>1, <2>7, RowOfPair
    <3>2. \A n \in plan.compare : SourceValue(S, T, n, p[1]) = TargetValue(S, T, n, p[2])
      BY <3>1, ExactColumnDiffers
    <3> QED
      BY <2>4, <2>5, <3>1, <3>2 DEF Beside
  <2>8. \A i : SourceView(S, T, plan, i).key = SourceKey(S, T, keys, i)
    BY <2>4
  <2>9. {v \in kept : v.key \notin reported} \subseteq target
    <3>1. SUFFICES ASSUME NEW i \in DOMAIN S.rows, SourceKey(S, T, keys, i) \notin reported
                   PROVE  \E j \in DOMAIN T.rows : SourceView(S, T, plan, i) = TargetView(S, T, plan, j)
      BY <2>8
    <3>2. PICK j \in DOMAIN T.rows \cup {0} : <<i, j>> \in J
      BY EveryRowIsJoined
    <3>3. Row(<<i, j>>).key = SourceKey(S, T, keys, i)
      BY <2>1, <3>2, RowOfPair
    <3>4. Row(<<i, j>>).type = "unchanged"
      BY <2>1, <3>1, <3>2, <3>3
    <3> QED
      BY <2>7, <3>2, <3>4
  <2>10. written \subseteq target
    <3>1. SUFFICES ASSUME NEW r \in outcome.rows, r.type # "removed"
                   PROVE  \E j \in DOMAIN T.rows : ReportedView(S, T, plan, r) = TargetView(S, T, plan, j)
      OBVIOUS
    <3>2. PICK p \in J : r = Row(p)
      BY <2>1
    <3>3. p[2] \in DOMAIN T.rows
      BY <2>1, <3>1, <3>2, RowOfPair, JoinedPairs
    <3> QED
      BY <2>6, <3>2, <3>3
  <2>11. target \subseteq {v \in kept : v.key \notin reported} \cup written
    <3>1. SUFFICES ASSUME NEW j \in DOMAIN T.rows
                   PROVE  TargetView(S, T, plan, j) \in {v \in kept : v.key \notin reported} \cup written
      OBVIOUS
    <3>2. PICK i \in DOMAIN S.rows \cup {0} : <<i, j>> \in J
      BY EveryRowIsJoined
    <3> DEFINE p == <<i, j>>
    <3>3. ReportedView(S, T, plan, Row(p)) = TargetView(S, T, plan, j)
      BY <2>6, <3>2
    <3>4. Row(p).type # "removed"
      BY <2>1, <3>2, RowOfPair, RowsOfTable
    <3>5. CASE Row(p) \in outcome.rows
      BY <3>3, <3>4, <3>5
    <3>6. CASE Row(p) \notin outcome.rows
      <4>1. Row(p).type = "unchanged"
        BY <2>1, <3>2, <3>6
      <4>2. i \in DOMAIN S.rows /\ SourceView(S, T, plan, i) = TargetView(S, T, plan, j)
        BY <2>7, <3>2, <4>1
      <4>3. Row(p).key = SourceKey(S, T, keys, i)
        BY <2>1, <3>2, <4>2, RowOfPair
      <4>4. Row(p).key \notin reported
        <5>1. SUFFICES ASSUME NEW r \in outcome.rows, r.key = Row(p).key PROVE FALSE
          OBVIOUS
        <5>2. PICK q \in J : r = Row(q)
          BY <2>1
        <5>3. p = q
          BY <2>1, <2>3, <3>2, <5>1, <5>2, JoinTellsKeysApart
        <5> QED
          BY <3>6, <5>2, <5>3
      <4> QED
        BY <2>8, <4>2, <4>3, <4>4
    <3> QED
      BY <3>5, <3>6
  <2> QED
    BY <2>9, <2>10, <2>11
<1> QED
  BY <1>1, TablesHoldTheirTypes, AnswersDescribeTables, PTL

(* A retyped value of two tables is compared as equal.                     *)
LEMMA BecameComparesEqual ==
  ASSUME NEW S, NEW T, IsTable(S), IsTable(T), NEW n \in NameSet(S) \cap NameSet(T),
         NEW i \in DOMAIN S.rows, NEW j \in DOMAIN T.rows,
         T.rows[j][n] = Cast(S.rows[i][n], TypeOf(S, n), TypeOf(T, n)),
         TypeOf(S, n) = "DOUBLE" /\ TypeOf(T, n) = "FLOAT" => T.rows[j][n] = S.rows[i][n]
  PROVE  SourceValue(S, T, n, i) = TargetValue(S, T, n, j)
<1>1. IsRow(S, S.rows[i]) /\ IsRow(T, T.rows[j])
  BY RowsOfTable
<1>2. IsValue(S.rows[i][n], TypeOf(S, n)) /\ IsValue(T.rows[j][n], TypeOf(T, n))
  BY <1>1 DEF IsRow
<1>3. HasColumns(S) /\ HasColumns(T)
  BY DEF IsTable, HasColumns
<1>4. TypeOf(S, n) \in ColumnTypes /\ TypeOf(T, n) \in ColumnTypes
  BY <1>3, NameHasType, TypeOfColumn
<1> QED
  BY <1>2, <1>4, RetypedComparesEqual DEF SourceValue, TargetValue

(* A diff that does not round reports edits only: a column that was only   *)
(* retyped is no change, whatever the types and the tolerance.             *)
THEOREM OnlyEditsInDiff ==
  Spec => []OnlyEditsReported
<1>1. TypeOK /\ Answered => OnlyEditsReported
  <2> DEFINE S == TheSource
             T == TheTarget
             plan == ThePlan
             J == Joined(S, T, plan.keys)
  <2>1. SUFFICES ASSUME TypeOK, Answered, RowsReturned, ThePlan.precision = Null, NEW r \in outcome.rows
                 PROVE  /\ r.type = "changed" => \E n \in r.changed : ~OnlyRetyped(n, r.from[1], r.from[2])
                        /\ r.type = "removed" =>
                             \A j \in DOMAIN T.rows : \E k \in ToSet(plan.keys) : ~OnlyRetyped(k, r.from[1], j)
                        /\ r.type = "added" =>
                             \A i \in DOMAIN S.rows : \E k \in ToSet(plan.keys) : ~OnlyRetyped(k, i, r.from[2])
    BY DEF OnlyEditsReported
  <2>2. IsTable(S) /\ IsTable(T) /\ ColumnsAccepted(TheCall, S, T)
    BY <2>1, RowsOfDiff
  <2>3. PICK p \in J : r = DiffRow(S, T, p, plan)
    BY <2>1, RowsOfDiff
  <2>4. r.from = p
    BY <2>3 DEF DiffRow
  <2>5. ToSet(plan.keys) \cup plan.compare \subseteq NameSet(S) \cap NameSet(T)
    BY <2>2 DEF ColumnsAccepted, ThePlan, Plan, SharedColumns
  <2>6. ASSUME NEW n \in NameSet(S) \cap NameSet(T), NEW i \in DOMAIN S.rows, NEW j \in DOMAIN T.rows,
               OnlyRetyped(n, i, j)
        PROVE  SourceValue(S, T, n, i) = TargetValue(S, T, n, j)
    BY <2>2, <2>6, BecameComparesEqual DEF OnlyRetyped, Became
  <2>7. r.type = "changed" => \E n \in r.changed : ~OnlyRetyped(n, r.from[1], r.from[2])
    <3>1. SUFFICES ASSUME r.type = "changed", NEW n \in r.changed, OnlyRetyped(n, p[1], p[2]) PROVE FALSE
      BY <2>2, <2>3, <2>4, RowOfPair
    <3>2. /\ p[1] \in DOMAIN S.rows /\ p[2] \in DOMAIN T.rows
          /\ n \in plan.compare /\ ColumnDiffers(S, T, n, p[1], p[2], plan)
      BY <2>2, <2>3, <3>1, RowOfPair
    <3>3. SourceValue(S, T, n, p[1]) = TargetValue(S, T, n, p[2])
      BY <2>5, <2>6, <3>1, <3>2
    <3> DEFINE st == TypeOf(S, n)
               tt == TypeOf(T, n)
    <3>4. \A v : RoundedSide(v, st, tt, plan.precision) = RoundedSide(v, tt, st, plan.precision)
      BY <2>1 DEF RoundedSide
    <3> QED
      BY <3>2, <3>3, <3>4 DEF ColumnDiffers, DistinctValues
  <2>8. ASSUME r.type = "removed", NEW j \in DOMAIN T.rows
        PROVE  \E k \in ToSet(plan.keys) : ~OnlyRetyped(k, p[1], j)
    <3>1. p[1] \in DOMAIN S.rows /\ ~KeysMatch(S, T, plan.keys, p[1], j)
      BY <2>2, <2>3, <2>8, RowOfPair, JoinedPairs
    <3> QED
      BY <2>5, <2>6, <3>1 DEF KeysMatch
  <2>9. ASSUME r.type = "added", NEW i \in DOMAIN S.rows
        PROVE  \E k \in ToSet(plan.keys) : ~OnlyRetyped(k, i, p[2])
    <3>1. p[2] \in DOMAIN T.rows /\ ~KeysMatch(S, T, plan.keys, i, p[2])
      BY <2>2, <2>3, <2>9, RowOfPair, JoinedPairs
    <3> QED
      BY <2>5, <2>6, <3>1 DEF KeysMatch
  <2> QED
    BY <2>4, <2>7, <2>8, <2>9
<1> QED
  BY <1>1, TablesHoldTheirTypes, AnswersDescribeTables, PTL
=============================================================================
