----------------------------- MODULE SqlMeaning -----------------------------
(***************************************************************************)
(* What a statement asks for, apart from how it is scanned: the properties of *)
(* Sqlsteel.  A statement has its parts (kind, where, order, ...) and the      *)
(* words that say the same.                                                 *)
(***************************************************************************)
EXTENDS Sqlsteel

(* A condition is [not, field, op, v], v its values; a where clause is a       *)
(* sequence of alternatives, each a sequence of conditions.                  *)
Listed(sep, parts) ==
  FlattenSeq([i \in DOMAIN parts |-> (IF i = 1 THEN <<>> ELSE <<K(sep)>>) \o parts[i]])
CondWords(c) ==
  (IF c.not THEN <<K("NOT")>> ELSE <<>>) \o <<Field(c.field), K(c.op)>> \o
  CASE c.op = "IN" -> <<K("(")>> \o Listed(",", [i \in DOMAIN c.v |-> <<c.v[i]>>]) \o <<K(")")>>
    [] c.op = "BETWEEN" -> Listed("AND", [i \in DOMAIN c.v |-> <<c.v[i]>>])
    [] OTHER -> c.v
WhereWords(where) ==
  IF where = <<>> THEN <<>>
  ELSE <<K("WHERE")>> \o Listed("OR", [i \in DOMAIN where |->
                           Listed("AND", [j \in DOMAIN where[i] |-> CondWords(where[i][j])])])

SelectStmt(distinct, where, order, limit, offset, fetch) ==
  [kind |-> "select", distinct |-> distinct, where |-> where, order |-> order,
   limit |-> limit, offset |-> offset, words |->
     <<K("SELECT")>> \o (IF distinct THEN <<K("DISTINCT")>> ELSE <<>>)
     \o <<K("*"), K("FROM"), Field("ELEMENTS")>> \o WhereWords(where)
     \o (IF order.field = "" THEN <<>>
         ELSE <<K("ORDER"), K("BY"), Field(order.field), K(IF order.desc THEN "DESC" ELSE "ASC")>>)
     \o (IF limit < 0 \/ fetch THEN <<>> ELSE <<K("LIMIT"), Num(limit)>>)
     \o (IF offset = 0 THEN <<>> ELSE <<K("OFFSET"), Num(offset)>>)
     \o (IF fetch /\ limit >= 0 THEN <<K("FETCH"), K("FIRST"), Num(limit), K("ROWS"), K("ONLY")>> ELSE <<>>)
     \o <<K(";")>>]
InsertStmt(v) ==
  [kind |-> "insert", v |-> v, words |->
     <<K("INSERT"), K("INTO"), Field("ELEMENTS"), K("VALUES"), K("(")>>
     \o Listed(",", [i \in DOMAIN v |-> <<v[i]>>]) \o <<K(")"), K(";")>>]
DeleteStmt(where) ==
  [kind |-> "delete", where |-> where,
   words |-> <<K("DELETE"), K("FROM"), Field("ELEMENTS")>> \o WhereWords(where) \o <<K(";")>>]
UpdateStmt(field, v, where) ==
  [kind |-> "update", field |-> field, v |-> v, where |-> where,
   words |-> <<K("UPDATE"), Field("ELEMENTS"), K("SET"), Field(field), K("="), v>>
             \o WhereWords(where) \o <<K(";")>>]

-----------------------------------------------------------------------------
RECURSIVE Like(_, _)
Like(t, p) ==
  CASE p = <<>> -> t = <<>>
    [] p # <<>> /\ Head(p) = "%" -> \E k \in 0 .. Len(t) : Like(SubSeq(t, k + 1, Len(t)), Tail(p))
    [] OTHER -> t # <<>> /\ Head(p) \in {"_", Head(t)} /\ Like(Tail(t), Tail(p))

ValueOf(rec, field) ==
  CASE field = "NUM" -> rec.num [] field = "WEIGHT" -> rec.weight [] OTHER -> get_field_string(field, rec)

(* What a value is taken for: of a number the digits before the point. *)
Whole(w) == IF Type(w) = "DECIMAL" THEN Value(w) \div 10 ELSE Value(w)
Literal(field, w) ==
  CASE field = "WEIGHT" -> 10 * Whole(w) [] field = "NUM" -> Whole(w) [] OTHER -> Value(w)
(* In a condition a text is put in capitals; the rows are taken as they are.  *)
Compared(field, w) == IF field \in TextFields THEN to_upper(Value(w)) ELSE Literal(field, w)
CondHolds(c, rec) ==
  LET x == ValueOf(rec, c.field)
      v == [i \in DOMAIN c.v |-> Compared(c.field, c.v[i])]
  IN  c.not # CASE c.op = "IN" -> x \in Range(v)
                [] c.op = "BETWEEN" -> v[1] <= x /\ x <= v[2]
                [] c.op = "LIKE" -> Like(x, v[1])
                [] OTHER -> Compare(c.op, x, v[1])
Holds(where, rec) ==
  rec.active /\ (where = <<>> \/ \E i \in DOMAIN where : \A j \in DOMAIN where[i] : CondHolds(where[i][j], rec))

NotAfter(a, b, order) ==
  LET x == ValueOf(a, order.field)
      y == ValueOf(b, order.field)
      before == IF order.field \in TextFields THEN strcmp(x, y) < 0 ELSE x < y
  IN  x = y \/ before # order.desc
Alike(a, b) == a.name = b.name /\ a.symbol = b.symbol /\ a.weight = b.weight
Least(a, b) == IF a < b THEN a ELSE b

(* What the properties are stated for: one OR at most, with one condition after *)
(* it, no number with decimals in an IN list or a BETWEEN, no more words than  *)
(* MAX_TOKENS.  Other clauses are typed in the run, too, and do otherwise.     *)
Plainly(q) ==
  /\ Len(AllTokens(q.words)) <= MAX_TOKENS
  /\ q.kind # "insert" =>
       /\ Len(q.where) <= 2 /\ (Len(q.where) = 2 => Len(q.where[2]) = 1)
       /\ \A i \in DOMAIN q.where : \A c \in Range(q.where[i]) :
            c.op \in {"IN", "BETWEEN"} => \A w \in Range(c.v) : Type(w) # "DECIMAL"

(* The rows printed are those the statement asks for: of the rows that meet   *)
(* the WHERE clause, one of each kind under DISTINCT, put in some order that   *)
(* agrees with ORDER BY, the OFFSET skipped and no more than the LIMIT shown   *)
(* (execute_select and all it calls).  A text in a clause is meant in capitals, *)
(* so that a row's lower-case letter meets no =, and a number without its      *)
(* decimals (query.c:65, sqlengine.c:66): that is what the clause asks for.    *)
Selected ==
  LET q == last.stmt
      rows == {r \in Range(last.before) : Holds(q.where, r)}
  IN  q.kind = "select" /\ Plainly(q) =>
        \E kept \in SUBSET rows :
          /\ q.distinct => \A r \in rows : Cardinality({k \in kept : Alike(k, r)}) = 1
          /\ ~q.distinct => kept = rows
          /\ \E s \in SetToSeqs(kept) :
               /\ q.order.field # "" =>
                    \A i \in 1 .. Len(s) - 1 : NotAfter(s[i], s[i + 1], q.order)
               /\ last.out = SubSeq(s, q.offset + 1,
                    IF q.limit < 0 THEN Len(s) ELSE Least(Len(s), q.offset + q.limit))

Active(db) == {s \in Slots : db[s].active}
New == Active(g_database) \ Active(last.before)
Columns == <<"NAME", "SYMBOL", "WEIGHT", "SERIES">>
(* The four values INSERT finds: what is behind a decimal point is one of them. *)
Entered(v) == IF Type(v[3]) = "DECIMAL" THEN <<v[1], v[2], v[3], Text(Numeral(Value(v[3]) % 10))>> ELSE v

(* Through any sequence of statements, each changes exactly the rows it names  *)
(* and nothing else; the count is that of the active rows, and no two of them  *)
(* have the same number (execute_insert, execute_delete, execute_update).  A   *)
(* weight is stored without its decimals, and in an INSERT these digits take    *)
(* the place of the series (sqlengine.c:66); ValuesKept is about that.        *)
Applied ==
  LET q == last.stmt
      old(s) == last.before[s]
  IN  /\ g_record_count = Cardinality(Active(g_database))
      /\ \A s, t \in Active(g_database) : g_database[s].num = g_database[t].num => s = t
      /\ q.kind = "delete" /\ q.where # <<>> /\ Plainly(q) =>
           \A s \in Slots : g_database[s] = IF Holds(q.where, old(s)) THEN [old(s) EXCEPT !.active = FALSE]
                                            ELSE old(s)
      /\ q.kind = "update" /\ Plainly(q) =>
           \A s \in Slots : IF Holds(q.where, old(s))
                            THEN /\ ValueOf(g_database[s], q.field) = Literal(q.field, q.v)
                                 /\ \A f \in (Range(Columns) \cup {"NUM"}) \ {q.field} :
                                      ValueOf(g_database[s], f) = ValueOf(old(s), f)
                            ELSE g_database[s] = old(s)
      /\ q.kind = "insert" =>
           /\ \A s \in Slots \ New : g_database[s] = old(s)
           /\ New = {} <=> Active(last.before) = Slots
           /\ \A s \in New : \A k \in 1 .. 4 :
                ValueOf(g_database[s], Columns[k]) = Literal(Columns[k], Entered(q.v)[k])

(* sqlsteel.c:37 and 39, the help: INSERT INTO ELEMENTS VALUES (..., 999.9,      *)
(* 'SYNTHETIC') and UPDATE ELEMENTS SET ATOMIC_WEIGHT = 12.011 store what they *)
(* say, the decimals of the weight and the series.                           *)
Given(field, w) == IF field = "WEIGHT" /\ Type(w) = "DECIMAL" THEN Value(w) ELSE Literal(field, w)
ValuesKept ==
  LET q == last.stmt
  IN  /\ q.kind = "insert" => \A s \in New : \A k \in 1 .. 4 :
                                ValueOf(g_database[s], Columns[k]) = Given(Columns[k], q.v[k])
      /\ q.kind = "update" => \A s \in Slots : Holds(q.where, last.before[s]) =>
                                ValueOf(g_database[s], q.field) = Given(q.field, q.v)

-----------------------------------------------------------------------------
(* A small table, and statements over it. *)
Row(n, name, symbol, w, series) ==
  [active |-> TRUE, num |-> n, name |-> name, symbol |-> symbol, weight |-> w, series |-> series]
SqlTable == <<Row(1, <<"A", "B">>, <<"A">>, 10, <<"A">>), Row(2, <<"B", "A", "B">>, <<"B", "e">>, 45, <<"B">>),
              Row(3, <<"A", "B", "A">>, <<"A">>, 10, <<"A">>)>>

Cond(not, field, op, v) == [not |-> not, field |-> field, op |-> op, v |-> v]
Patterns == UNION {[1 .. n -> {"A", "B", "%", "_"}] : n \in 0 .. 3}
            \cup {<<"%", "A", "B", "%", "B">>, <<"_", "%", "_">>, <<"%", "B", "_", "%">>}
Plain == {Cond(FALSE, "NUM", "=", <<Num(2)>>), Cond(TRUE, "NUM", ">", <<Num(2)>>),
          Cond(FALSE, "WEIGHT", "<=", <<Num(1)>>), Cond(FALSE, "SERIES", "=", <<Text(<<"A">>)>>),
          Cond(TRUE, "NAME", "<>", <<Text(<<"A", "B">>)>>),
          Cond(TRUE, "SERIES", "IN", <<Text(<<"E">>), Text(<<"B">>), Text(<<"A", "B">>)>>),
          Cond(FALSE, "NUM", "IN", <<Num(3), Num(1)>>),
          Cond(TRUE, "WEIGHT", "BETWEEN", <<Num(1), Num(4)>>),
          Cond(FALSE, "NAME", "LIKE", <<Text(<<"%", "B">>)>>),
          Cond(FALSE, "WEIGHT", "=", <<Decimal(45)>>), Cond(FALSE, "SYMBOL", "=", <<Text(<<"B", "e">>)>>),
          Cond(FALSE, "SYMBOL", "LIKE", <<Text(<<"b", "%">>)>>)}
Overlong == <<<<Cond(FALSE, "NUM", "IN", [i \in 1 .. 4 |-> Num(i)]), Cond(FALSE, "NUM", "IN", <<Num(1), Num(2)>>)>>>>
Unplain == {Overlong,
  <<<<Cond(FALSE, "NUM", "=", <<Num(2)>>)>>, <<Cond(FALSE, "NUM", "=", <<Num(1)>>)>>, <<Cond(FALSE, "NUM", "=", <<Num(3)>>)>>>>,
  <<<<Cond(FALSE, "WEIGHT", "IN", <<Decimal(45), Num(1)>>)>>>>, <<<<Cond(FALSE, "WEIGHT", "BETWEEN", <<Decimal(5), Num(9)>>)>>>>}
NoOrder == [field |-> "", desc |-> FALSE]
Clauses == {<<<<a>>>> : a \in Plain} \cup {<<<<a, b>>>> : a \in Plain, b \in Plain}
           \cup {<<<<a>>, <<b>>>> : a \in Plain, b \in Plain}
SqlSelects ==
  {SelectStmt(FALSE, <<<<Cond(n, "NAME", "LIKE", <<Text(p)>>)>>>>, NoOrder, -1, 0, FALSE)
     : n \in {FALSE}, p \in Patterns}
  \cup {SelectStmt(FALSE, w, NoOrder, -1, 0, FALSE) : w \in Clauses \cup Unplain}
  \cup {SelectStmt(d, <<>>, [field |-> f, desc |-> e], l, o, FALSE)
          : d \in BOOLEAN, f \in {"WEIGHT", "NAME", "NUM"}, e \in BOOLEAN, l \in {-1, 2}, o \in {0, 1}}
  \cup {SelectStmt(FALSE, <<>>, [field |-> f, desc |-> FALSE], 1, o, TRUE)
          : f \in {"", "SERIES"}, o \in {0, 2}}
SqlChanges ==
  {InsertStmt(<<Text(n), Text(<<Head(n), "e">>), w, Text(<<"E">>)>>)
     : n \in {<<"A", "B">>, <<"E">>}, w \in {Num(1), Decimal(9), Decimal(9999)}}
  \cup {DeleteStmt(w) : w \in Unplain \cup {<<>>, <<<<Cond(FALSE, "NUM", "=", <<Num(2)>>)>>>>,
                               <<<<Cond(FALSE, "WEIGHT", "<", <<Num(2)>>), Cond(TRUE, "NUM", "=", <<Num(3)>>)>>>>}}
  \cup {UpdateStmt("NAME", Text(<<"B">>), <<<<Cond(FALSE, "NUM", ">=", <<Num(2)>>)>>>>),
        UpdateStmt("WEIGHT", Num(2), <<>>),
        UpdateStmt("WEIGHT", Decimal(121), <<<<Cond(FALSE, "SYMBOL", "<>", <<Text(<<"A", "e">>)>>)>>>>),
        UpdateStmt("SERIES", Text(<<"B", "E">>), <<<<Cond(FALSE, "SERIES", "LIKE", <<Text(<<"E", "%">>)>>)>>>>)}
SqlStatements == SqlSelects \cup SqlChanges
=============================================================================
