------------------------------ MODULE Sqlsteel ------------------------------
(***************************************************************************)
(* c/sqlsteel: a table in memory and the statements SELECT, INSERT, DELETE    *)
(* and UPDATE.  A statement is typed as a sequence of words; tokenize_sql     *)
(* makes tokens of them and the executors scan these.  Text is a sequence of  *)
(* letters and digits, weights are counted in tenths (what is typed has one    *)
(* decimal at most), lengths of fields are not cut.                          *)
(***************************************************************************)
EXTENDS Integers, Sequences, SequencesExt, FiniteSets, FiniteSetsExt

CONSTANTS periodic_table,   \* rows
          MAX_RECORDS, MAX_TOKENS,
          Statements,   \* what may be typed
          MAXSTMTS      \* bound: statements of a session

VARIABLES g_database,   \* per slot: row and whether it is active
          g_record_count,
          stmts,        \* statements so far, up to the bound
          last          \* history: the last statement, the table before, rows printed

vars == <<g_database, g_record_count, stmts, last>>
Slots == 1 .. MAX_RECORDS
Free == [active |-> FALSE, num |-> 0, name |-> <<>>, symbol |-> <<>>, weight |-> 0, series |-> <<>>]
NoStmt == [kind |-> "none"]

(* init_database, load_demo_data *)
Init ==
  /\ g_database = [s \in Slots |-> IF s <= Len(periodic_table) THEN periodic_table[s] ELSE Free]
  /\ g_record_count = Len(periodic_table)
  /\ stmts = 0
  /\ last = [stmt |-> NoStmt, before |-> g_database, out |-> <<>>]

-----------------------------------------------------------------------------
(* Tokens: type and value.  What is typed is the same, but for numbers with a  *)
(* decimal point.                                                           *)
K(type) == <<type, "">>
Field(f) == <<"IDENTIFIER", f>>
Text(s) == <<"STRING", s>>
Num(n) == <<"NUMBER", n>>
Type(tok) == tok[1]
Value(tok) == tok[2]

(* A point is an unknown character, which is skipped: a new number follows it. *)
Decimal(tenths) == <<"DECIMAL", tenths>>
Tokens(word) ==
  IF Type(word) # "DECIMAL" THEN <<word>> ELSE <<Num(Value(word) \div 10), Num(Value(word) % 10)>>
AllTokens(words) == FlattenSeq([w \in DOMAIN words |-> Tokens(words[w])])
tokenize_sql(words) ==
  LET all == AllTokens(words)
  IN  SubSeq(all, 1, IF Len(all) < MAX_TOKENS THEN Len(all) ELSE MAX_TOKENS)

Lower == <<"a", "b", "e">>
Upper == <<"A", "B", "E">>
to_upper(s) == [i \in DOMAIN s |-> IF s[i] \in Range(Lower)
                                   THEN Upper[CHOOSE k \in 1 .. 3 : Lower[k] = s[i]] ELSE s[i]]
atoi(tok) == IF Type(tok) = "NUMBER" THEN Value(tok) ELSE 0
atof(tok) == 10 * atoi(tok)

(* The value of a token as it was typed; a number by its digits. *)
Digits == <<"0", "1", "2", "3", "4", "5", "6", "7", "8", "9">>
RECURSIVE Numeral(_)
Numeral(n) == (IF n < 10 THEN <<>> ELSE Numeral(n \div 10)) \o <<Digits[(n % 10) + 1]>>
Chars(tok) == CASE Type(tok) = "STRING" -> Value(tok) [] Type(tok) = "NUMBER" -> Numeral(Value(tok)) [] OTHER -> <<>>

-----------------------------------------------------------------------------
(* Conditions *)

(* t and p are what is left of text and pattern, st and sp what was left of    *)
(* them after the last %, if one has been met.                               *)
RECURSIVE Match(_, _, _, _, _), Match_Sticky(_, _, _, _, _)
Match(t, p, met, st, sp) ==
  IF t = <<>> THEN \A i \in DOMAIN p : p[i] = "%"
  ELSE IF p # <<>> /\ Head(p) = "%" THEN Match(t, Tail(p), TRUE, t, Tail(p))
  ELSE IF p # <<>> /\ Head(p) \in {"_", Head(t)} THEN Match(Tail(t), Tail(p), met, st, sp)
  ELSE met /\ Match(Tail(st), sp, TRUE, Tail(st), sp)

(* Mutant: a failed attempt goes on where it failed. *)
Match_Sticky(t, p, met, st, sp) ==
  IF t = <<>> THEN \A i \in DOMAIN p : p[i] = "%"
  ELSE IF p # <<>> /\ Head(p) = "%" THEN Match_Sticky(t, Tail(p), TRUE, t, Tail(p))
  ELSE IF p # <<>> /\ Head(p) \in {"_", Head(t)} THEN Match_Sticky(Tail(t), Tail(p), met, st, sp)
  ELSE met /\ Match_Sticky(Tail(t), sp, TRUE, Tail(t), sp)
pattern_match_Sticky(text, pattern) == Match_Sticky(text, pattern, FALSE, <<>>, <<>>)

pattern_match(text, pattern) == Match(text, pattern, FALSE, <<>>, <<>>)

Compare(op, a, b) ==
  CASE op = "=" -> a = b    [] op = "<>" -> a # b
    [] op = "<" -> a < b    [] op = "<=" -> a <= b
    [] op = ">" -> a > b    [] op = ">=" -> a >= b   [] OTHER -> FALSE

TextFields == {"NAME", "SYMBOL", "SERIES"}
get_field_string(field, rec) ==
  CASE field = "NAME" -> rec.name [] field = "SYMBOL" -> rec.symbol [] field = "SERIES" -> rec.series

evaluate_condition(field, op, tok, rec) ==
  CASE field = "NUM"    -> Compare(op, rec.num, atoi(tok))
    [] field = "WEIGHT" -> Compare(op, rec.weight, atof(tok))
    [] field \in TextFields ->
         LET s == get_field_string(field, rec)
             v == to_upper(Chars(tok))
         IN  CASE op = "=" -> s = v [] op = "<>" -> s # v
               [] op = "LIKE" -> pattern_match(s, v) [] OTHER -> FALSE

ValueTypes == {"NUMBER", "STRING", "IDENTIFIER"}
Operators == {"=", "<>", "<", "<=", ">", ">=", "LIKE"}

(* One condition, from its field at T[i]: whether it holds, and what follows   *)
(* it; next = 0 if the rest of the clause is given up.                        *)
Condition(T, rec, i) ==
  LET field == Value(T[i])
      Is(k, type) == k <= Len(T) /\ Type(T[k]) = type
      close == LET ends == {k \in i .. Len(T) : Type(T[k]) = ")"}
               IN  IF ends = {} THEN Len(T) + 1 ELSE Min(ends)
      At(holds, next) == [holds |-> holds, next |-> next]
  IN  CASE Is(i + 1, "IN") ->
             IF Is(i + 2, "(")
             THEN At(\E k \in i + 3 .. close - 1 : /\ Type(T[k]) \in ValueTypes
                                                   /\ evaluate_condition(field, "=", T[k], rec), close + 1)
             ELSE At(FALSE, i + 2)
        [] Is(i + 1, "BETWEEN") ->
             IF i + 4 > Len(T) THEN At(FALSE, i + 2)
             ELSE IF ~Is(i + 3, "AND") THEN At(FALSE, i + 3)
             ELSE At(/\ evaluate_condition(field, ">=", T[i + 2], rec)
                     /\ evaluate_condition(field, "<=", T[i + 4], rec), i + 5)
        [] OTHER ->
             IF i + 2 <= Len(T) /\ Type(T[i + 1]) \in Operators /\ Type(T[i + 2]) \in ValueTypes
             THEN At(evaluate_condition(field, Type(T[i + 1]), T[i + 2], rec), i + 3)
             ELSE At(FALSE, 0)

Ends(T, i) == i > Len(T) \/ Type(T[i]) \in {";", "ORDER", "LIMIT", "OFFSET", "FETCH"}

Outcome(s) == IF s.or THEN s.result \/ s.current ELSE s.result /\ s.current

RECURSIVE Where(_, _, _)
AfterCondition(T, rec, s, c) ==
  LET holds == c.holds # s.negate
  IN  IF c.next = 0 THEN Outcome(s)
      ELSE Where(T, rec, [s EXCEPT !.current = IF s.or THEN holds ELSE @ /\ holds,
                                   !.negate = FALSE, !.i = c.next])
Where(T, rec, s) ==
  LET i == s.i
      t == Type(T[i])
  IN  IF Ends(T, i) THEN Outcome(s)
      ELSE CASE t = "NOT" -> Where(T, rec, [s EXCEPT !.negate = TRUE, !.i = i + 1])
             [] t = "AND" -> Where(T, rec, [s EXCEPT !.result = IF s.or THEN @ \/ s.current ELSE @,
                                                     !.or = FALSE, !.i = i + 1])
             [] t = "OR" -> Where(T, rec, [s EXCEPT !.result = IF s.or THEN @ ELSE @ /\ s.current,
                                                    !.or = TRUE, !.i = i + 1])
             [] t = "IDENTIFIER" -> AfterCondition(T, rec, s, Condition(T, rec, i))
             [] OTHER -> Where(T, rec, [s EXCEPT !.i = i + 1])

(* Mutant: OR forgets the conditions before it. *)
evaluate_where_clause_Last(T, rec, pos) ==
  Where(T, rec, [i |-> pos, result |-> FALSE, current |-> TRUE, negate |-> FALSE, or |-> FALSE])

evaluate_where_clause(T, rec, pos) ==
  Where(T, rec, [i |-> pos, result |-> TRUE, current |-> TRUE, negate |-> FALSE, or |-> FALSE])

(* Where the first token of a type stands, or 0. *)
First(T, type) == LET at == {i \in DOMAIN T : Type(T[i]) = type} IN IF at = {} THEN 0 ELSE Min(at)
Matches(T, rec) ==
  rec.active /\ (First(T, "WHERE") # 0 => evaluate_where_clause(T, rec, First(T, "WHERE") + 1))

-----------------------------------------------------------------------------
(* SELECT *)

Alphabet == Digits \o Upper \o Lower
Code(c) == CHOOSE k \in DOMAIN Alphabet : Alphabet[k] = c
RECURSIVE strcmp(_, _)
strcmp(a, b) ==
  IF a = <<>> \/ b = <<>> THEN Len(a) - Len(b)
  ELSE IF Head(a) = Head(b) THEN strcmp(Tail(a), Tail(b)) ELSE Code(Head(a)) - Code(Head(b))

compare_records(a, b, field, desc) ==
  LET result == CASE field = "NUM" -> a.num - b.num
                  [] field = "WEIGHT" -> a.weight - b.weight
                  [] field \in TextFields -> strcmp(get_field_string(field, a), get_field_string(field, b))
                  [] OTHER -> 0
  IN  IF desc THEN -result ELSE result

(* The loop of sort_records over arr[i .. j]; by: the field and the direction. *)
RECURSIVE Partition(_, _, _, _, _), sort_records(_, _, _, _)
Exchange(arr, i, j, pivot, by) ==
  IF i > j THEN [arr |-> arr, i |-> i, j |-> j]
  ELSE Partition([arr EXCEPT ![i] = arr[j], ![j] = arr[i]], i + 1, j - 1, pivot, by)
Partition(arr, i, j, pivot, by) ==
  LET Cmp(k) == compare_records(arr[k], pivot, by.field, by.desc)
  IN  IF i > j THEN [arr |-> arr, i |-> i, j |-> j]
      ELSE Exchange(arr, CHOOSE k \in i .. Len(arr) : Cmp(k) >= 0 /\ \A m \in i .. k - 1 : Cmp(m) < 0,
                    CHOOSE k \in 1 .. j : Cmp(k) <= 0 /\ \A m \in k + 1 .. j : Cmp(m) > 0, pivot, by)

Parts(p, left, right, by) == sort_records(sort_records(p.arr, left, p.j, by), p.i, right, by)
sort_records(arr, left, right, by) ==
  IF left >= right THEN arr
  ELSE Parts(Partition(arr, left, right, arr[(left + right) \div 2], by), left, right, by)

is_duplicate(results, rec) ==
  \E i \in DOMAIN results : /\ results[i].name = rec.name /\ results[i].symbol = rec.symbol
                            /\ results[i].weight = rec.weight

Number(T, type, default) ==
  LET i == First(T, type) IN IF i # 0 /\ i < Len(T) THEN atoi(T[i + 1]) ELSE default
Limit(T) ==
  LET i == First(T, "FETCH")
  IN  IF i # 0 /\ i + 2 <= Len(T) /\ Type(T[i + 1]) \in {"FIRST", "NEXT"} /\ Type(T[i + 2]) = "NUMBER"
      THEN Value(T[i + 2]) ELSE Number(T, "LIMIT", -1)

Found(T) ==
  LET distinct == Len(T) > 1 /\ Type(T[2]) = "DISTINCT"
      Collect(rs, s) == IF Matches(T, g_database[s]) /\ ~(distinct /\ is_duplicate(rs, g_database[s]))
                        THEN Append(rs, g_database[s]) ELSE rs
  IN  FoldLeft(Collect, <<>>, [s \in Slots |-> s])
Ordered(rows, T, o) ==
  IF o # 0 /\ o + 2 <= Len(T) /\ Type(T[o + 1]) = "BY"
  THEN sort_records(rows, 1, Len(rows), [field |-> Value(T[o + 2]), desc |-> o + 3 <= Len(T) /\ Type(T[o + 3]) = "DESC"])
  ELSE rows
Printed(rows, offset, limit) ==
  SubSeq(rows, offset + 1, IF limit >= 0 /\ offset + limit < Len(rows) THEN offset + limit ELSE Len(rows))
execute_select(T) == Printed(Ordered(Found(T), T, First(T, "ORDER")), Number(T, "OFFSET", 0), Limit(T))

-----------------------------------------------------------------------------
(* INSERT, DELETE, UPDATE: the table and the count after them *)

Same == [table |-> g_database, count |-> g_record_count]

(* The values after VALUES and its parenthesis, commas aside, four at most.   *)
ValuesOf(T) ==
  LET v == First(T, "VALUES")
      open == IF v # 0 /\ v < Len(T) /\ Type(T[v + 1]) = "(" THEN v + 2 ELSE v + 1
      ends == {k \in open .. Len(T) : Type(T[k]) = ")"}
      upto == IF ends = {} THEN Len(T) ELSE Min(ends) - 1
      all == SelectSeq(SubSeq(T, open, upto), LAMBDA t : Type(t) # ",")
  IN  SubSeq(all, 1, IF Len(all) < 4 THEN Len(all) ELSE 4)

execute_insert(T) ==
  LET free == {s \in Slots : ~g_database[s].active}
      slot == Min(free)
      v == ValuesOf(T)
  IN  IF free = {} \/ First(T, "VALUES") = 0 \/ Len(v) < 4 THEN Same
      ELSE [table |-> [g_database EXCEPT ![slot] =
                         [active |-> TRUE, num |-> slot, name |-> Chars(v[1]), symbol |-> Chars(v[2]),
                          weight |-> atof(v[3]), series |-> Chars(v[4])]],
            count |-> g_record_count + 1]

(* Mutant: rows that are not active any more are counted out again. *)
execute_delete_Twice(T) ==
  LET gone == {s \in Slots : evaluate_where_clause(T, g_database[s], First(T, "WHERE") + 1)}
  IN  IF First(T, "WHERE") = 0 THEN Same
      ELSE [table |-> [s \in Slots |-> IF s \in gone THEN [g_database[s] EXCEPT !.active = FALSE]
                                       ELSE g_database[s]],
            count |-> g_record_count - Cardinality(gone)]

execute_delete(T) ==
  LET gone == {s \in Slots : Matches(T, g_database[s])}
  IN  IF First(T, "WHERE") = 0 THEN Same
      ELSE [table |-> [s \in Slots |-> IF s \in gone THEN [g_database[s] EXCEPT !.active = FALSE]
                                       ELSE g_database[s]],
            count |-> g_record_count - Cardinality(gone)]

Assigned(rec, field, tok) ==
  CASE field = "WEIGHT" -> [rec EXCEPT !.weight = atof(tok)]
    [] field = "NAME"   -> [rec EXCEPT !.name = Chars(tok)]
    [] field = "SYMBOL" -> [rec EXCEPT !.symbol = Chars(tok)]
    [] field = "SERIES" -> [rec EXCEPT !.series = Chars(tok)]
    [] OTHER -> rec

(* The last SET before WHERE; one field. *)
execute_update(T) ==
  LET w == First(T, "WHERE")
      sets == {i \in DOMAIN T : Type(T[i]) = "SET" /\ (w # 0 => i < w)}
      p == Max(sets) + 1
      valid == sets # {} /\ p + 2 <= Len(T) /\ Type(T[p]) = "IDENTIFIER" /\ Type(T[p + 1]) = "="
  IN  IF ~valid THEN Same
      ELSE [table |-> [s \in Slots |-> IF Matches(T, g_database[s])
                                       THEN Assigned(g_database[s], Value(T[p]), T[p + 2])
                                       ELSE g_database[s]],
            count |-> g_record_count]

-----------------------------------------------------------------------------
(* parse_and_execute: T are the tokens of the statement main has read. *)
Done(stmt, out) == last' = [stmt |-> stmt, before |-> g_database, out |-> out]

(* SELECT changes nothing, so it may be the last statement the bound allows.  *)
Select(stmt, T) ==
  /\ Type(T[1]) = "SELECT"
  /\ Done(stmt, execute_select(T))
  /\ stmts' = MAXSTMTS
  /\ UNCHANGED <<g_database, g_record_count>>

Change(stmt, after) ==
  /\ stmts' = stmts + 1
  /\ g_database' = after.table /\ g_record_count' = after.count
  /\ Done(stmt, <<>>)
Insert(stmt, T) == Type(T[1]) = "INSERT" /\ Change(stmt, execute_insert(T))
Delete(stmt, T) == Type(T[1]) = "DELETE" /\ Change(stmt, execute_delete(T))
Update(stmt, T) == Type(T[1]) = "UPDATE" /\ Change(stmt, execute_update(T))

Execute(stmt, T) == Select(stmt, T) \/ Insert(stmt, T) \/ Delete(stmt, T) \/ Update(stmt, T)
Next == stmts < MAXSTMTS /\ \E stmt \in Statements : Execute(stmt, tokenize_sql(stmt.words))
Spec == Init /\ [][Next]_vars
=============================================================================
