------------------------------ MODULE CamlHeap ------------------------------
(***************************************************************************)
(* c/ocaml-sudoku, the run-time system: a heap of words that is marked and    *)
(* compacted, the stack of roots, blocks, strings and closures.  A step is a  *)
(* call of the compiled program, with its values in slots of the stack, as    *)
(* bp[..] are.  A character takes a word; raising, which the program never    *)
(* does, is left out.                                                        *)
(***************************************************************************)
EXTENDS Integers, Sequences, FiniteSets, FiniteSetsExt, TLC

CONSTANTS HEAP_SIZE, STACK_SIZE,  \* words
          SLOTS,                  \* slots of the frame
          Arity,                  \* of "pair", which allocates its first two arguments, and "first", which returns its first
          Letters, MAXLEN,        \* of strings
          MAXSTEPS                \* bound: calls

VARIABLE mem

Val_int(n) == <<"int", n>>
Ptr(a) == <<"ptr", a>>
Chr(c) == <<"chr", c>>
Make_header(size, tag) == <<"hdr", size, tag>>
Is_ptr(w) == w[1] = "ptr"

Size_val(m, a) == m.words[a][2]
Tag_val(m, a) == m.words[a][3]
Field(m, a, i) == m.words[a + 1 + i]
(* Closures: fun, args_idx, total_args, args[]. *)
Args(m, a) == [i \in 1 .. Field(m, a, 1)[2] |-> Field(m, a, 2 + i)]
Total(m, a) == Field(m, a, 2)[2]

-----------------------------------------------------------------------------
(* Marking and compacting *)

(* Addresses of the words of a block that may hold pointers. *)
Scanned(m, a) ==
  CASE Tag_val(m, a) = "closure" -> {a + 3 + i : i \in 1 .. Field(m, a, 1)[2]}
    [] Tag_val(m, a) = "block" -> {a + i : i \in 1 .. Size_val(m, a)}
    [] Tag_val(m, a) = "string" -> {}
RECURSIVE mark(_, _)
mark(m, marked) ==
  LET next == marked \cup {m.words[w][2] : w \in {w \in UNION {Scanned(m, a) : a \in marked} : Is_ptr(m.words[w])}}
  IN  IF next = marked THEN marked ELSE mark(m, next)
Roots(m) == {m.stack[i][2] : i \in {i \in DOMAIN m.stack : Is_ptr(m.stack[i])}}

forward(m, marked, v) ==
  IF Is_ptr(v) THEN Ptr(MapThenSumSet(LAMBDA a : 1 + Size_val(m, a), {a \in marked : a < v[2]})) ELSE v

(* Roots and pointers of live blocks. *)
update(m, marked) ==
  LET pointers == UNION {Scanned(m, a) : a \in marked}
  IN  [m EXCEPT !.stack = [i \in DOMAIN @ |-> forward(m, marked, @[i])],
                !.words = [w \in DOMAIN @ |-> IF w \in pointers THEN forward(m, marked, @[w]) ELSE @[w]]]
(* Then the blocks slide down.  What lies beyond the new hp stays as it was.   *)
slide(m, marked, hp) ==
  LET To(a) == forward(m, marked, Ptr(a))[2]
      From(w) == CHOOSE a \in marked : To(a) <= w /\ w <= To(a) + Size_val(m, a)
      Word(w, a) == m.words[a + (w - To(a))]
  IN  [m EXCEPT !.hp = hp, !.words = [w \in DOMAIN @ |-> IF w < hp THEN Word(w, From(w)) ELSE @[w]]]
compact(m, marked) == slide(update(m, marked), marked, MapThenSumSet(LAMBDA a : 1 + Size_val(m, a), marked))
gc(m) == compact(m, mark(m, Roots(m)))

-----------------------------------------------------------------------------
(* Allocation.  Results are [m, v]: the memory and the value returned; over is  *)
(* "" until the program gives up.                                            *)

Result(m, v) == [m |-> m, v |-> v]
GiveUp(m, why) == Result([m EXCEPT !.over = why], Val_int(0))
Push(m, vs) == [m EXCEPT !.stack = @ \o vs, !.over = IF Len(m.stack) + Len(vs) > STACK_SIZE THEN "stack" ELSE @]
(* fields: written over the block from its word from on. *)
Fill(m, a, from, fields) ==
  [m EXCEPT !.words = [w \in DOMAIN @ |-> IF w - a - from \in DOMAIN fields THEN fields[w - a - from] ELSE @[w]]]

reserve(m, size, tag) ==
  IF m.over # "" \/ m.hp + 1 + size > HEAP_SIZE THEN GiveUp(m, IF m.over = "" THEN "heap" ELSE m.over)
  ELSE Result(Fill([m EXCEPT !.hp = @ + 1 + size], m.hp, -1,
                   <<Make_header(size, tag)>> \o [i \in 1 .. size |-> Val_int(0)]),
              Ptr(m.hp))
alloc(m, size, tag) == reserve(IF m.hp + 1 + size > HEAP_SIZE THEN gc(m) ELSE m, size, tag)

(* The new block gets the words that fields says of it, and the stack n of its *)
(* values back.                                                              *)
Built(r, from, fields, n) ==
  IF r.m.over # "" THEN r ELSE Result([Fill(r.m, r.v[2], from, fields) EXCEPT !.stack = SubSeq(@, 1, n)], r.v)

(* Mutant: the fields are those the call was given, not those on the stack. *)
caml_alloc_Given(m, vs) == Built(alloc(Push(m, vs), Len(vs), "block"), 0, vs, Len(m.stack))

OnStack(r, n) == Built(r, 0, SubSeq(r.m.stack, n + 1, Len(r.m.stack)), n)
caml_alloc(m, vs) == OnStack(alloc(Push(m, vs), Len(vs), "block"), Len(m.stack))

caml_alloc_closure(m, fun, num_args, num_env) ==
  Built(alloc(m, 3 + num_args + num_env, "closure"), 0,
        <<<<"fun", fun>>, Val_int(0), Val_int(num_args + num_env)>>, Len(m.stack))
add_arg(m, a, v) == Fill(Fill(m, a, 3 + Field(m, a, 1)[2], <<v>>), a, 1, <<Val_int(Field(m, a, 1)[2] + 1)>>)

(* Length, the characters and a NUL. *)
caml_copy_string(m, s) ==
  Built(alloc(m, 2 + Len(s), "string"), 0,
        <<Val_int(Len(s))>> \o [i \in DOMAIN s |-> Chr(s[i])] \o <<Chr("")>>, Len(m.stack))
String_length(m, a) == Field(m, a, 0)[2]
String_data(m, a, len) == [i \in 1 .. len |-> Field(m, a, i)]
(* The lengths are read before the allocation, the characters after it, at the *)
(* addresses the strings had before.                                         *)
Moved(m, r, a, len) == r.m.over = "" /\ String_data(r.m, a, len) # String_data(m, a, len)
Concatenated(m, r, a1, a2, len1, len2) ==
  Built(Result([r.m EXCEPT !.moved = @ \/ Moved(m, r, a1, len1) \/ Moved(m, r, a2, len2)], r.v), 0,
        <<Val_int(len1 + len2)>> \o String_data(r.m, a1, len1) \o String_data(r.m, a2, len2) \o <<Chr("")>>, Len(m.stack))
caml_string_concat(m, a1, a2) ==
  Concatenated(m, alloc(m, 2 + String_length(m, a1) + String_length(m, a2), "string"), a1, a2,
               String_length(m, a1), String_length(m, a2))

-----------------------------------------------------------------------------
(* Calls.  A function reads its arguments into its own frame, on the stack.    *)

Body(m, fun, vs) ==
  IF fun = "first" THEN Result(m, vs[1]) ELSE caml_alloc(Push(m, <<vs[1], vs[2]>>), <<vs[1], vs[2]>>)

Cut(m, n) == [m EXCEPT !.stack = SubSeq(@, 1, n)]
Back(r, base) == Result(Cut(r.m, base), r.v)

(* The arguments held and given go on the stack; all of them there, the        *)
(* function runs, and its result takes those left over; else a closure holds  *)
(* them all.                                                                 *)
RECURSIVE caml_call_with_args(_, _, _)
LeftOver(r, base, provided, total) ==
  IF r.m.over # "" \/ provided = total THEN r
  ELSE caml_call_with_args(Cut(r.m, base + provided), r.v[2], SubSeq(r.m.stack, base + total + 1, base + provided))
Holding(r, base, provided) ==
  Built(Built(r, 3, SubSeq(r.m.stack, base + 1, base + provided), base + provided), 1, <<Val_int(provided)>>, base)
Provided(m, fun, base, provided, total) ==
  IF m.over # "" THEN GiveUp(m, m.over)
  ELSE IF provided >= total
  THEN Back(LeftOver(Body(m, fun, SubSeq(m.stack, base + 1, base + provided)), base, provided, total), base)
  ELSE Holding(caml_alloc_closure(m, fun, total - provided, provided), base, provided)
caml_call_with_args(m, a, given) ==
  Provided(Push(m, Args(m, a) \o given), Field(m, a, 0)[2], Len(m.stack), Len(Args(m, a)) + Len(given), Total(m, a))
caml_call(m, a, given) == Back(caml_call_with_args(Push(m, given), a, given), Len(m.stack))

-----------------------------------------------------------------------------
(* The values meant, without addresses: trees, in which a closure may hold     *)
(* itself.                                                                    *)

Self == <<"self">>
Wild == <<"wild">>
RECURSIVE Tree(_, _, _)
Tree(m, v, depth) ==
  IF ~Is_ptr(v) THEN v
  ELSE IF depth = 0 \/ v[2] >= m.hp \/ m.words[v[2]][1] # "hdr" THEN Wild
  ELSE LET a == v[2]
           Inner(w) == IF w = v THEN Self ELSE Tree(m, w, depth - 1)
       IN  CASE Tag_val(m, a) = "string" -> <<"string", [i \in 1 .. String_length(m, a) |-> Field(m, a, i)[2]]>>
             [] Tag_val(m, a) = "block" -> <<"block", [i \in 1 .. Size_val(m, a) |-> Inner(Field(m, a, i - 1))]>>
             [] Tag_val(m, a) = "closure" -> <<"closure", Field(m, a, 0)[2], [i \in DOMAIN Args(m, a) |-> Inner(Args(m, a)[i])]>>
Value(v) == Tree(mem, v, MAXSTEPS + 2)

Held(t) == [i \in DOMAIN t[3] |-> IF t[3][i] = Self THEN t ELSE t[3][i]]
Stuck == <<"stuck">>
RECURSIVE Apply(_, _)
Apply(t, given) ==
  IF t[1] # "closure" THEN Stuck
  ELSE LET all == Held(t) \o given
           n == Arity[t[2]]
           result == IF t[2] = "first" THEN all[1] ELSE <<"block", <<all[1], all[2]>>>>
       IN  IF Len(all) < n THEN <<"closure", t[2], all>>
           ELSE IF Len(all) = n THEN result ELSE Apply(result, SubSeq(all, n + 1, Len(all)))

-----------------------------------------------------------------------------
(* The program.  A string of its own is the first thing allocated, stays on    *)
(* the stack, and its address in a static variable that no collection updates. *)

Empty == [words |-> [w \in 0 .. HEAP_SIZE - 1 |-> Val_int(0)], hp |-> 0, stack |-> <<>>, over |-> "", moved |-> FALSE]
Constant == <<CHOOSE c \in Letters : TRUE>>
s_0 == Ptr(0)
Frame(r) == Push(r.m, <<r.v>> \o [i \in 1 .. SLOTS |-> Val_int(0)])
main == Frame(caml_copy_string(Empty, Constant))
Init == mem = main @@ [meant |-> [i \in 1 .. SLOTS |-> Val_int(0)], steps |-> 0]

Slot(i) == mem.stack[1 + i]
(* Nobody reads beyond hp what a step leaves there. *)
Assign(i, r, tree) ==
  /\ mem.over = "" /\ mem.steps < MAXSTEPS /\ tree # Stuck
  /\ mem' = [r.m EXCEPT !.stack = IF r.m.over = "" THEN [@ EXCEPT ![1 + i] = r.v] ELSE @, !.meant[i] = tree, !.steps = @ + 1,
                        !.words = [w \in DOMAIN @ |-> IF w < r.m.hp THEN @[w] ELSE Val_int(0)]]

Const(i) == Assign(i, Result(mem, Val_int(1)), Val_int(1))
Static(i) == Assign(i, Result(mem, s_0), <<"string", Constant>>)
String(i, c) == Assign(i, caml_copy_string(mem, <<c>>), <<"string", <<c>>>>)
Pair(i, j, k) == Assign(i, caml_alloc(mem, <<Slot(j), Slot(k)>>), <<"block", <<mem.meant[j], mem.meant[k]>>>>)
Concat(i, j, k) ==
  /\ mem.meant[j][1] = "string" /\ mem.meant[k][1] = "string" /\ Len(mem.meant[j][2] \o mem.meant[k][2]) <= MAXLEN
  /\ Assign(i, caml_string_concat(mem, Slot(j)[2], Slot(k)[2]), <<"string", mem.meant[j][2] \o mem.meant[k][2]>>)
Closure(i, fun) == Assign(i, caml_alloc_closure(mem, fun, Arity[fun], 0), <<"closure", fun, <<>>>>)
(* The solver is a closure that holds itself. *)
Knot(r) == IF r.m.over = "" THEN Result(add_arg(r.m, r.v[2], r.v), r.v) ELSE r
Recursive(i) == Assign(i, Knot(caml_alloc_closure(mem, "pair", 1, 1)), <<"closure", "pair", <<Self>>>>)
Call(i, j, given) ==
  /\ mem.meant[j][1] = "closure"
  /\ LET args == [n \in DOMAIN given |-> mem.meant[given[n]]]
     IN  /\ Apply(mem.meant[j], args) # Stuck
         /\ Assign(i, caml_call(mem, Slot(j)[2], [n \in DOMAIN given |-> Slot(given[n])]), Apply(mem.meant[j], args))

Next ==
  \E i \in 1 .. SLOTS :
    \/ Const(i) \/ Static(i) \/ Recursive(i)
    \/ \E c \in Letters : String(i, c)
    \/ \E fun \in DOMAIN Arity : Closure(i, fun)
    \/ \E j, k \in 1 .. SLOTS : Pair(i, j, k) \/ Concat(i, j, k) \/ Call(i, j, <<k>>) \/ Call(i, j, <<k, i>>)
Spec == Init /\ [][Next]_mem

-----------------------------------------------------------------------------
(* Whatever was allocated, dropped, collected and moved, every slot of the     *)
(* frame and the static variable hold the value they are meant to hold; a      *)
(* concatenation whose strings a collection moved under it is left out.       *)
Survives ==
  mem.over = "" /\ ~mem.moved =>
    /\ \A i \in 1 .. SLOTS : Value(Slot(i)) = mem.meant[i]
    /\ Value(s_0) = <<"string", Constant>>
=============================================================================
