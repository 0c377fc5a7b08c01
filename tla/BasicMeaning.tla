---------------------------- MODULE BasicMeaning ----------------------------
(***************************************************************************)
(* What a BASIC program means: an interpreter that follows the lines and      *)
(* their nesting and has neither code nor addresses nor a stack, and the      *)
(* properties that hold the compiler and the machine of Basic to it.          *)
(***************************************************************************)
EXTENDS Basic

CONSTANT FUEL           \* bound: lines the interpreter follows

Opens(s) == s.k \in {"if", "while", "for", "sub"}

(* Nested right, an IF with at most one ELSE, its last branch. *)
RECURSIVE Nested(_, _)
Nested(lines, open) ==
  IF lines = <<>> THEN open = <<>>
  ELSE LET s == Head(lines)
           Within(block, now) == /\ open # <<>> /\ Head(open) \in block
                                 /\ Nested(Tail(lines), now \o Tail(open))
       IN  CASE Opens(s) -> Nested(Tail(lines), <<s.k>> \o open)
             [] s.k = "end" -> Within({s.b} \cup (IF s.b = "if" THEN {"else"} ELSE {}), <<>>)
             [] s.k = "elseif" -> Within({"if"}, <<"if">>)
             [] s.k = "else" -> Within({"if"}, <<"else">>)
             [] OTHER -> Nested(Tail(lines), open)

(* The line at or after i where the innermost branch or block around i ends.  *)
RECURSIVE Branch(_, _)
Branch(i, depth) ==
  IF depth = 0 /\ prog[i].k \in {"else", "elseif", "end"} THEN i
  ELSE Branch(i + 1, depth + (IF Opens(prog[i]) THEN 1 ELSE IF prog[i].k = "end" THEN -1 ELSE 0))
RECURSIVE EndOf(_)
EndOf(i) == IF prog[Branch(i, 0)].k = "end" THEN Branch(i, 0) ELSE EndOf(Branch(i, 0) + 1)

(* The interpreter's state: the variables, the value last returned, the       *)
(* output, and why and on which line it has stopped.                         *)
Start == [env |-> [v \in Vars |-> 0], mem |-> [v \in Vars |-> <<>>], ret |-> 0,
          out |-> <<>>, stop |-> "run", line |-> 0, fuel |-> FUEL]
Stops(s, kind, i) == [s EXCEPT !.stop = kind, !.line = i]
Running(s) == s.stop = "run"
Burn(s, i) == IF s.fuel = 0 THEN Stops(s, "fuel", i) ELSE [s EXCEPT !.fuel = @ - 1]
InBounds(s, v, i) == i \in 1 .. Len(s.mem[v])

(* Values with the state after them: what an operator, an element and a call    *)
(* make of those of their parts.                                             *)
Combined(o, x, i) ==
  IF ~Running(x.s) THEN x
  ELSE IF o \in {"DIV", "MOD"} /\ x.v[2] = 0 THEN [v |-> 0, s |-> Stops(x.s, "err", i)]
  ELSE [v |-> Result(o, x.v[1], x.v[2]), s |-> x.s]
Element(v, x, i) ==
  IF ~Running(x.s) THEN x
  ELSE IF InBounds(x.s, v, x.v) THEN [x EXCEPT !.v = x.s.mem[v][x.v]]
  ELSE [v |-> 0, s |-> Stops(x.s, "err", i)]
Returned(s) == [v |-> s.ret, s |-> s]
Before(x, rest) == [v |-> <<x.v>> \o rest.v, s |-> rest.s]

RECURSIVE Eval(_, _, _), Args(_, _, _), Call(_, _, _), Do(_, _, _), Exec(_, _, _), While(_, _), For(_, _, _)

(* The value of e on line i, and the state after it. *)
Eval(e, s, i) ==
  CASE ~Running(s)   -> [v |-> 0, s |-> s]
    [] e.k = "num"   -> [v |-> e.n, s |-> s]
    [] e.k = "var"   -> [v |-> s.env[e.v], s |-> s]
    [] e.k = "neg"   -> [Eval(e.a, s, i) EXCEPT !.v = -@]
    [] e.k = "bin"   -> Combined(e.o, Args(<<e.a, e.b>>, s, i), i)
    [] e.k = "at"    -> Element(e.v, Eval(e.i, s, i), i)
    [] e.k = "ubound" -> IF s.mem[e.v] = <<>> THEN [v |-> 0, s |-> Stops(s, "err", i)]
                         ELSE [v |-> Len(s.mem[e.v]), s |-> s]
    [] e.k = "call"  -> Returned(Call(e.v, Args(e.args, s, i), i))

Further(x, es, i) == Before(x, Args(es, x.s, i))
Args(es, s, i) ==
  IF es = <<>> THEN [v |-> <<>>, s |-> s] ELSE Further(Eval(Head(es), s, i), Tail(es), i)

(* Parameters and locals are variables of the caller, who gets them back.     *)
Restored(s, before, saved) ==
  IF s.stop \notin {"run", "return"} THEN s
  ELSE [s EXCEPT !.stop = "run", !.env = [x \in Vars |-> IF x \in saved THEN before[x] ELSE @[x]]]
Within(i, end, x, line) ==
  LET ps == prog[i].ps
      saved == ToSet(ps) \cup UNION {ToSet(prog[j].vs) : j \in {j \in i + 1 .. end : prog[j].k = "local"}}
      inside == [y \in Vars |-> IF y \in ToSet(ps)
                                THEN x.v[CHOOSE j \in DOMAIN ps : ps[j] = y] ELSE x.s.env[y]]
  IN  Restored(Exec(i + 1, end, Burn([x.s EXCEPT !.env = inside], line)), x.s.env, saved)
Body(i, x, line) == Within(i, EndOf(i + 1), x, line)
Call(v, x, line) ==
  IF ~Running(x.s) THEN x.s ELSE Body(CHOOSE i \in DOMAIN prog : prog[i].k = "sub" /\ prog[i].v = v, x, line)

(* A line that opens no block, and the values of its expressions. *)
Values(l) ==
  CASE l.k \in {"print", "echo", "let", "dim", "ifthen"} -> <<l.e>>
    [] l.k = "call"   -> l.args
    [] l.k = "seti"   -> <<l.i, l.e>>
    [] l.k = "return" -> l.e
    [] OTHER -> <<>>
Effect(l, x, t, i) ==
  CASE ~Running(t) -> t
    [] l.k \in {"print", "echo"} -> [t EXCEPT !.out = Append(@, x.v[1])]
    [] l.k = "let"   -> [t EXCEPT !.env[l.v] = x.v[1]]
    [] l.k = "call"  -> Call(l.v, x, i)
    [] l.k = "dim"   -> IF x.v[1] < 1 THEN Stops(t, "err", i)
                        ELSE [t EXCEPT !.mem[l.v] = [m \in 1 .. x.v[1] |-> 0]]
    [] l.k = "seti"  -> IF InBounds(t, l.v, x.v[1]) THEN [t EXCEPT !.mem[l.v][x.v[1]] = x.v[2]]
                        ELSE Stops(t, "err", i)
    [] l.k = "return" -> [Stops(t, "return", i) EXCEPT !.ret = IF l.e = <<>> THEN @ ELSE x.v[1]]
    [] l.k = "break"  -> Stops(t, "BREAK", i)
    [] l.k = "bye"    -> Stops(t, "BYE", i)
    [] l.k = "ifthen" -> IF x.v[1] = 0 THEN t ELSE Do(l.s, t, i)
    [] OTHER -> t
Done(l, x, i) == Effect(l, x, x.s, i)
Do(l, s, i) == Done(l, Args(Values(l), s, i), i)

(* Lines i to j - 1: a line, or a whole block, or a branch of one. *)
Limited(i, x) == Eval(prog[i].b, IF Running(x.s) THEN [x.s EXCEPT !.env[prog[i].v] = x.v] ELSE x.s, i)
Loop(i, x) == For(i, x.v, x.s)
Choice(i, j, next, x) ==
  IF x.v # 0 THEN Exec(EndOf(i + 1) + 1, j, Exec(i + 1, next, x.s))
  ELSE Exec(IF prog[next].k = "elseif" THEN next ELSE next + 1, j, x.s)
Statement(l, i, j, s) ==
  CASE l.k = "while" -> Exec(EndOf(i + 1) + 1, j, While(i, s))
    [] l.k = "for" -> Exec(EndOf(i + 1) + 1, j, Loop(i, Limited(i, Eval(l.a, s, i))))
    [] l.k = "sub" -> Exec(EndOf(i + 1) + 1, j, s)
    [] l.k \in {"if", "elseif"} -> Choice(i, j, Branch(i + 1, 0), Eval(l.e, s, i))
    [] OTHER -> Exec(i + 1, j, Do(l, s, i))
Exec(i, j, s) == IF i >= j \/ ~Running(s) THEN s ELSE Statement(prog[i], i, j, Burn(s, i))

Again(i, x) == IF ~Running(x.s) \/ x.v = 0 THEN x.s ELSE While(i, Exec(i + 1, EndOf(i + 1), x.s))
While(i, s) == Again(i, Eval(prog[i].e, Burn(s, i), i))
(* The limit is not reached: FOR I=0 TO 101 counts from 0 to 100.             *)
Counted(i, hi, s) == For(i, hi, IF Running(s) THEN [s EXCEPT !.env[prog[i].v] = @ + 1] ELSE s)
For(i, hi, s) ==
  IF ~Running(s) \/ s.env[prog[i].v] >= hi THEN s ELSE Counted(i, hi, Exec(i + 1, EndOf(i + 1), Burn(s, i)))

Ended(s) == IF Running(s) THEN Stops(s, "BYE", Len(prog)) ELSE s
Meaning == Ended(Exec(1, Len(prog) + 1, Start))

(* A RETURN needs a SUB around it, and a SUB stands outside all blocks.        *)
RECURSIVE Proper(_, _, _)
Proper(lines, depth, inSub) ==
  IF lines = <<>> THEN TRUE
  ELSE LET s == Head(lines)
       IN  /\ s.k \in {"return", "local"} => inSub
           /\ s.k = "ifthen" /\ s.s.k = "return" => inSub
           /\ s.k = "sub" => depth = 0
           /\ Proper(Tail(lines), depth + (IF Opens(s) THEN 1 ELSE IF s.k = "end" THEN -1 ELSE 0),
                     IF s.k = "sub" THEN TRUE ELSE IF s.k = "end" /\ s.b = "sub" THEN FALSE ELSE inSub)

-----------------------------------------------------------------------------
(* The meaning is worked out once, when the machine starts. *)
VARIABLE meaning
MeaningInit == Init /\ meaning = Start
MeaningNext ==
  /\ Next
  /\ meaning' = IF phase = "compile" /\ phase' = "run" /\ Nested(prog, <<>>) /\ Proper(prog, 0, FALSE)
                THEN Meaning ELSE meaning
MeaningSpec == MeaningInit /\ [][MeaningNext]_<<vars, meaning>>
Judged == meaning # Start

(* The machine prints what the lines say, value by value, through nested      *)
(* blocks, calls in expressions, recursion, and RETURN out of a loop; and it   *)
(* ends as they say, an error on the very line, unless its stack overflows     *)
(* (stmt, CALL_, RETURN_, lmap).                                             *)
Faithful ==
  Judged => /\ IsPrefix(out, meaning.out) \/ meaning.stop = "fuel"
            /\ phase = "halt" /\ meaning.stop # "fuel" /\ halt[1] # "overflow"
                 => out = meaning.out /\ halt = <<meaning.stop, meaning.line>>

(* A run that comes to the end of the program has taken back all that FOR,     *)
(* calls and expressions put on the stack, and every block its jumps' places. *)
Balanced ==
  Judged /\ phase = "halt" /\ halt = <<"BYE", Len(prog)>> /\ prog[Len(prog)].k # "bye"
    => stk = <<>> /\ cstk = <<>> /\ temp = 0

(* What is nested wrong is refused and never run, except that a second ELSE    *)
(* goes unnoticed (stmt, cmd_run: "UNMATCHED END", "UNCLOSED BLOCK").         *)
TwoElses == Cardinality({i \in DOMAIN prog : prog[i].k \in {"else", "elseif"}}) > 1
Refused == phase = "run" => Nested(prog, <<>>) \/ TwoElses
=============================================================================
