--------------------------- MODULE BasicPrograms ---------------------------
(***************************************************************************)
(* The BASIC programs that are run: suites, for each line of a program the     *)
(* statements it is chosen from.                                            *)
(***************************************************************************)
EXTENDS Naturals, Sequences

ProgramVars == 1 .. 4
x == 1
y == 2
f == 3
a == 4
Lit(n) == [k |-> "num", n |-> n]
V(v) == [k |-> "var", v |-> v]
B(o, l, r) == [k |-> "bin", o |-> o, a |-> l, b |-> r]
Fn(args) == [k |-> "call", v |-> f, args |-> args]
At(i) == [k |-> "at", v |-> a, i |-> i]
Show(e) == [k |-> "print", e |-> e]
Echo(e) == [k |-> "echo", e |-> e]
Ubound == [k |-> "ubound", v |-> a]
Let(v, e) == [k |-> "let", v |-> v, e |-> e]
If(e) == [k |-> "if", e |-> e]
Then(e, s) == [k |-> "ifthen", e |-> e, s |-> s]
ElseIf(e) == [k |-> "elseif", e |-> e]
Else == [k |-> "else"]
End(b) == [k |-> "end", b |-> b]
WhileB(e) == [k |-> "while", e |-> e]
ForB(v, l, h) == [k |-> "for", v |-> v, a |-> l, b |-> h]
Sub(ps) == [k |-> "sub", v |-> f, ps |-> ps]
Local(vs) == [k |-> "local", vs |-> vs]
Return(e) == [k |-> "return", e |-> e]
CallF(args) == [k |-> "call", v |-> f, args |-> args]
Dim(e) == [k |-> "dim", v |-> a, e |-> e]
SetA(i, e) == [k |-> "seti", v |-> a, i |-> i, e |-> e]


One == Lit(1)
Is(v, n) == B("EQ", V(v), Lit(n))
Below(v, n) == B("LT", V(v), Lit(n))
Inc(v) == Let(v, B("ADD", V(v), One))
Start012 == {Let(x, Lit(0)), Let(x, One), Let(x, Lit(2))}
Times(n, stmts) == [i \in 1 .. n |-> stmts]

(* Every program of branches, of loops, and of the two mixed, of some length. *)
Branches == <<Start012>> \o Times(7, {If(V(x)), ElseIf(Below(x, 2)), Else, End("if"), Show(V(x))})
Loops == <<Start012>> \o Times(5, {ForB(x, Lit(0), Lit(2)), ForB(y, V(x), Lit(2)), End("for"), Show(V(y)),
                                   WhileB(Below(x, 2)), End("while"), Inc(x)})
Mixed == <<{Let(x, Lit(0))}, {ForB(y, V(x), Lit(3)), WhileB(B("AND", B("LE", V(x), One), B("NE", V(y), One)))}>>
         \o Times(3, {If(Is(y, 1)), Then(Is(y, 2), Show(V(x))), Inc(x), Then(B("OR", B("GT", V(x), Lit(3)), B("GE", V(y), Lit(2))), [k |-> "bye"]),
                      [k |-> "break"], End("if")})
         \o <<{End("for"), End("while"), End("if")}, {End("for"), End("while")}>>

(* Recursion with locals, a call among the arguments of a call, and RETURN     *)
(* with and without a value from within loops.                               *)
Recursion == << {Let(y, Lit(5))}, {Sub(<<x>>)}, {Local(<<y>>), Show(V(y))}, {Let(y, V(x)), Inc(y)},
  {Then(Below(x, 1), Return(<<Lit(7)>>)), Then(Is(x, 0), Return(<<>>)), Inc(x)},
  {Return(<<B("ADD", V(y), Fn(<<B("SUBS", V(x), One)>>))>>), CallF(<<B("SUBS", V(x), One)>>)}, {End("sub")},
  {Show(Fn(<<Lit(2)>>)), Show(Fn(<<Fn(<<One>>)>>)), CallF(<<Lit(2)>>), CallF(<<>>)}, {Show(V(y)), Show(V(x))} >>
Escapes == << {Sub(<<y>>)}, {ForB(x, Lit(0), Lit(3)), WhileB(Below(x, 2))},
  {ForB(a, Lit(0), V(x)), If(Is(x, 1)), Local(<<x>>)},
  {Then(Is(x, 2), Return(<<V(a)>>)), Return(<<V(y)>>), Show(V(x))},
  {End("for"), End("if"), Inc(x)}, {Inc(x), Show(V(a))}, {End("for"), End("while")}, {End("sub"), Return(<<One>>)},
  {Show(B("SUBS", Fn(<<Lit(4)>>), [k |-> "neg", a |-> One])), End("sub")}, {Show(V(x))} >>
(* Errors, on any line and within a SUB. *)
Errors == << {Dim(Lit(2)), Dim(V(x)), Let(x, One)}, {SetA(V(x), Lit(8)), SetA(Lit(2), Lit(8)), Inc(x)},
  {ForB(x, Lit(0), Lit(4)), If(One), Sub(<<x>>)},
  {Show(At(V(x))), Show(B("DIV", Lit(6), V(x))), SetA(V(x), V(x)), Show(B("MOD", B("MUL", Lit(3), V(x)), Lit(2)))},
  {End("for"), End("if"), End("sub")}, {Echo(At(Ubound)), CallF(<<Lit(3)>>), Show(Fn(<<Lit(0)>>))} >>

ProgramSuites == <<Branches, Loops, Mixed, Recursion, Escapes, Errors>>
=============================================================================
