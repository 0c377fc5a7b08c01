------------------------------- MODULE Basic -------------------------------
(***************************************************************************)
(* c/basic/main.c: RUN compiles the stored lines one by one (stmt), with a    *)
(* stack of open blocks and jumps to patch, into code for a stack machine,    *)
(* and runs it.  A line is a syntax tree: reading tokens is left out, and so   *)
(* are names, of which the number is kept, and the wording of what is printed. *)
(* Addresses count from 0 as in prg; a cell is an opcode or an immediate.     *)
(***************************************************************************)
EXTENDS Integers, Sequences, SequencesExt, FiniteSetsExt, Bitwise

CONSTANTS Vars,         \* variables, numbers as find gives them
          Suites,       \* sets of programs: for each line, the statements to choose from
          STKSZ,
          MAXSTEPS      \* bound: instructions run

(* Block tokens, numbered as in the enum. *)
SUB == 20
WHILE == 25
FOR == 26
IF_ == 28
Block == [sub |-> SUB, while |-> WHILE, for |-> FOR, if |-> IF_]

Op(name) == <<[op |-> name, n |-> 0]>>
Imm(x)   == <<[op |-> "#", n |-> x]>>
inst(name, x) == Op(name) \o Imm(x)

VARIABLES
  prog, suite,          \* the lines, and what they are written with
  phase,                \* "compile", "run" or "halt"
  halt,                 \* how it ended: kind and line
  prg, lmap,            \* code, and the line of each cell
  cstk,                 \* compiler stack, top first
  mode, sub, cursub, temp, compile,
  value, mem,           \* variables, and the arrays of those that are DIMmed
  pc, stk, ret,         \* run-time state, stk top first
  out,                  \* what has been printed
  steps

compiler == <<prg, lmap, cstk, mode, sub, cursub, temp, compile>>
machine  == <<value, mem, pc, stk, ret, out, steps>>
vars == <<prog, suite, phase, halt, compiler, machine>>

Init ==
  /\ prog = <<>> /\ suite \in DOMAIN Suites
  /\ phase = "compile" /\ halt = <<"none", 0>>
  /\ prg = <<>> /\ lmap = <<>> /\ cstk = <<>>
  /\ mode = [v \in Vars |-> 0]
  /\ sub = [v \in Vars |-> [params |-> 0, locs |-> <<>>]]
  /\ cursub = 0 /\ temp = 0 /\ compile = 1
  /\ value = [v \in Vars |-> 0] /\ mem = [v \in Vars |-> <<>>] /\ pc = 0 /\ stk = <<>> /\ ret = 0
  /\ out = <<>> /\ steps = 0

cpc == Len(prg)
Top == IF cstk = <<>> THEN 0 ELSE Head(cstk)
-----------------------------------------------------------------------------
(* Expressions: base, factor, addition, relation *)

RECURSIVE Code(_)
Code(e) ==
  CASE e.k = "num"  -> inst("NUMBER", e.n)
    [] e.k = "var"  -> inst("LOAD", e.v)
    [] e.k = "neg"  -> inst("NUMBER", 0) \o Code(e.a) \o Op("SUBS")
    [] e.k = "bin"  -> Code(e.a) \o Code(e.b) \o Op(e.o)
    [] e.k = "at"   -> Code(e.i) \o inst("LOADI", e.v)
    [] e.k = "ubound" -> inst("UBOUND", e.v)
    [] e.k = "call" -> FlattenSeq([j \in DOMAIN e.args |-> Code(e.args[j])])
                       \o inst("CALL", e.v) \o Op("RV")

(* bad("BAD SUB/ARG COUNT") *)
CallOk(v, args) == mode[v] = 2 /\ Len(args) = sub[v].params
RECURSIVE ExprOk(_)
ExprOk(e) ==
  CASE e.k \in {"num", "var", "ubound"} -> TRUE
    [] e.k = "neg"  -> ExprOk(e.a)
    [] e.k = "bin"  -> ExprOk(e.a) /\ ExprOk(e.b)
    [] e.k = "at"   -> ExprOk(e.i) /\ mode[e.v] = 1
    [] e.k = "call" -> CallOk(e.v, e.args) /\ \A j \in DOMAIN e.args : ExprOk(e.args[j])

(* Statements that open and close nothing. *)
SimpleOk(s) ==
  CASE s.k \in {"print", "echo", "let"} -> ExprOk(s.e)
    [] s.k = "seti" -> ExprOk(s.i) /\ ExprOk(s.e)
    [] s.k = "dim"  -> ExprOk(s.e)
    [] s.k = "call" -> CallOk(s.v, s.args) /\ \A j \in DOMAIN s.args : ExprOk(s.args[j])
    [] s.k = "return" -> s.e # <<>> => ExprOk(s.e[1])
    [] OTHER -> TRUE

Simple(s) ==
  CASE s.k = "print" -> inst("NUMBER", 0) \o Code(s.e) \o inst("PRINT", 1)
    [] s.k = "echo"  -> Code(s.e) \o Op("ECHO")
    [] s.k = "let"   -> Code(s.e) \o inst("STORE", s.v)
    [] s.k = "seti"  -> Code(s.i) \o Code(s.e) \o inst("STOREI", s.v)
    [] s.k = "dim"   -> Code(s.e) \o inst("DIM", s.v)
    [] s.k = "call"  -> FlattenSeq([j \in DOMAIN s.args |-> Code(s.args[j])]) \o inst("CALL", s.v)
    [] s.k = "return" -> (IF temp = 0 THEN <<>> ELSE inst("DROP", temp))
                         \o (IF s.e = <<>> THEN <<>> ELSE Code(s.e[1]) \o Op("SETRET"))
                         \o inst("RETURN", cursub)
    [] s.k = "break" -> Op("BREAK")
    [] s.k = "bye"   -> Op("BYE")

-----------------------------------------------------------------------------
(* stmt, one action per statement that touches the compiler stack.  The line   *)
(* is chosen when it is compiled.                                            *)

lnum == Len(prog) + 1
Line(kind, s) ==
  /\ phase = "compile" /\ s.k \in kind
  /\ prog' = Append(prog, s)
  /\ UNCHANGED <<suite, mem, pc, stk, ret, out, steps>>

Emit(code) ==
  /\ prg' = prg \o code
  /\ lmap' = lmap \o [i \in 1 .. Len(code) |-> lnum]

Bad == /\ phase' = "halt" /\ halt' = <<"bad", lnum>>
       /\ UNCHANGED <<compiler, value>>
Good == UNCHANGED <<phase, halt>>

(* prg with addresses patched. *)
Patch(code, addrs, x) == [i \in DOMAIN code |-> IF i - 1 \in addrs THEN Imm(x)[1] ELSE code[i]]

(* IF e THEN s: the jump is patched at once. *)
StmtSimple(s) ==
  /\ Line({"print", "echo", "let", "seti", "dim", "call", "return", "break", "bye"}, s)
  /\ IF ~SimpleOk(s) THEN Bad
     ELSE /\ Good /\ Emit(Simple(s))
          /\ mode' = IF s.k = "dim" THEN [mode EXCEPT ![s.v] = 1] ELSE mode
          /\ UNCHANGED <<cstk, sub, cursub, temp, compile, value>>

StmtIfThen(s) ==
  /\ Line({"ifthen"}, s)
  /\ IF ~(ExprOk(s.e) /\ SimpleOk(s.s)) THEN Bad
     ELSE LET test == Code(s.e) \o Op("FALSE")
          IN  /\ Good
              /\ Emit(test \o Imm(cpc + Len(test) + 1 + Len(Simple(s.s))) \o Simple(s.s))
              /\ mode' = IF s.s.k = "dim" THEN [mode EXCEPT ![s.s.v] = 1] ELSE mode
              /\ UNCHANGED <<cstk, sub, cursub, temp, compile, value>>

StmtSub(s) ==
  /\ Line({"sub"}, s) /\ Good
  /\ Emit(inst("JMP", 0))
  /\ compile' = compile + 1
  /\ mode' = [mode EXCEPT ![s.v] = 2] /\ cursub' = s.v
  /\ sub' = [sub EXCEPT ![s.v] = [params |-> Len(s.ps), locs |-> s.ps]]
  /\ value' = [value EXCEPT ![s.v] = cpc + 2]
  /\ cstk' = <<SUB, s.v, cpc + 1>> \o cstk
  /\ UNCHANGED temp

StmtLocal(s) ==
  /\ Line({"local"}, s) /\ Good
  /\ sub' = [sub EXCEPT ![cursub].locs = @ \o s.vs]
  /\ UNCHANGED <<prg, lmap, cstk, mode, cursub, temp, compile, value>>

StmtWhile(s) ==
  /\ Line({"while"}, s)
  /\ IF ~ExprOk(s.e) THEN Bad
     ELSE /\ Good /\ Emit(Code(s.e) \o inst("FALSE", 0))
          /\ compile' = compile + 1
          /\ cstk' = <<WHILE, cpc + Len(Code(s.e)) + 1, cpc>> \o cstk
          /\ UNCHANGED <<mode, sub, cursub, temp, value>>

StmtFor(s) ==
  /\ Line({"for"}, s)
  /\ IF ~(ExprOk(s.a) /\ ExprOk(s.b)) THEN Bad
     ELSE LET start == Code(s.a) \o inst("STORE", s.v) \o Code(s.b)
          IN  /\ Good /\ Emit(start \o inst("FOR", s.v) \o Imm(0))
              /\ compile' = compile + 1 /\ temp' = temp + 1
              /\ cstk' = <<FOR, cpc + Len(start) + 2, s.v, cpc + Len(start)>> \o cstk
              /\ UNCHANGED <<mode, sub, cursub, value>>

StmtIf(s) ==
  /\ Line({"if"}, s)
  /\ IF ~ExprOk(s.e) THEN Bad
     ELSE /\ Good /\ Emit(Code(s.e) \o inst("FALSE", 0))
          /\ compile' = compile + 1
          /\ cstk' = <<IF_, 0, cpc + Len(Code(s.e)) + 1>> \o cstk
          /\ UNCHANGED <<mode, sub, cursub, temp, value>>

(* ELSE and ELSE IF: a jump over it joins the ends to patch, and the test     *)
(* before it goes here.                                                      *)
Otherwise(test) ==
  IF Top # IF_ THEN Bad
  ELSE LET n == cstk[2] + 1
           ends == <<cpc + 1>> \o SubSeq(cstk, 3, n + 1)
           open == IF test = <<>> THEN 0 ELSE cpc + 2 + Len(test) + 1
           code == Patch(prg, {cstk[n + 2]}, cpc + 2)
       IN  /\ Good
           /\ prg' = code \o inst("JMP", 0) \o (IF test = <<>> THEN <<>> ELSE test \o inst("FALSE", 0))
           /\ lmap' = lmap \o [i \in 1 .. Len(prg') - cpc |-> lnum]
           /\ cstk' = <<IF_, n>> \o ends \o <<open>> \o SubSeq(cstk, n + 3, Len(cstk))
           /\ UNCHANGED <<mode, sub, cursub, temp, compile, value>>
StmtElse(s) == Line({"else"}, s) /\ Otherwise(<<>>)
StmtElseIf(s) == Line({"elseif"}, s) /\ (IF ExprOk(s.e) THEN Otherwise(Code(s.e)) ELSE Bad)

Close(s, block) == Line({"end"}, s) /\ Top = block /\ Block[s.b] = block
                   /\ Good /\ compile' = compile - 1 /\ UNCHANGED <<mode, sub, cursub, value>>
Pop(n) == cstk' = SubSeq(cstk, n + 1, Len(cstk))

EndUnmatched(s) ==
  Line({"end"}, s) /\ Top # Block[s.b] /\ Bad

EndSub(s) ==
  /\ Close(s, SUB) /\ Pop(3)
  /\ prg' = Patch(prg, {cstk[3]}, cpc + 2) \o inst("RETURN", cstk[2])
  /\ lmap' = lmap \o <<lnum, lnum>> /\ UNCHANGED temp

EndWhile(s) ==
  /\ Close(s, WHILE) /\ Pop(3)
  /\ prg' = Patch(prg, {cstk[2]}, cpc + 2) \o inst("JMP", cstk[3])
  /\ lmap' = lmap \o <<lnum, lnum>> /\ UNCHANGED temp

EndFor(s) ==
  /\ Close(s, FOR) /\ Pop(4)
  /\ prg' = Patch(prg, {cstk[2]}, cpc + 4) \o inst("NEXT", cstk[3]) \o inst("JMP", cstk[4])
  /\ lmap' = lmap \o <<lnum, lnum, lnum, lnum>> /\ temp' = temp - 1

(* Mutant: only the last of the jumps over later branches is patched. *)
EndIf_OneEnd(s) ==
  /\ Close(s, IF_) /\ Pop(cstk[2] + 3)
  /\ prg' = Patch(prg, {cstk[i] : i \in 3 .. (IF cstk[2] = 0 THEN 2 ELSE 3)}
                       \cup ({cstk[cstk[2] + 3]} \ {0}), cpc)
  /\ UNCHANGED <<lmap, temp>>

EndIf(s) ==
  /\ Close(s, IF_) /\ Pop(cstk[2] + 3)
  /\ prg' = Patch(prg, {cstk[i] : i \in 3 .. cstk[2] + 2} \cup ({cstk[cstk[2] + 3]} \ {0}), cpc)
  /\ UNCHANGED <<lmap, temp>>

StmtEnd(s) == EndUnmatched(s) \/ EndSub(s) \/ EndWhile(s) \/ EndFor(s) \/ EndIf(s)

(* Mutant: blocks are not counted. *)
StartRun_Unclosed ==
  /\ phase = "compile" /\ prog # <<>>
  /\ phase' = "run" /\ halt' = halt
  /\ prg' = prg \o Op("BYE") /\ lmap' = Append(lmap, Len(prog))
  /\ UNCHANGED <<prog, suite, cstk, mode, sub, cursub, temp, compile, machine>>

(* The end of the program: every block closed, or an error of the last line.  *)
StartRun ==
  /\ phase = "compile" /\ prog # <<>>
  /\ IF compile # 1 THEN phase' = "halt" /\ halt' = <<"bad", Len(prog)>> /\ UNCHANGED <<prg, lmap>>
     ELSE /\ phase' = "run" /\ halt' = halt
          /\ prg' = prg \o Op("BYE") /\ lmap' = Append(lmap, Len(prog))
  /\ UNCHANGED <<prog, suite, cstk, mode, sub, cursub, temp, compile, machine>>

Stmt(s) == StmtSimple(s) \/ StmtIfThen(s) \/ StmtSub(s) \/ StmtLocal(s) \/ StmtWhile(s)
           \/ StmtFor(s) \/ StmtIf(s) \/ StmtElse(s) \/ StmtElseIf(s) \/ StmtEnd(s)
-----------------------------------------------------------------------------
(* The machine *)

Fetch(ops) == /\ phase = "run" /\ steps < MAXSTEPS /\ steps' = steps + 1
              /\ prg[pc + 1].op \in ops
              /\ prg[pc + 1].op \notin {"DIM", "STOREI"} => UNCHANGED mem
              /\ UNCHANGED <<prog, suite, compiler>>
Arg == prg[pc + 2].n
err(kind) == phase' = "halt" /\ halt' = <<kind, lmap[pc + 1]>> /\ UNCHANGED <<value, pc, stk, ret, out>>
Goes(to) == pc' = to /\ UNCHANGED <<phase, halt>>
Set(v, x) == value' = [value EXCEPT ![v] = x]
Drop(n) == SubSeq(stk, n + 1, Len(stk))

PushOp ==
  /\ Fetch({"NUMBER", "LOAD"})
  /\ IF Len(stk) >= STKSZ THEN err("overflow")
     ELSE /\ stk' = <<IF prg[pc + 1].op = "NUMBER" THEN Arg ELSE value[Arg]>> \o stk
          /\ Goes(pc + 2) /\ UNCHANGED <<value, ret, out>>
STORE_ == Fetch({"STORE"}) /\ Set(Arg, stk[1]) /\ stk' = Drop(1) /\ Goes(pc + 2) /\ UNCHANGED <<ret, out>>
PRINT_ == /\ Fetch({"PRINT"})
          /\ out' = Append(out, stk[1]) /\ stk' = Drop(Arg + 1)
          /\ Goes(pc + 2) /\ UNCHANGED <<value, ret>>
ECHO_ == /\ Fetch({"ECHO"})
         /\ out' = Append(out, stk[1]) /\ stk' = Drop(1)
         /\ Goes(pc + 1) /\ UNCHANGED <<value, ret>>

Sign(x) == IF x < 0 THEN -1 ELSE 1
Quotient(a, b) == Sign(a) * Sign(b) * ((a * Sign(a)) \div (b * Sign(b)))
Truth(p) == IF p THEN -1 ELSE 0
(* Numbers stay below 2^15 here. *)
Bits(x) == x % 65536
Number(b) == IF b >= 32768 THEN b - 65536 ELSE b
Result(o, a, b) ==
  CASE o = "ADD"  -> a + b
    [] o = "SUBS" -> a - b
    [] o = "MUL"  -> a * b
    [] o = "DIV"  -> Quotient(a, b)
    [] o = "MOD"  -> a - b * Quotient(a, b)
    [] o = "EQ"   -> Truth(a = b)
    [] o = "LT"   -> Truth(a < b)
    [] o = "GT"   -> Truth(a > b)
    [] o = "NE"   -> Truth(a # b)
    [] o = "LE"   -> Truth(a <= b)
    [] o = "GE"   -> Truth(a >= b)
    [] o = "AND"  -> Number(Bits(a) & Bits(b))
    [] o = "OR"   -> Number(Bits(a) | Bits(b))
Operators == {"ADD", "SUBS", "MUL", "DIV", "MOD", "EQ", "LT", "GT", "NE", "LE", "GE", "AND", "OR"}
BinaryOp ==
  /\ Fetch(Operators)
  /\ IF prg[pc + 1].op \in {"DIV", "MOD"} /\ stk[1] = 0 THEN err("err")
     ELSE /\ stk' = <<Result(prg[pc + 1].op, stk[2], stk[1])>> \o Drop(2)
          /\ Goes(pc + 1) /\ UNCHANGED <<value, ret, out>>

JMP_ == Fetch({"JMP"}) /\ Goes(Arg) /\ UNCHANGED <<value, stk, ret, out>>
FALSE_ == /\ Fetch({"FALSE"}) /\ stk' = Drop(1)
          /\ Goes(IF stk[1] # 0 THEN pc + 2 ELSE Arg) /\ UNCHANGED <<value, ret, out>>
(* Mutant: the limit of a loop that ends stays on the stack. *)
FOR_NoPop == /\ Fetch({"FOR"})
             /\ stk' = stk /\ Goes(IF value[Arg] >= stk[1] THEN prg[pc + 3].n ELSE pc + 3)
             /\ UNCHANGED <<value, ret, out>>

FOR_ == /\ Fetch({"FOR"})
        /\ IF value[Arg] >= stk[1] THEN stk' = Drop(1) /\ Goes(prg[pc + 3].n)
           ELSE stk' = stk /\ Goes(pc + 3)
        /\ UNCHANGED <<value, ret, out>>
NEXT_ == Fetch({"NEXT"}) /\ Set(Arg, value[Arg] + 1) /\ Goes(pc + 2) /\ UNCHANGED <<stk, ret, out>>

(* Arguments and parameters change places; the other locals and the return    *)
(* address go on top.                                                        *)
CALL_ ==
  /\ Fetch({"CALL"})
  /\ LET locs == sub[Arg].locs
         n    == sub[Arg].params
         Slot(v) == CHOOSE j \in 1 .. n : locs[j] = v
     IN  /\ value' = [v \in Vars |-> IF \E j \in 1 .. n : locs[j] = v
                                     THEN stk[n + 1 - Slot(v)] ELSE value[v]]
         /\ stk' = <<pc + 2>> \o [j \in 1 .. Len(locs) - n |-> value'[locs[Len(locs) + 1 - j]]]
                   \o [j \in 1 .. n |-> value[locs[n + 1 - j]]] \o Drop(n)
         /\ Goes(value[Arg])
  /\ UNCHANGED <<ret, out>>

RETURN_ ==
  /\ Fetch({"RETURN"})
  /\ LET locs == sub[Arg].locs
     IN  /\ value' = [v \in Vars |-> IF \E j \in DOMAIN locs : locs[j] = v
                                     THEN stk[Len(locs) + 2 - (CHOOSE j \in DOMAIN locs : locs[j] = v)]
                                     ELSE value[v]]
         /\ stk' = Drop(Len(locs) + 1)
  /\ Goes(stk[1]) /\ UNCHANGED <<ret, out>>

SETRET_ == Fetch({"SETRET"}) /\ ret' = stk[1] /\ stk' = Drop(1) /\ Goes(pc + 1) /\ UNCHANGED <<value, out>>
RV_ == Fetch({"RV"}) /\ stk' = <<ret>> \o stk /\ Goes(pc + 1) /\ UNCHANGED <<value, ret, out>>
DROP_ == Fetch({"DROP"}) /\ stk' = Drop(Arg) /\ Goes(pc + 2) /\ UNCHANGED <<value, ret, out>>

(* Arrays; memory does not run out. *)
Bound(v, i) == i \in 1 .. Len(mem[v])
DIM_ == /\ Fetch({"DIM"})
        /\ IF stk[1] < 1 THEN err("err") /\ UNCHANGED mem
           ELSE /\ mem' = [mem EXCEPT ![Arg] = [i \in 1 .. stk[1] |-> 0]]
                /\ stk' = Drop(1) /\ Goes(pc + 2) /\ UNCHANGED <<value, ret, out>>
LOADI_ == /\ Fetch({"LOADI"})
          /\ IF ~Bound(Arg, stk[1]) THEN err("err")
             ELSE /\ stk' = <<mem[Arg][stk[1]]>> \o Drop(1)
                  /\ Goes(pc + 2) /\ UNCHANGED <<value, ret, out>>

UBOUND_ == /\ Fetch({"UBOUND"})
           /\ IF mem[Arg] = <<>> THEN err("err")
              ELSE IF Len(stk) >= STKSZ THEN err("overflow")
              ELSE /\ stk' = <<Len(mem[Arg])>> \o stk
                   /\ Goes(pc + 2) /\ UNCHANGED <<value, ret, out>>
STOREI_ == /\ Fetch({"STOREI"})
           /\ IF ~Bound(Arg, stk[2]) THEN err("err") /\ UNCHANGED mem
              ELSE /\ mem' = [mem EXCEPT ![Arg][stk[2]] = stk[1]] /\ stk' = Drop(2)
                   /\ Goes(pc + 2) /\ UNCHANGED <<value, ret, out>>
Stop == /\ Fetch({"BYE", "BREAK"})
        /\ phase' = "halt" /\ halt' = <<prg[pc + 1].op, lmap[pc + 1]>>
        /\ UNCHANGED <<value, pc, stk, ret, out>>

Step == PushOp \/ STORE_ \/ PRINT_ \/ ECHO_ \/ UBOUND_ \/ BinaryOp \/ JMP_ \/ FALSE_ \/ FOR_ \/ NEXT_ \/ CALL_ \/ RETURN_
        \/ SETRET_ \/ RV_ \/ DROP_ \/ DIM_ \/ LOADI_ \/ STOREI_ \/ Stop

NextLines == IF lnum > Len(Suites[suite]) THEN {} ELSE Suites[suite][lnum]
Next == (\E s \in NextLines : Stmt(s)) \/ StartRun \/ Step
Spec == Init /\ [][Next]_vars

=============================================================================
