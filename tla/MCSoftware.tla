----------------------------- MODULE MCSoftware -----------------------------
(***************************************************************************)
(* The tapes: the programs a machine may be given, one at a time, on small    *)
(* data, and the tool that writes their instructions on the tape.             *)
(***************************************************************************)
EXTENDS Encoding, Games, BasicLines, TLC

CONSTANT Tapes      \* those that may be loaded

VARIABLES g_database, g_record_count, stmts, last   \* the database, which does not use app
sqlvars == <<g_database, g_record_count, stmts, last>>
Off == <<>>

VARIABLES prog, suite, phase, halt, prg, lmap, cstk, mode, sub, cursub, temp, compile,
          value, mem, pc, stk, ret, out, steps, meaning   \* what BASIC compiles and runs
runvars == <<prog, suite, phase, halt, prg, lmap, cstk, mode, sub, cursub, temp, compile,
             value, mem, pc, stk, ret, out, steps, meaning>>
basicvars == <<runvars, editor>>

-----------------------------------------------------------------------------
(* Instructions: every operation with the registers and immediates at the       *)
(* ends of their fields.                                                      *)
R == {0, 1, 10, 17, 30, 31}
ImmEnds == {-2048, -2047, -1024, -2, -1, 0, 1, 2, 1023, 2047}
Offsets == {-131072, -131071, -65536, -4096, -4, -2, -1, 0, 1, 2, 4, 4094, 65536, 131070, 131071}
Uppers == {0, 1, 2, 131071, 131072, 262143, 262144, 524287, 524288, 786432, 1048575}
MCInsn ==
  UNION {Insns(ROps \cup DivOps, R, R, R, {0}),
         Insns(IOps \cup LoadOps, R, R, {0}, ImmEnds),
         Insns(ShiftOps, R, R, {0}, {0, 1, 4, 15, 16, 28, 31}),
         Insns(StoreOps, {0}, R, R, ImmEnds),
         Insns(BranchOps, {0}, R, R, Offsets), Insns({"jal"}, R, {0}, {0}, Offsets),
         Insns(UpperOps, R, {0}, {0}, Uppers), Insns({"ecall"}, {0}, {0}, {0}, {0})}

(* A table of three rows and room for four; two statements. *)
Data == INSTANCE SqlMeaning WITH periodic_table <- <<>>, MAX_RECORDS <- 0, MAX_TOKENS <- 0, Statements <- {}, MAXSTMTS <- 0
MCTable == Data!SqlTable
MCStatements == Data!SqlStatements
Sql == INSTANCE SqlMeaning WITH periodic_table <- MCTable, MAX_RECORDS <- 4, MAX_TOKENS <- 20, Statements <- MCStatements, MAXSTMTS <- 2

(* BASIC: the two halves of the interpreter, each from the state in which main    *)
(* starts.  Lines that are run are chosen while they are compiled, so the       *)
(* editor's lines are texts of their own.                                    *)
Programs == INSTANCE BasicPrograms
MCVars == Programs!ProgramVars
MCSuites == Programs!ProgramSuites
Interp == INSTANCE BasicMeaning WITH Vars <- MCVars, Suites <- MCSuites, STKSZ <- 25, MAXSTEPS <- 120, FUEL <- 32
ASSUME EditorConstants == ConstantsOK
Edit == prog = <<>> /\ suite = 1 /\ EditorNext /\ UNCHANGED runvars
RunProgram == EditorInit /\ Interp!MeaningNext /\ UNCHANGED editor

(* A trail of two turns on which either everything happens or the mountains are *)
(* reached.                                                                  *)
MCPurchases ==
  {[oxen |-> 200, food |-> 30, ammo |-> a, clothing |-> 20, misc |-> IF a = 0 THEN 4 ELSE 19] : a \in {0, 4}}
  \cup {[oxen |-> 300, food |-> 100, ammo |-> 10, clothing |-> 30, misc |-> 250]}
Eventful == [riders : {FALSE}, event : 0 .. 14, level : 1 .. 3] \cup [riders : {TRUE}, event : {3}, level : {1}]
Quiet == [riders : {FALSE}, event : {11, 13}, level : {2}]
MCJourneys == {<<Eventful>>, <<Quiet, Quiet>>}

(* Two aces, a five and cards of ten. *)
MCShoe == <<0, 0, 4, 8, 9, 10, 11>>
Cards == INSTANCE Unijack WITH table <- app, Shoe <- MCShoe, CHIPS <- 25, Wagers <- {0, 10, 15}, MAXROUNDS <- 2

(* Two teams, two players with a number, one name twice. *)
MCRoster ==
  <<[name |-> "A", team |-> "X", j_num |-> 12, batting_avg |-> 250], [name |-> "B", team |-> "X", j_num |-> 12, batting_avg |-> 300],
    [name |-> "C", team |-> "X", j_num |-> 0, batting_avg |-> 300], [name |-> "A", team |-> "Y", j_num |-> 40, batting_avg |-> 1000]>>
MCTyped == [name : {"A", "B"}, team : {""}, j_num : {0}] \cup [name : {""}, team : {"X", "Y"}, j_num : {0, 12, 40}]

(* Nine squares, a ship of two and one of one. *)
MCPlacements == {<<0, 3>>, <<5, 3>>, <<4, 4>>, <<8, 8>>, <<1, 1>>}
MCLengths == <<2, 1>>

(* Room for a few blocks: collections and both ways of giving up. *)
MCArity == [pair |-> 2, first |-> 1]
Heap == INSTANCE CamlHeap WITH mem <- app, HEAP_SIZE <- 19, STACK_SIZE <- 12, SLOTS <- 2, Arity <- MCArity,
                               Letters <- {"a"}, MAXLEN <- 3, MAXSTEPS <- 4

(* Puzzles of four by four, with and without a solution. *)
MCLines == <<{<<1, 0, 3, 4>>, <<1, 2, 0, 0>>}, {<<3, 4, 1, 2>>, <<0, 4, 1, 0>>}, {<<2, 1, 4, 3>>, <<0, 1, 4, 0>>},
             {<<4, 3, 2, 1>>, <<4, 0, 2, 2>>}, {}>>

(* Four letters; positions in both cases, rejected ones too, and good and bad   *)
(* plugboards; a text longer than a line.                                     *)
Wired(s) == [i \in 0 .. 3 |-> s[i + 1]]
MCWirings == (0 :> Wired(<<2, 0, 3, 1>>)) @@ (1 :> Wired(<<1, 3, 2, 0>>)) @@ (2 :> Wired(<<3, 1, 0, 2>>)) @@ (3 :> Wired(<<2, 3, 0, 1>>))
MCNotches == (0 :> 1) @@ (1 :> 2) @@ (2 :> 3)
MCPositions == {<<>>, <<3, 1, 0>>, <<0, 2, 1>>, <<11, 9, 10>>, <<0, 0>>, <<0, 0, -7>>}
MCPlugboards == {<<>>, <<0, 2>>, <<8, 1, -7, -7, 3, 10>>, <<0, 1, 1, 2>>, <<0>>}
MCTexts == {<<>>, <<0, 9>>, <<1, -7, 3>>, <<2, 2, 3, 0>>}
Enigma == INSTANCE Unigma WITH state <- app, ALPHABET_SIZE <- 4, LOWER <- 8, SPACE <- -7, ROTOR_WIRINGS <- MCWirings,
                               NOTCH_POSITIONS_INIT <- MCNotches, LINE <- 5, Positions <- MCPositions,
                               Plugboards <- MCPlugboards, Texts <- MCTexts, MAXLINES <- 3

(* What this Enigma has written, some of it longer than a line of the cracker's, *)
(* with cribs that are in it and cribs that are not.                          *)
MCMessages ==
  [positions : {<<3, 1, 0>>, <<0, 2, 1>>, <<2, 3, 3>>},
   text : {<<0, 9, -7, 1, 3, 2>>, <<1, 1, 2, 0, 3>>, <<>>, <<0, 1, 2, 3, 0, 1, 2, 3, 2>>},
   crib : {<<>>, <<0, -7, 1, 1>>, <<9, 2, 8, 3>>, <<1, 3, 2>>}]
Crack == INSTANCE Bahlsen WITH cracker <- app, ALPHABET_SIZE <- 4, LOWER <- 8, SPACE <- -7, NEWLINE <- -9, R <- MCWirings,
                               N <- MCNotches, BUFFER <- 7, Messages <- MCMessages

(* Words of four of three letters, in order. *)
MCWords == <<<<0, 0, 0, 1>>, <<0, 0, 1, 1>>, <<0, 1, 0, 2>>, <<0, 1, 1, 2>>, <<1, 0, 0, 1>>, <<1, 1, 0, 0>>,
             <<1, 2, 1, 1>>, <<2, 0, 0, 1>>, <<2, 1, 2, 1>>>>
MCGuesses == {MCWords[i] : i \in DOMAIN MCWords}
             \cup {<<9, 8, 1, 8>>, <<0, 0, 1>>, <<0, 0, 1, 1, 1, 1, 1, 1>>, <<2, 2, 2, 2>>, <<0, 1, -3, 1>>}
Words == INSTANCE Wordle WITH game <- app, LETTERS <- 3, LENGTH <- 4, LOWER <- 8, GUESS <- 7, GUESSES <- 4,
                              all_words <- MCWords, sol_idx <- <<2, 5, 8, 9>>, Lines <- MCGuesses

-----------------------------------------------------------------------------
MCInit ==
  /\ tape \in Tapes
  /\ IF tape = "encoding" THEN Init
     ELSE insn = Off /\ stage = "off" /\ word1 = 0 /\ word2 = 0 /\ opcode = 0 /\ destOffset = 0 /\ src1Offset = 0 /\ decoded = Off
  /\ Interp!MeaningInit /\ EditorInit /\ (tape # "basic" => suite = 1)
  /\ IF tape = "sqlsteel" THEN Sql!Init ELSE g_database = Off /\ g_record_count = 0 /\ stmts = 0 /\ last = Off
  /\ CASE tape = "unijack"                -> Cards!Init
       [] tape = "camlheap"               -> Heap!Init
       [] tape = "unigma"                 -> Enigma!Init
       [] tape = "bahlsen"                -> Crack!Init
       [] tape = "wordle"                 -> Words!Init
       [] tape \in {"encoding", "sqlsteel", "basic"} -> app = Off
       [] OTHER                           -> GameInit

MCNext ==
  /\ UNCHANGED tape
  /\ \/ tape = "encoding" /\ Next /\ UNCHANGED <<app, sqlvars, basicvars>>
     \/ tape = "sqlsteel" /\ Sql!Next /\ UNCHANGED <<app, vars, basicvars>>
     \/ tape = "basic" /\ (Edit \/ RunProgram) /\ UNCHANGED <<app, vars, sqlvars>>
     \/ /\ UNCHANGED <<vars, sqlvars, basicvars>>
        /\ \/ GameNext
           \/ tape = "unijack" /\ Cards!Next
           \/ tape = "camlheap" /\ Heap!Next
           \/ tape = "unigma" /\ Enigma!Next
           \/ tape = "bahlsen" /\ Crack!Next
           \/ tape = "wordle" /\ Words!Next
MCSpec == MCInit /\ [][MCNext]_<<tape, app, vars, sqlvars, basicvars>>

-----------------------------------------------------------------------------
(* The properties of the programs, each of the tape it is about; what they say  *)
(* is written where they are defined.  ImplementsTable is BasicLines's.        *)

(* SELECT prints the rows asked for, in the order asked for (query.c). *)
Selected == tape = "sqlsteel" => Sql!Selected
(* INSERT, DELETE and UPDATE change the rows asked for and no others (query.c). *)
Applied == tape = "sqlsteel" => Sql!Applied
(* The decimals of a weight are stored (sqlsteel.c:37 and 39).               *)
ValuesKept == tape = "sqlsteel" => Sql!ValuesKept
(* BASIC programs do what their lines mean (stmt and the machine).           *)
Faithful == tape = "basic" => Interp!Faithful
(* The stack holds what the blocks and calls entered need (stmt, RETURN_).   *)
Balanced == tape = "basic" => Interp!Balanced
(* Only closed blocks are run (main, stmt).                                  *)
Refused == tape = "basic" => Interp!Refused
(* The chips won and lost are those the hands make due (unijack/main.c). *)
Fair == tape = "unijack" => Cards!Fair
(* main.c:280 of unijack: of a blackjack against other hands the blackjack wins. *)
DealerBlackjackWins == tape = "unijack" => Cards!DealerBlackjackWins
(* Values survive collections (ocaml-sudoku/main.c, the run-time system). *)
Survives == tape = "camlheap" => Heap!Survives
(* A machine set up alike reads what another wrote (unigma/main.c). *)
Reciprocal == tape = "unigma" => Enigma!Reciprocal
(* What the cracker finds reads the cipher (bahlsen/main.c). *)
Cracked == tape = "bahlsen" => Crack!Cracked
(* Words are told from others and marked by the rules (wordle/main.c). *)
Marked == tape = "wordle" => Words!Marked
=============================================================================
