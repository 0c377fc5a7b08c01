---------------------- MODULE RiscvEmuRefinementProofs ----------------------
(***************************************************************************)
(* The assembly emulator implements the reference emulator.                 *)
(*                                                                         *)
(* One lemma XMatch for every handler (or the handlers that share a path)   *)
(* says that its step is a step of Oracle!Next; before it come the values   *)
(* of the operators the handler is made of, as integers.  A register        *)
(* instruction ends in Result(v): v is written to the destination and the   *)
(* next instruction is fetched.  At the end of the module the steps are put *)
(* together with the initial states and the program, which never changes.   *)
(***************************************************************************)
EXTENDS RiscvEmuRefinement, RiscvEmuProofs

USE BYTEBITSAssumption

(* The instruction both emulators execute. *)
I == program[pc \div 2 + 1]

LEMMA OracleSizes ==
  /\ Oracle!BYTE = BYTE /\ Oracle!HALF = HALF /\ Oracle!WORD = WORD /\ Oracle!HIMOD = HIMOD
  /\ Oracle!XLEN = XLEN /\ Oracle!IMMBITS = IMMBITS /\ Oracle!Regs = Regs
  /\ Oracle!MODULUS = XMOD
<1>1. Oracle!BYTE = BYTE /\ Oracle!XLEN = XLEN /\ Oracle!IMMBITS = IMMBITS /\ Oracle!Regs = Regs
  BY Zenon DEF Oracle!BYTE, BYTE, Oracle!XLEN, XLEN, Oracle!IMMBITS, IMMBITS, Oracle!Regs, Regs
<1>2. Oracle!HALF = HALF
  BY <1>1, Zenon DEF Oracle!HALF, HALF
<1>3. Oracle!WORD = WORD /\ Oracle!HIMOD = HIMOD
  BY <1>2, Zenon DEF Oracle!WORD, WORD, Oracle!HIMOD, HIMOD
<1>4. Oracle!MODULUS = XMOD
  BY <1>1, Exponents, Zenon DEF Oracle!MODULUS
<1>5. QED  BY <1>1, <1>2, <1>3, <1>4, Zenon

LEMMA OracleMask ==
  ASSUME NEW v
  PROVE  Oracle!Mask(v) = v % XMOD
  BY OracleSizes DEF Oracle!Mask

LEMMA OracleSets ==
  /\ Oracle!ROps = ROps /\ Oracle!IOps = IOps /\ Oracle!ShiftOps = ShiftOps
  /\ Oracle!LoadOps = LoadOps /\ Oracle!StoreOps = StoreOps /\ Oracle!BranchOps = BranchOps
  BY DEF Oracle!ROps, ROps, Oracle!IOps, IOps, Oracle!ShiftOps, ShiftOps, Oracle!LoadOps,
         LoadOps, Oracle!StoreOps, StoreOps, Oracle!BranchOps, BranchOps

LEMMA OracleInsn ==
  ASSUME TypeOK
  PROVE  Oracle!Insn = I /\ I \in Instruction
<1>1. pc \in Int /\ 0 <= pc /\ pc % 2 = 0 /\ pc \div 2 < Len(program) /\ program \in Seq(Instruction)
  BY WordBound DEF TypeOK, InProgram
<1>2. (2 * pc) \div 4 = pc \div 2 /\ pc \div 2 + 1 \in 1 .. Len(program)
  BY <1>1
<1>3. QED  BY <1>1, <1>2 DEF Oracle!Insn, I

-----------------------------------------------------------------------------
(* Control: a fetch of word w is a fetch of byte address 2 * w. *)

LEMMA ProgramBound ==
  ASSUME TypeOK, Len(program) < HALF
  PROVE  /\ Len(program) \in Nat /\ pc \in Int /\ 0 <= pc /\ pc % 2 = 0 /\ pc + 2 <= 2 * Len(program)
         /\ 2 * Len(program) + 2 <= 2 * HALF
         /\ 2 * HALF + 2 * HALF = WORD /\ HALF \in Int /\ HALF >= 16
         /\ WORD <= XMOD /\ WORD \in Int /\ XMOD \in Int
<1>1. Len(program) \in Nat /\ pc \in Int /\ 0 <= pc /\ pc % 2 = 0 /\ pc \div 2 < Len(program)
  <2>1. program \in Seq(Instruction)
    BY DEF TypeOK
  <2>2. Len(program) \in Nat
    BY <2>1
  <2>3. QED  BY <2>2, WordBound DEF TypeOK, InProgram
<1>2. HALF \in Int /\ HALF >= 16 /\ WORD = 4 * HALF /\ XMOD = HIMOD * WORD /\ HIMOD \in Int
      /\ HIMOD > 1
  BY Sizes, Widths
<1>3. WORD <= XMOD /\ WORD \in Int /\ XMOD \in Int
  <2>1. (HIMOD - 1) * WORD >= 0 /\ (HIMOD - 1) * WORD = HIMOD * WORD - WORD /\ HIMOD * WORD \in Int
    BY <1>2, SMT
  <2>2. QED  BY <1>2, <2>1, SMT
<1>4. QED  BY <1>1, <1>2, <1>3

LEMMA GotoAt ==
  ASSUME TypeOK, Len(program) < HALF, status = "run",
         NEW w \in Int, NEW t \in Int, FetchAt(w), 0 <= w,
         \/ t % XMOD = 2 * w
         \/ 2 * Len(program) <= w /\ 4 * Len(program) <= t % XMOD
  PROVE  Oracle!Goto(t)
<1> DEFINE m == t % XMOD
           n == Len(program)
<1>1. n \in Nat
  BY ProgramBound
<1>2. m \in Int
  BY ProgramBound, RemainderRange
<1>3. InProgram(w) <=> w % 2 = 0 /\ w \div 2 < n
  BY DEF InProgram
<1>4. m = 2 * w \/ (2 * n <= w /\ 4 * n <= m)
  OBVIOUS
<1> HIDE DEF m, n
<1>5. InProgram(w) <=> m % 4 = 0 /\ m \div 4 < n
  BY <1>1, <1>2, <1>3, <1>4
<1>6. InProgram(w) => m = 2 * w
  BY <1>1, <1>2, <1>3, <1>4
<1>7. CASE InProgram(w)
  <2>1. pc' = w /\ status' = "run"
    BY <1>7 DEF FetchAt
  <2>2. 2 * pc' = m
    BY <1>6, <1>7, <2>1
  <2>3. QED  BY <1>5, <1>7, <2>1, <2>2, OracleMask DEF Oracle!Goto, m, n
<1>8. CASE ~InProgram(w)
  <2>1. pc' = pc /\ status' = "undefined"
    BY <1>8 DEF FetchAt
  <2>2. QED  BY <1>5, <1>8, <2>1, OracleMask DEF Oracle!Goto, m, n
<1>9. QED  BY <1>7, <1>8

LEMMA GotoNext ==
  ASSUME TypeOK, Len(program) < HALF, status = "run", NEXT_INSTRUCTION
  PROVE  Oracle!Goto(2 * pc + 4)
<1> DEFINE w == pc + 2
           t == 2 * pc + 4
           n == Len(program)
<1>0. /\ n \in Nat /\ pc \in Int /\ 0 <= pc /\ pc + 2 <= 2 * n /\ 2 * n + 2 <= 2 * HALF
      /\ 2 * HALF + 2 * HALF = WORD /\ HALF \in Int /\ HALF >= 16
      /\ WORD <= XMOD /\ WORD \in Int /\ XMOD \in Int
  BY ProgramBound, Zenon
<1> HIDE DEF n
<1>1. /\ w \in Int /\ t \in Int /\ 0 <= w /\ w < WORD - 1 /\ 0 <= t /\ t < XMOD /\ t = 2 * w
      /\ XMOD \in Int /\ XMOD > 0
  BY <1>0, SMT
<1>2. ADDAL(pc, 2) = w
  BY <1>1 DEF ADDAL
<1>3. FetchAt(w)
  BY <1>2, Zenon DEF NEXT_INSTRUCTION
<1>4. t % XMOD = t
  BY <1>1, ModSmall, Zenon
<1> HIDE DEF w, t
<1>5. Oracle!Goto(t)
  BY <1>1, <1>3, <1>4, GotoAt
<1>6. QED  BY <1>5 DEF t


(* What the reference emulator sees of the memory and of the output. *)
Bytes   == [a \in {2 * w : w \in DATA} \cup {2 * w + 1 : w \in DATA} |->
              (mem[a \div 2] \div BYTE^(a % 2)) % BYTE]
Printed == [k \in DOMAIN output |-> output[k][2]]
Values  == [r \in Regs |-> Full(reg[r])]

(* The effect every register instruction has there. *)
Result(v) ==
  /\ Oracle!Write(I.rd, v) /\ Oracle!Goto(2 * pc + 4)
  /\ program' = program /\ Bytes' = Bytes /\ input'[0] = input[0] /\ Printed' = Printed

LEMMA WriteMatch ==
  ASSUME TypeOK, NEW d \in Regs, NEW a, NEW v,
         \A r \in Regs : reg'[r] = IF r = 0 THEN reg[0] ELSE IF r = d THEN a ELSE reg[r],
         d # 0 => Full(a) = v % XMOD
  PROVE  Oracle!Write(d, v)
<1>1. Values' = [Values EXCEPT ![d] = IF d = 0 THEN @ ELSE v % XMOD]
  <2>1. ASSUME NEW r \in Regs
        PROVE  Full(reg'[r]) = IF r = d THEN IF d = 0 THEN Full(reg[d]) ELSE v % XMOD
                                        ELSE Full(reg[r])
    <3>1. CASE r = 0
      BY <3>1
    <3>2. CASE r # 0 /\ r = d
      BY <3>2
    <3>3. CASE r # 0 /\ r # d
      BY <3>3
    <3>4. QED  BY <3>1, <3>2, <3>3, Zenon
  <2>2. QED  BY <2>1, Zenon DEF Values
<1>2. QED  BY <1>1, OracleMask, Zenon DEF Oracle!Write, Values

LEMMA Unseen ==
  ASSUME mem' = mem, input' = input, output' = output
  PROVE  Bytes' = Bytes /\ input'[0] = input[0] /\ Printed' = Printed
  BY Zenon DEF Bytes, Printed

LEMMA ResultOfStore ==
  ASSUME TypeOK, Len(program) < HALF, status = "run", Insn.dest = I.rd,
         NEW a \in Int \X Word, NEW v \in Int, STORE_RESULT(a), Full(a) % XMOD = v % XMOD
  PROVE  Result(v)
<1>1. I.rd \in Regs
  BY InsnOK DEF InsnType
<1>2. Oracle!Write(I.rd, v)
  <2> DEFINE b == <<a[1] % HIMOD, a[2]>>
  <2>1. Full(b) = v % XMOD
    BY FullOfMask
  <2>2. reg' = IF I.rd = 0 THEN reg ELSE [reg EXCEPT ![I.rd] = b]
    BY DEF STORE_RESULT
  <2> HIDE DEF b
  <2>3. \A r \in Regs : reg'[r] = IF r = 0 THEN reg[0] ELSE IF r = I.rd THEN b ELSE reg[r]
    BY <1>1, <2>2 DEF TypeOK, RegFile
  <2>4. QED  BY <1>1, <2>1, <2>3, WriteMatch
<1>3. Oracle!Goto(2 * pc + 4)
  BY GotoNext DEF STORE_RESULT
<1>4. QED  BY <1>2, <1>3, Unseen DEF STORE_RESULT, Result

LEMMA ResultOfPremasked ==
  ASSUME TypeOK, Len(program) < HALF, status = "run", Insn.dest = I.rd,
         NEW a \in RegVal, NEW v \in Int, STORE_RESULT_PREMASKED(a), Full(a) = v % XMOD
  PROVE  Result(v)
<1>1. I.rd \in Regs /\ 0 \in Regs
  BY InsnOK, RegsSmall DEF InsnType
<1>2. Oracle!Write(I.rd, v)
  <2>1. reg' = [reg EXCEPT ![I.rd] = a, ![0] = Zero] /\ reg[0] = Zero
    BY DEF STORE_RESULT_PREMASKED, TypeOK, RegFile
  <2>2. \A r \in Regs : reg'[r] = IF r = 0 THEN reg[0] ELSE IF r = I.rd THEN a ELSE reg[r]
    BY <1>1, <2>1 DEF TypeOK, RegFile
  <2>3. QED  BY <1>1, <2>2, WriteMatch
<1>3. Oracle!Goto(2 * pc + 4)
  BY GotoNext DEF STORE_RESULT_PREMASKED
<1>4. QED  BY <1>2, <1>3, Unseen DEF STORE_RESULT_PREMASKED, Result

(* The register write of STORE_RESULT_LOWER, JALR and the system calls. *)
LEMMA LowerMatch ==
  ASSUME TypeOK, NEW d \in Regs, NEW al \in Word, NEW v \in Int, al = v % XMOD,
         reg' = [reg EXCEPT ![d] = <<0, al>>, ![0][2] = 0]
  PROVE  Oracle!Write(d, v)
<1> DEFINE a == <<0, al>>
<1>1. Full(a) = v % XMOD
  BY Sizes, WordBound DEF Full
<1>2. reg[0] = Zero /\ 0 \in Regs
  BY RegsSmall DEF TypeOK, RegFile
<1>3. [reg EXCEPT ![d] = a, ![0][2] = 0][0] = Zero
  BY LowerWrite DEF RegFile
<1> HIDE DEF a
<1>4. \A r \in Regs \ {0} : [reg EXCEPT ![d] = a, ![0][2] = 0][r] = IF r = d THEN a ELSE reg[r]
  BY DEF TypeOK, RegFile
<1>5. \A r \in Regs : reg'[r] = IF r = 0 THEN reg[0] ELSE IF r = d THEN a ELSE reg[r]
  BY <1>2, <1>3, <1>4 DEF a
<1>6. QED  BY <1>1, <1>5, WriteMatch

LEMMA ResultOfLower ==
  ASSUME TypeOK, Len(program) < HALF, status = "run", Insn.dest = I.rd,
         NEW al \in Word, NEW v \in Int, STORE_RESULT_LOWER(al), al = v % XMOD
  PROVE  Result(v)
<1>1. I.rd \in Regs
  BY InsnOK DEF InsnType
<1>2. Oracle!Write(I.rd, v)
  BY <1>1, LowerMatch DEF STORE_RESULT_LOWER
<1>3. Oracle!Goto(2 * pc + 4)
  BY GotoNext DEF STORE_RESULT_LOWER
<1>4. QED  BY <1>2, <1>3, Unseen DEF STORE_RESULT_LOWER, Result

-----------------------------------------------------------------------------
(* Operands: a register value read as a signed integer. *)

SignedOf(x) == IF x >= XMOD \div 2 THEN x - XMOD ELSE x

LEMMA RegFull ==
  ASSUME NEW a \in RegVal
  PROVE  Full(a) \in Int /\ 0 <= Full(a) /\ Full(a) < XMOD
<1>1. a[1] \in Int /\ 0 <= a[1] /\ a[1] + 1 <= HIMOD /\ a[2] \in Int /\ 0 <= a[2] /\ a[2] < WORD
  BY Widths DEF RegVal, Word
<1>2. WORD \in Int /\ HIMOD \in Int /\ WORD > 1
  BY Sizes
<1> DEFINE h == a[1]
           l == a[2]
<1>3. h \in Int /\ 0 <= h /\ h + 1 <= HIMOD /\ l \in Int /\ 0 <= l /\ l < WORD
  BY <1>1
<1> HIDE DEF h, l
<1>4. (HIMOD - (h + 1)) * WORD >= 0
  BY <1>2, <1>3, SMT
<1>5. (HIMOD - (h + 1)) * WORD = HIMOD * WORD - (h * WORD + WORD) /\ h * WORD \in Int
      /\ HIMOD * WORD \in Int /\ h * WORD >= 0
  BY <1>2, <1>3, SMT
<1>6. h * WORD + l < HIMOD * WORD /\ 0 <= h * WORD + l /\ h * WORD + l \in Int
  BY <1>2, <1>3, <1>4, <1>5, SMT
<1>7. QED  BY <1>6 DEF Full, XMOD, h, l

LEMMA SignedValue ==
  ASSUME NEW x \in Int, 0 <= x, x < XMOD
  PROVE  /\ SignedOf(x) \in Int /\ SignedOf(x) % XMOD = x /\ x % XMOD = x
         /\ Oracle!Signed(x) = SignedOf(x)
<1>1. XMOD \in Int /\ XMOD > 0
  BY Sizes
<1>2. x % XMOD = x
  BY <1>1, ModSmall, Zenon
<1>3. x - XMOD = x + XMOD * (-1) /\ -1 \in Int
  BY <1>1
<1>4. (x + XMOD * (-1)) % XMOD = x % XMOD
  BY <1>1, <1>3, ModShift, Zenon
<1>5. (x - XMOD) % XMOD = x
  BY <1>2, <1>3, <1>4, Zenon
<1>6. SignedOf(x) \in Int /\ SignedOf(x) % XMOD = x
  BY <1>1, <1>2, <1>5, SMT DEF SignedOf
<1>7. Oracle!Signed(x) = SignedOf(x)
  BY OracleSizes, Zenon DEF Oracle!Signed, Oracle!Extend, SignedOf
<1>8. QED  BY <1>2, <1>6, <1>7

LEMMA FirstOperand ==
  ASSUME TypeOK, I.op \notin UpperOps \cup BranchOps \cup StoreOps
  PROVE  /\ Insn.op = I.op /\ Insn.dest = I.rd /\ Src1 = reg[I.rs1] /\ Src1 \in RegVal
         /\ Oracle!V1 = SignedOf(Full(Src1)) /\ Oracle!V1 \in Int
         /\ Oracle!V1 % XMOD = Full(Src1)
         /\ Insn.word2 = Word2(I)
<1>1. Insn.op = I.op /\ Insn.dest = I.rd /\ Insn.src1 = I.rs1 /\ Insn.word2 = Word2(I)
  BY DEF Insn, I, Encode, Reg1, Reg2
<1>2. I.rs1 \in Regs
  BY OracleInsn DEF Instruction
<1>3. Src1 = reg[I.rs1] /\ Src1 \in RegVal
  BY <1>1, <1>2, RegOK DEF Src1
<1> DEFINE x == Full(reg[I.rs1])
<1>4. x \in Int /\ 0 <= x /\ x < XMOD
  BY <1>3, RegFull
<1>5. Oracle!V1 = Oracle!Signed(x)
  <2>1. Oracle!Insn = I
    BY OracleInsn
  <2>2. QED  BY <1>2, <2>1 DEF Oracle!V1
<1> HIDE DEF x
<1>6. Oracle!V1 = SignedOf(x) /\ Oracle!V1 \in Int /\ Oracle!V1 % XMOD = x
  BY <1>4, <1>5, SignedValue, Zenon
<1>7. QED  BY <1>1, <1>3, <1>6, Zenon DEF x

LEMMA SecondOperand ==
  ASSUME TypeOK, I.op \in ROps
  PROVE  /\ Src2 = reg[I.rs2] /\ Src2 \in RegVal
         /\ Oracle!V2 = SignedOf(Full(Src2)) /\ Oracle!V2 \in Int
         /\ Oracle!V2 % XMOD = Full(Src2)
<1>1. I.rs2 \in Regs
  BY OracleInsn DEF Instruction
<1>2. Insn.word2 = 2 * I.rs2
  BY DEF Insn, I, Encode, Word2
<1>3. Insn.word2 \div 2 = I.rs2
  BY <1>1, <1>2 DEF Regs
<1>4. Src2 = reg[I.rs2] /\ Src2 \in RegVal
  BY <1>1, <1>3, RegOK DEF Src2
<1> DEFINE x == Full(reg[I.rs2])
<1>5. x \in Int /\ 0 <= x /\ x < XMOD
  BY <1>4, RegFull
<1>6. Oracle!V2 = Oracle!Signed(x)
  <2>1. Oracle!Insn = I
    BY OracleInsn
  <2>2. QED  BY <1>1, <2>1 DEF Oracle!V2
<1> HIDE DEF x
<1>7. Oracle!V2 = SignedOf(x) /\ Oracle!V2 \in Int /\ Oracle!V2 % XMOD = x
  BY <1>5, <1>6, SignedValue, Zenon
<1>8. QED  BY <1>4, <1>7, Zenon DEF x

LEMMA RTypeMatch ==
  ASSUME TypeOK, status = "run", I.op \in ROps,
         Result(Oracle!Compute(I.op, Oracle!V1, Oracle!V2))
  PROVE  Oracle!Next
<1>1. Oracle!Insn = I
  BY OracleInsn
<1>2. Oracle!At(Oracle!ROps)
  BY <1>1, OracleSets DEF Oracle!At
<1>3. Oracle!RType
  BY <1>1, <1>2, Zenon DEF Oracle!RType, Result, Bytes, Printed
<1>4. QED  BY <1>3, Zenon DEF Oracle!Next

LEMMA ITypeMatch ==
  ASSUME TypeOK, status = "run", I.op \in (IOps \ {"jalr"}) \cup ShiftOps,
         Result(Oracle!Compute(I.op, Oracle!V1, I.imm))
  PROVE  Oracle!Next
<1>1. Oracle!Insn = I
  BY OracleInsn
<1>2. Oracle!At((Oracle!IOps \ {"jalr"}) \cup Oracle!ShiftOps)
  BY <1>1, OracleSets DEF Oracle!At
<1>3. Oracle!IType
  BY <1>1, <1>2, Zenon DEF Oracle!IType, Result, Bytes, Printed
<1>4. QED  BY <1>3, Zenon DEF Oracle!Next

-----------------------------------------------------------------------------
(* 03-arithmetic *)

LEMMA ModSum ==
  ASSUME NEW a \in Int, NEW b \in Int, NEW d \in Int, d > 0
  PROVE  (a + b) % d = ((a % d) + (b % d)) % d
<1> DEFINE p == a % d
<1>1. p \in Int
  BY RemainderRange, Zenon
<1>2. ((a % d) + b) % d = (a + b) % d
  BY ModAdd, Zenon
<1>3. ((b % d) + p) % d = (b + p) % d
  BY <1>1, ModAdd, Zenon
<1>4. b % d \in Int
  BY RemainderRange, Zenon
<1> HIDE DEF p
<1>5. (b % d) + p = p + (b % d) /\ b + p = p + b
  BY <1>1, <1>4
<1>6. QED  BY <1>2, <1>3, <1>5, Zenon DEF p

LEMMA ModDifference ==
  ASSUME NEW a \in Int, NEW b \in Int, NEW d \in Int, d > 0
  PROVE  (a - b) % d = ((a % d) - (b % d)) % d
<1> DEFINE p == a % d
<1>1. p \in Int /\ -b \in Int
  BY RemainderRange
<1>2. ((a % d) + (-b)) % d = (a + (-b)) % d
  BY <1>1, ModAdd, Zenon
<1>3. (p - (b % d)) % d = (p - b) % d
  BY <1>1, ModSubtract, Zenon
<1> HIDE DEF p
<1>4. p + (-b) = p - b /\ a + (-b) = a - b
  BY <1>1
<1>5. QED  BY <1>2, <1>3, <1>4, Zenon DEF p

(* A remainder by a multiple of d has the same remainder by d. *)
LEMMA ModMultiple ==
  ASSUME NEW n \in Int, NEW d \in Int, d > 0, NEW k \in Int, k > 0
  PROVE  (n % (d * k)) % d = n % d
<1> DEFINE r == n % d
           q == (n \div d) % k
<1>1. n % (d * k) = d * q + r
  BY Nested, Zenon
<1>2. r \in Int /\ n \div d \in Int
  BY RemainderRange, Zenon
<1>3. q \in Int
  BY <1>2, RemainderRange, Zenon
<1>4. r % d = r
  BY <1>2, RemainderRange, ModSmall, Zenon
<1>0. r \in Int
  BY <1>2
<1> HIDE DEF q, r
<1>5. (r + d * q) % d = r % d
  BY <1>0, <1>3, ModShift, Zenon
<1>6. d * q + r = r + d * q
  BY <1>2, <1>3, SMT
<1>7. QED  BY <1>1, <1>4, <1>5, <1>6, Zenon DEF r

LEMMA ModAccumulator ==
  ASSUME NEW z \in Int
  PROVE  (z % AMOD) % XMOD = z % XMOD
<1>1. XMOD \in Int /\ XMOD > 0 /\ 16 \in Int /\ 16 > 0 /\ AMOD = XMOD * 16
  BY Sizes
<1>2. (z % (XMOD * 16)) % XMOD = z % XMOD
  BY <1>1, ModMultiple, Zenon
<1>3. QED  BY <1>1, <1>2, Zenon

LEMMA FullOfPlus ==
  ASSUME NEW a \in Int \X Int, NEW b \in Int \X Int
  PROVE  Full(Plus(a, b)) = (Full(a) + Full(b)) % AMOD /\ Plus(a, b) \in Word \X Word
<1> DEFINE x == Full(a)
           y == Full(b)
<1>1. x \in Int /\ y \in Int /\ AMOD \in Int /\ AMOD > 0
  BY FullInt, Sizes
<1>2. Full(ADDA(a, b)) = (x + y + 1) % AMOD
  BY FullOfAdda
<1>3. ADDA(a, b) \in Int \X Int
  BY AddaType, PairInt
<1>4. Full(One) = 1
  BY Sizes DEF One, Full
<1>5. Full(Plus(a, b)) = (Full(ADDA(a, b)) - Full(One)) % AMOD
  BY <1>3, OneType, FullOfSuba, Zenon DEF Plus
<1> HIDE DEF x, y
<1> DEFINE z == x + y + 1
<1>6. z \in Int /\ -1 \in Int /\ z + (-1) = x + y
  BY <1>1
<1> HIDE DEF z
<1>7. ((z % AMOD) + (-1)) % AMOD = (z + (-1)) % AMOD
  <2>1. z \in Int /\ -1 \in Int /\ AMOD \in Int /\ AMOD > 0
    BY <1>1, <1>6
  <2>2. QED  BY <2>1, ModAdd, Zenon
<1>8. z % AMOD \in Int
  BY <1>1, <1>6, RemainderRange, Zenon
<1>9. (z % AMOD) + (-1) = (z % AMOD) - 1
  BY <1>8
<1>10. Full(Plus(a, b)) = (x + y) % AMOD
  BY <1>2, <1>4, <1>5, <1>6, <1>7, <1>9, Zenon DEF z
<1>11. QED  BY <1>10, PlusType DEF x, y

(* Immediates: the sign of word 2 spread over the upper word, to its 18 bits  *)
(* or to the 14 of a register.                                               *)
LEMMA SignedWord ==
  ASSUME NEW k \in Int, 0 <= 2 * k + WORD, 2 * k < WORD
  PROVE  /\ k % WORD \in Word
         /\ Full(<<SignWord(k % WORD), k % WORD>>) = k % AMOD
         /\ Full(<<IF Neg(k % WORD) THEN HIMOD - 1 ELSE 0, k % WORD>>) = k % XMOD
<1> DEFINE w == k % WORD
           h == WORD \div 2
<1>1. /\ WORD \in Int /\ WORD > 1 /\ AMOD = WORD * WORD /\ XMOD = HIMOD * WORD
      /\ HIMOD \in Int /\ HIMOD > 1 /\ WORD = 4 * HALF /\ HALF \in Int
  BY Sizes
<1>2. h \in Int /\ 2 * h = WORD
  BY <1>1
<1>3. WORD <= AMOD /\ WORD <= XMOD /\ AMOD \in Int /\ XMOD \in Int
  <2>1. (WORD - 1) * WORD >= 0 /\ (HIMOD - 1) * WORD >= 0
        /\ (WORD - 1) * WORD = WORD * WORD - WORD /\ (HIMOD - 1) * WORD = HIMOD * WORD - WORD
        /\ WORD * WORD \in Int /\ HIMOD * WORD \in Int
    BY <1>1, SMT
  <2>2. QED  BY <1>1, <2>1, SMT
<1>4. CASE 0 <= k
  <2>1. k < WORD /\ k < AMOD /\ k < XMOD
    BY <1>1, <1>3, <1>4
  <2>2. w = k /\ k % AMOD = k /\ k % XMOD = k
    BY <1>1, <1>3, <1>4, <2>1, ModSmall, Zenon
  <2>3. ~Neg(w) /\ w \in Word
    BY <1>1, <1>2, <1>4, <2>1, <2>2, SMT DEF Neg, Word
  <2> HIDE DEF w
  <2>4. SignWord(w) = 0
    BY <2>3, Zenon DEF SignWord
  <2>5. Full(<<0, w>>) = w
    BY <1>1, <2>3, WordBound DEF Full
  <2>6. QED  BY <2>2, <2>3, <2>4, <2>5, Zenon DEF w
<1>5. CASE k < 0
  <2> DEFINE n == k + WORD
             u == k + AMOD
             t == k + XMOD
  <2>1. n \in Int /\ 0 <= n /\ n < WORD /\ h <= n
    BY <1>1, <1>2, <1>5
  <2>2. u \in Int /\ 0 <= u /\ u < AMOD /\ t \in Int /\ 0 <= t /\ t < XMOD
    BY <1>1, <1>2, <1>3, <1>5
  <2>3. /\ k = WORD * (-1) + n /\ k = AMOD * (-1) + u /\ k = XMOD * (-1) + t
        /\ -1 \in Int
    BY <1>1, <1>3
  <2>4. w = n /\ k % AMOD = u /\ k % XMOD = t
    <3> HIDE DEF n, u, t
    <3>1. WORD > 0 /\ AMOD > 0 /\ XMOD > 0
      BY <1>1, <1>3
    <3>2. k % WORD = n
      BY <1>1, <2>1, <2>3, <3>1, Quotient, SMT
    <3>3. k % AMOD = u
      BY <1>3, <2>2, <2>3, <3>1, Quotient, SMT
    <3>4. k % XMOD = t
      BY <1>3, <2>2, <2>3, <3>1, Quotient, SMT
    <3>5. QED  BY <3>2, <3>3, <3>4
  <2>5. Neg(w) /\ w \in Word
    BY <1>1, <1>2, <2>1, <2>4, SMT DEF Neg, Word
  <2>6. (WORD - 1) * WORD + n = u /\ (HIMOD - 1) * WORD + n = t
    <3>1. (WORD - 1) * WORD = WORD * WORD - WORD /\ (HIMOD - 1) * WORD = HIMOD * WORD - WORD
      BY <1>1, SMT
    <3>2. QED  BY <1>1, <1>3, <3>1, SMT
  <2> HIDE DEF w, n, u, t
  <2>7. SignWord(w) = WORD - 1
    BY <2>5, Zenon DEF SignWord
  <2>8. Full(<<WORD - 1, w>>) = u /\ Full(<<HIMOD - 1, w>>) = t
    BY <2>4, <2>6 DEF Full
  <2>9. QED  BY <2>4, <2>5, <2>7, <2>8, Zenon DEF w
<1>6. QED  BY <1>4, <1>5, <1>1

LEMMA ImmRange ==
  ASSUME TypeOK, I.op \in IOps \cup LoadOps \cup StoreOps
  PROVE  /\ I.imm \in Int /\ 0 <= 2 * I.imm + WORD /\ 2 * I.imm < WORD
         /\ 0 <= 2 * (I.imm - 1) + WORD /\ 2 * (I.imm - 1) < WORD
<1> DEFINE P == 2^(IMMBITS - 1)
<1>1. P \in Int /\ 2 * P + 2 <= WORD
  <2>1. IMMBITS - 1 = 3 \/ (BYTEBITS = 8 /\ IMMBITS - 1 = 11)
    BY DEF IMMBITS
  <2>2. P = 2^3 \/ (BYTEBITS = 8 /\ P = 2^11)
    BY <2>1, Zenon
  <2> HIDE DEF P
  <2>3. P = 8 \/ (BYTEBITS = 8 /\ P = 2048)
    BY <2>2, SMT
  <2>4. WORD \in Int /\ WORD >= 64 /\ (BYTEBITS = 8 => WORD = 262144)
    BY Moduli, WordBound, SMT
  <2>5. QED  BY <2>3, <2>4, SMT
<1>2. Imm12 = -P .. P - 1
  BY DEF Imm12
<1> HIDE DEF P
<1>3. I.imm \in -P .. P - 1
  BY <1>2, OracleInsn DEF Instruction, Imms
<1>4. WORD \in Int
  BY Sizes
<1>5. QED  BY <1>1, <1>3, <1>4

LEMMA AddMatch ==
  ASSUME TypeOK, Len(program) < HALF, OP_ADD
  PROVE  Oracle!Next
<1>1. status = "run" /\ I.op = "add" /\ STORE_RESULT(Plus(Src1, Src2))
  BY DEF OP_ADD, Dispatch, Insn, I, Encode
<1>2. I.op \in ROps /\ I.op \notin UpperOps \cup BranchOps \cup StoreOps
  BY <1>1 DEF ROps, UpperOps, BranchOps, StoreOps
<1> DEFINE u == Oracle!V1
           v == Oracle!V2
<1>3. u \in Int /\ u % XMOD = Full(Src1) /\ Src1 \in RegVal /\ Insn.dest = I.rd
  BY <1>2, FirstOperand
<1>4. v \in Int /\ v % XMOD = Full(Src2) /\ Src2 \in RegVal
  BY <1>2, SecondOperand
<1>5. Src1 \in Int \X Int /\ Src2 \in Int \X Int
  BY <1>3, <1>4, RegValPair, PairInt
<1> HIDE DEF u, v
<1>6. XMOD \in Int /\ XMOD > 0
  BY Sizes
<1>7. Full(Plus(Src1, Src2)) = (Full(Src1) + Full(Src2)) % AMOD
      /\ Plus(Src1, Src2) \in Word \X Word
  BY <1>5, FullOfPlus
<1>8. Full(Src1) + Full(Src2) \in Int
  BY <1>5, FullInt
<1>9. Full(Plus(Src1, Src2)) % XMOD = (Full(Src1) + Full(Src2)) % XMOD
  BY <1>7, <1>8, ModAccumulator, Zenon
<1>10. (u + v) % XMOD = ((u % XMOD) + (v % XMOD)) % XMOD
  BY <1>3, <1>4, <1>6, ModSum
<1>11. Full(Plus(Src1, Src2)) % XMOD = (u + v) % XMOD
  BY <1>3, <1>4, <1>9, <1>10, Zenon
<1>12. Plus(Src1, Src2) \in Int \X Word /\ u + v \in Int
  BY <1>3, <1>4, <1>7, PairInt
<1>13. Result(u + v)
  BY <1>1, <1>3, <1>11, <1>12, ResultOfStore
<1>14. Oracle!Compute(I.op, u, v) = u + v
  BY <1>1 DEF Oracle!Compute
<1>15. QED  BY <1>1, <1>2, <1>13, <1>14, RTypeMatch DEF u, v

LEMMA SubMatch ==
  ASSUME TypeOK, Len(program) < HALF, OP_SUB
  PROVE  Oracle!Next
<1>1. status = "run" /\ I.op = "sub" /\ STORE_RESULT(SUBA(Src1, Src2))
  BY DEF OP_SUB, Dispatch, Insn, I, Encode
<1>2. I.op \in ROps /\ I.op \notin UpperOps \cup BranchOps \cup StoreOps
  BY <1>1 DEF ROps, UpperOps, BranchOps, StoreOps
<1> DEFINE u == Oracle!V1
           v == Oracle!V2
<1>3. u \in Int /\ u % XMOD = Full(Src1) /\ Src1 \in RegVal /\ Insn.dest = I.rd
  BY <1>2, FirstOperand
<1>4. v \in Int /\ v % XMOD = Full(Src2) /\ Src2 \in RegVal
  BY <1>2, SecondOperand
<1>5. Src1 \in Int \X Int /\ Src2 \in Int \X Int
  BY <1>3, <1>4, RegValPair, PairInt
<1> HIDE DEF u, v
<1>6. XMOD \in Int /\ XMOD > 0
  BY Sizes
<1>7. Full(SUBA(Src1, Src2)) = (Full(Src1) - Full(Src2)) % AMOD
      /\ SUBA(Src1, Src2) \in Word \X Word
  BY <1>5, FullOfSuba, SubaType
<1>8. Full(Src1) - Full(Src2) \in Int
  BY <1>5, FullInt
<1>9. Full(SUBA(Src1, Src2)) % XMOD = (Full(Src1) - Full(Src2)) % XMOD
  BY <1>7, <1>8, ModAccumulator, Zenon
<1>10. (u - v) % XMOD = ((u % XMOD) - (v % XMOD)) % XMOD
  BY <1>3, <1>4, <1>6, ModDifference
<1>11. Full(SUBA(Src1, Src2)) % XMOD = (u - v) % XMOD
  BY <1>3, <1>4, <1>9, <1>10, Zenon
<1>12. SUBA(Src1, Src2) \in Int \X Word /\ u - v \in Int
  BY <1>3, <1>4, <1>7, PairInt
<1>13. Result(u - v)
  BY <1>1, <1>3, <1>11, <1>12, ResultOfStore
<1>14. Oracle!Compute(I.op, u, v) = u - v
  BY <1>1 DEF Oracle!Compute
<1>15. QED  BY <1>1, <1>2, <1>13, <1>14, RTypeMatch DEF u, v

(* Word 2 of an addi holds the immediate less the 1 that ADDA adds. *)
LEMMA AddiMatch ==
  ASSUME TypeOK, Len(program) < HALF, OP_ADDI
  PROVE  Oracle!Next
<1>1. status = "run" /\ I.op = "addi" /\ STORE_RESULT(ADDA(Imm, Src1))
  BY DEF OP_ADDI, Dispatch, Insn, I, Encode
<1>2. /\ I.op \in (IOps \ {"jalr"}) \cup ShiftOps /\ I.op \in IOps
      /\ I.op \notin UpperOps \cup BranchOps \cup StoreOps
  BY <1>1 DEF IOps, ShiftOps, UpperOps, BranchOps, StoreOps
<1> DEFINE u == Oracle!V1
           v == I.imm
           k == I.imm - 1
           x == Full(Src1)
           y == Full(Imm)
<1>3. u \in Int /\ u % XMOD = Full(Src1) /\ Src1 \in RegVal /\ Insn.dest = I.rd
      /\ Insn.word2 = Word2(I)
  BY <1>2, FirstOperand
<1>4. v \in Int /\ k \in Int /\ 0 <= 2 * k + WORD /\ 2 * k < WORD
  BY <1>2, ImmRange
<1>5. Insn.word2 = k % WORD
  BY <1>1, <1>3 DEF Word2, ROps
<1>6. y = k % AMOD
  <2> HIDE DEF k
  <2>1. Full(<<SignWord(k % WORD), k % WORD>>) = k % AMOD
    BY <1>4, SignedWord
  <2>2. QED  BY <1>5, <2>1, Zenon DEF Imm, y
<1>7. Src1 \in Int \X Int /\ Imm \in Int \X Int
  BY <1>3, RegValPair, PairInt, Operands
<1>8. Full(ADDA(Imm, Src1)) = (y + x + 1) % AMOD /\ ADDA(Imm, Src1) \in Word \X Word
      /\ x \in Int /\ y \in Int
  BY <1>7, FullOfAdda, AddaType, FullInt
<1>9. XMOD \in Int /\ XMOD > 0 /\ AMOD \in Int /\ AMOD > 0
  BY Sizes
<1>11. k = v - 1
  OBVIOUS
<1> HIDE DEF u, v, k, x, y
<1>12. Full(ADDA(Imm, Src1)) % XMOD = (u + v) % XMOD
  <2> DEFINE s == x + 1
             t == y + x + 1
  <2>1. s \in Int /\ t \in Int /\ t = y + s
    BY <1>8
  <2>2. k + s = x + v
    BY <1>4, <1>8, <1>11
  <2> HIDE DEF s, t
  <2>3. ((k % AMOD) + s) % AMOD = (k + s) % AMOD
    BY <1>4, <1>9, <2>1, ModAdd
  <2>4. (t % AMOD) = (x + v) % AMOD
    BY <1>6, <2>1, <2>2, <2>3, Zenon
  <2>5. x + v \in Int
    BY <1>4, <1>8
  <2>6. ((x + v) % AMOD) % XMOD = (x + v) % XMOD
    BY <2>5, ModAccumulator, Zenon
  <2>7. ((u % XMOD) + v) % XMOD = (u + v) % XMOD
    BY <1>3, <1>4, <1>9, ModAdd
  <2>8. u % XMOD = x
    BY <1>3 DEF x
  <2>9. QED  BY <1>8, <2>4, <2>6, <2>7, <2>8, Zenon DEF t
<1>13. ADDA(Imm, Src1) \in Int \X Word /\ u + v \in Int
  BY <1>3, <1>4, <1>8, PairInt
<1>14. Result(u + v)
  BY <1>1, <1>3, <1>12, <1>13, ResultOfStore
<1>15. Oracle!Compute(I.op, u, v) = u + v
  BY <1>1 DEF Oracle!Compute
<1>16. QED  BY <1>1, <1>2, <1>14, <1>15, ITypeMatch DEF u, v

-----------------------------------------------------------------------------
(* 04-bitwise *)

LEMMA OracleBits ==
  ASSUME NEW a, NEW b
  PROVE  /\ Oracle!SLCL(a, b) = SLCL(a, b) /\ Oracle!SLSET(a, b) = SLSET(a, b)
         /\ Oracle!SLCP(a, b) = SLCP(a, b)
  BY SMT DEF Oracle!SLCL, SLCL, Oracle!SLSET, SLSET, Oracle!SLCP, SLCP, Oracle!Assemble, Assemble,
         Oracle!BitSet, BitSet

LEMMA BitsCommute ==
  ASSUME NEW a, NEW b
  PROVE  SLCL(a, b) = SLCL(b, a) /\ SLSET(a, b) = SLSET(b, a) /\ SLCP(a, b) = SLCP(b, a)
<1>1. SLCL(a, b) = SLCL(b, a)
  BY SMTT(30) DEF SLCL, Assemble
<1>2. SLSET(a, b) = SLSET(b, a)
  BY SMTT(30) DEF SLSET, Assemble
<1>3. SLCP(a, b) = SLCP(b, a)
  <2> DEFINE d(k) == IF ~(BitSet(a, k) <=> BitSet(b, k)) THEN k ELSE 0
             e(k) == IF ~(BitSet(b, k) <=> BitSet(a, k)) THEN k ELSE 0
  <2>1. \A k : d(k) = e(k)
    BY Zenon
  <2>2. SLCP(a, b)
          = d(1) + d(2) + d(4) + d(8) + d(16) + d(32) + d(64) + d(128) + d(256)
            + d(512) + d(1024) + d(2048) + d(4096) + d(8192) + d(16384) + d(32768) + d(65536) + d(131072)
    BY SMT DEF SLCP, Assemble
  <2>3. SLCP(b, a)
          = e(1) + e(2) + e(4) + e(8) + e(16) + e(32) + e(64) + e(128) + e(256)
            + e(512) + e(1024) + e(2048) + e(4096) + e(8192) + e(16384) + e(32768) + e(65536) + e(131072)
    BY SMT DEF SLCP, Assemble
  <2> HIDE DEF d, e
  <2>4. QED  BY <2>1, <2>2, <2>3, SMT
<1>4. QED  BY <1>1, <1>2, <1>3

LEMMA WordInt == \A w \in Word : w \in Int /\ 0 <= w /\ w < WORD
  BY WordBound

LEMMA HalfwiseMatch ==
  ASSUME NEW a \in RegVal, NEW b \in RegVal
  PROVE  /\ Full(Bitwise(SLCL, a, b)) = Oracle!Halfwise(Oracle!SLCL, Full(a), Full(b))
         /\ Full(Bitwise(SLSET, a, b)) = Oracle!Halfwise(Oracle!SLSET, Full(a), Full(b))
         /\ Full(Bitwise(SLCP, a, b)) = Oracle!Halfwise(Oracle!SLCP, Full(a), Full(b))
<1> DEFINE x == Full(a)
           y == Full(b)
           Split(f) == f[<<a[1], b[1]>>] * WORD + f[<<a[2], b[2]>>]
                         = f[<<x % HALF, y % HALF>>] + HALF * f[<<x \div HALF, y \div HALF>>]
<1>1. Split(And) /\ Split(Or) /\ Split(Xor)
  BY BitsOfHalves DEF BitFunction
<1>2. /\ a[1] \in Word /\ a[2] \in Word /\ b[1] \in Word /\ b[2] \in Word
      /\ x % HALF \in Word /\ y % HALF \in Word
  BY RegValPair, HalfDigits, Widths DEF Word, RegVal
<1>3. x \div HALF \in Word /\ y \div HALF \in Word
  <2>1. \A c \in RegVal : Full(c) \div HALF \in Word
    <3>1. SUFFICES ASSUME NEW c \in RegVal
                   PROVE  Full(c) \div HALF \in Word
      OBVIOUS
    <3>2. /\ Full(c) \div HALF = (c[2] \div HALF) + 4 * c[1]
          /\ c[2] \div HALF \in Word /\ c[2] \div HALF < 4
      BY HalfDigits
    <3>3. c[1] \in Int /\ 0 <= c[1] /\ c[1] < HIMOD
      BY Widths DEF RegVal
    <3>4. HIMOD \in Int /\ 4 * HIMOD <= WORD
      BY Sizes
    <3>5. (c[2] \div HALF) \in Int /\ 0 <= c[2] \div HALF
      BY <3>2, WordInt, Zenon
    <3> DEFINE q == c[2] \div HALF
    <3>6. q \in Int /\ 0 <= q /\ q < 4
      BY <3>2, <3>5
    <3> HIDE DEF q
    <3>7. q + 4 * c[1] \in Word
      BY <3>3, <3>4, <3>6, WordBound DEF Word
    <3>8. QED  BY <3>2, <3>7 DEF q
  <2>2. QED  BY <2>1
<1> HIDE DEF x, y
<1>4. /\ SLCL(a[1], b[1]) * WORD + SLCL(a[2], b[2])
           = SLCL(x % HALF, y % HALF) + HALF * SLCL(x \div HALF, y \div HALF)
      /\ SLSET(a[1], b[1]) * WORD + SLSET(a[2], b[2])
           = SLSET(x % HALF, y % HALF) + HALF * SLSET(x \div HALF, y \div HALF)
      /\ SLCP(a[1], b[1]) * WORD + SLCP(a[2], b[2])
           = SLCP(x % HALF, y % HALF) + HALF * SLCP(x \div HALF, y \div HALF)
  <2>1. \A c, d \in Word : And[<<c, d>>] = SLCL(c, d) /\ Or[<<c, d>>] = SLSET(c, d)
                           /\ Xor[<<c, d>>] = SLCP(c, d)
    BY DEF And, Or, Xor
  <2>2. QED  BY <1>1, <1>2, <1>3, <2>1, Zenon
<1>5. Oracle!HALF = HALF
  BY OracleSizes
<1>6. QED  BY <1>4, <1>5, OracleBits, Zenon DEF Bitwise, Full, Oracle!Halfwise, x, y

LEMMA PremaskedValue ==
  ASSUME NEW a \in RegVal
  PROVE  Full(a) \in Int /\ Full(a) % XMOD = Full(a)
<1>1. Full(a) \in Int /\ 0 <= Full(a) /\ Full(a) < XMOD /\ XMOD \in Int
  BY RegFull, Sizes
<1>2. QED  BY <1>1, ModSmall, Zenon

LEMMA BitwiseSwap ==
  ASSUME NEW a, NEW b
  PROVE  /\ Bitwise(SLCL, a, b) = Bitwise(SLCL, b, a)
         /\ Bitwise(SLSET, a, b) = Bitwise(SLSET, b, a)
         /\ Bitwise(SLCP, a, b) = Bitwise(SLCP, b, a)
  BY BitsCommute, Zenon DEF Bitwise

LEMMA LogicalMatch ==
  ASSUME TypeOK, Len(program) < HALF, OP_AND \/ OP_OR \/ OP_XOR
  PROVE  Oracle!Next
<1>1. status = "run" /\ Insn.op \in {"and", "or", "xor"} /\ Insn.op = I.op
  BY DEF OP_AND, OP_OR, OP_XOR, Dispatch, Insn, I, Encode
<1>2. I.op \in ROps /\ I.op \notin UpperOps \cup BranchOps \cup StoreOps
  BY <1>1 DEF ROps, UpperOps, BranchOps, StoreOps
<1> DEFINE u == Oracle!V1
           v == Oracle!V2
           x == Full(Src1)
           y == Full(Src2)
<1>3. u % XMOD = x /\ Src1 \in RegVal /\ Insn.dest = I.rd
  BY <1>2, FirstOperand
<1>4. v % XMOD = y /\ Src2 \in RegVal
  BY <1>2, SecondOperand
<1>5. Oracle!Mask(u) = x /\ Oracle!Mask(v) = y
  BY <1>3, <1>4, OracleMask, Zenon
<1> HIDE DEF u, v, x, y
<1>6. ASSUME NEW a \in RegVal, STORE_RESULT_PREMASKED(a), Full(a) = Oracle!Compute(I.op, u, v)
      PROVE  Oracle!Next
  <2>1. Full(a) \in Int /\ Full(a) % XMOD = Full(a)
    BY PremaskedValue
  <2>2. Result(Full(a))
    BY <1>1, <1>3, <1>6, <2>1, ResultOfPremasked
  <2>3. QED  BY <1>1, <1>2, <1>6, <2>2, RTypeMatch DEF u, v
<1>7. CASE OP_AND
  <2> DEFINE a == Bitwise(SLCL, Src2, Src1)
  <2>1. a \in RegVal /\ I.op = "and" /\ STORE_RESULT_PREMASKED(a)
    BY <1>1, <1>3, <1>4, <1>7, BitwiseType DEF OP_AND, Dispatch
  <2>2. Oracle!Compute(I.op, u, v) = Oracle!Halfwise(Oracle!SLCL, x, y)
    BY <1>5, <2>1 DEF Oracle!Compute
  <2>3. Full(a) = Oracle!Halfwise(Oracle!SLCL, x, y)
    <3>1. a = Bitwise(SLCL, Src1, Src2)
      BY BitwiseSwap, Zenon
    <3>2. QED  BY <1>3, <1>4, <3>1, HalfwiseMatch, Zenon DEF x, y
  <2> HIDE DEF a
  <2>4. QED  BY <1>6, <2>1, <2>2, <2>3
<1>8. CASE OP_OR
  <2> DEFINE a == Bitwise(SLSET, Src2, Src1)
  <2>1. a \in RegVal /\ I.op = "or" /\ STORE_RESULT_PREMASKED(a)
    BY <1>1, <1>3, <1>4, <1>8, BitwiseType DEF OP_OR, Dispatch
  <2>2. Oracle!Compute(I.op, u, v) = Oracle!Halfwise(Oracle!SLSET, x, y)
    BY <1>5, <2>1 DEF Oracle!Compute
  <2>3. Full(a) = Oracle!Halfwise(Oracle!SLSET, x, y)
    <3>1. a = Bitwise(SLSET, Src1, Src2)
      BY BitwiseSwap, Zenon
    <3>2. QED  BY <1>3, <1>4, <3>1, HalfwiseMatch, Zenon DEF x, y
  <2> HIDE DEF a
  <2>4. QED  BY <1>6, <2>1, <2>2, <2>3
<1>9. CASE OP_XOR
  <2> DEFINE a == Bitwise(SLCP, Src2, Src1)
  <2>1. a \in RegVal /\ I.op = "xor" /\ STORE_RESULT_PREMASKED(a)
    BY <1>1, <1>3, <1>4, <1>9, BitwiseType DEF OP_XOR, Dispatch
  <2>2. Oracle!Compute(I.op, u, v) = Oracle!Halfwise(Oracle!SLCP, x, y)
    BY <1>5, <2>1 DEF Oracle!Compute
  <2>3. Full(a) = Oracle!Halfwise(Oracle!SLCP, x, y)
    <3>1. a = Bitwise(SLCP, Src1, Src2)
      BY BitwiseSwap, Zenon
    <3>2. QED  BY <1>3, <1>4, <3>1, HalfwiseMatch, Zenon DEF x, y
  <2> HIDE DEF a
  <2>4. QED  BY <1>6, <2>1, <2>2, <2>3
<1>10. QED  BY <1>7, <1>8, <1>9

(* The 14-bit mask in the upper word makes Imm14 the immediate modulo 2^XLEN. *)
LEMMA ImmediateOperand ==
  ASSUME TypeOK, I.op \in (IOps \ {"jalr", "addi"})
  PROVE  /\ I.imm \in Int /\ Imm14 \in RegVal /\ Full(Imm14) = I.imm % XMOD
         /\ Insn.word2 = I.imm % WORD
<1> DEFINE k == I.imm
<1>1. k \in Int /\ 0 <= 2 * k + WORD /\ 2 * k < WORD
  BY ImmRange
<1>2. Insn.word2 = k % WORD
  BY DEF Insn, I, Encode, Word2, ROps, IOps, BranchOps
<1> HIDE DEF k
<1>3. Full(<<IF Neg(k % WORD) THEN HIMOD - 1 ELSE 0, k % WORD>>) = k % XMOD
  BY <1>1, SignedWord
<1>4. Full(Imm14) = k % XMOD
  BY <1>2, <1>3, Zenon DEF Imm14
<1>5. QED  BY <1>1, <1>2, <1>4, Operands DEF k

LEMMA LogicalImmediateMatch ==
  ASSUME TypeOK, Len(program) < HALF, OP_ANDI \/ OP_ORI \/ OP_XORI
  PROVE  Oracle!Next
<1>1. status = "run" /\ Insn.op \in {"andi", "ori", "xori"} /\ Insn.op = I.op
  BY DEF OP_ANDI, OP_ORI, OP_XORI, Dispatch, Insn, I, Encode
<1>2. /\ I.op \in (IOps \ {"jalr"}) \cup ShiftOps /\ I.op \in IOps \ {"jalr", "addi"}
      /\ I.op \notin UpperOps \cup BranchOps \cup StoreOps
  BY <1>1 DEF IOps, ShiftOps, UpperOps, BranchOps, StoreOps
<1> DEFINE u == Oracle!V1
           v == I.imm
           x == Full(Src1)
           y == Full(Imm14)
<1>3. u % XMOD = x /\ Src1 \in RegVal /\ Insn.dest = I.rd
  BY <1>2, FirstOperand
<1>4. v % XMOD = y /\ Imm14 \in RegVal
  BY <1>2, ImmediateOperand
<1>5. Oracle!Mask(u) = x /\ Oracle!Mask(v) = y
  BY <1>3, <1>4, OracleMask, Zenon
<1> HIDE DEF u, v, x, y
<1>6. ASSUME NEW a \in RegVal, STORE_RESULT_PREMASKED(a), Full(a) = Oracle!Compute(I.op, u, v)
      PROVE  Oracle!Next
  <2>1. Full(a) \in Int /\ Full(a) % XMOD = Full(a)
    BY PremaskedValue
  <2>2. Result(Full(a))
    BY <1>1, <1>3, <1>6, <2>1, ResultOfPremasked
  <2>3. QED  BY <1>1, <1>2, <1>6, <2>2, ITypeMatch DEF u, v
<1>7. CASE OP_ANDI
  <2> DEFINE a == Bitwise(SLCL, Src1, Imm14)
  <2>1. a \in RegVal /\ I.op = "andi" /\ STORE_RESULT_PREMASKED(a)
    BY <1>1, <1>3, <1>4, <1>7, BitwiseType DEF OP_ANDI, Dispatch
  <2>2. Oracle!Compute(I.op, u, v) = Oracle!Halfwise(Oracle!SLCL, x, y)
    BY <1>5, <2>1 DEF Oracle!Compute
  <2>3. Full(a) = Oracle!Halfwise(Oracle!SLCL, x, y)
    BY <1>3, <1>4, HalfwiseMatch, Zenon DEF x, y
  <2> HIDE DEF a
  <2>4. QED  BY <1>6, <2>1, <2>2, <2>3
<1>8. CASE OP_ORI
  <2> DEFINE a == Bitwise(SLSET, Src1, Imm14)
  <2>1. a \in RegVal /\ I.op = "ori" /\ STORE_RESULT_PREMASKED(a)
    BY <1>1, <1>3, <1>4, <1>8, BitwiseType DEF OP_ORI, Dispatch
  <2>2. Oracle!Compute(I.op, u, v) = Oracle!Halfwise(Oracle!SLSET, x, y)
    BY <1>5, <2>1 DEF Oracle!Compute
  <2>3. Full(a) = Oracle!Halfwise(Oracle!SLSET, x, y)
    BY <1>3, <1>4, HalfwiseMatch, Zenon DEF x, y
  <2> HIDE DEF a
  <2>4. QED  BY <1>6, <2>1, <2>2, <2>3
<1>9. CASE OP_XORI
  <2> DEFINE a == Bitwise(SLCP, Src1, Imm14)
  <2>1. a \in RegVal /\ I.op = "xori" /\ STORE_RESULT_PREMASKED(a)
    BY <1>1, <1>3, <1>4, <1>9, BitwiseType DEF OP_XORI, Dispatch
  <2>2. Oracle!Compute(I.op, u, v) = Oracle!Halfwise(Oracle!SLCP, x, y)
    BY <1>5, <2>1 DEF Oracle!Compute
  <2>3. Full(a) = Oracle!Halfwise(Oracle!SLCP, x, y)
    BY <1>3, <1>4, HalfwiseMatch, Zenon DEF x, y
  <2> HIDE DEF a
  <2>4. QED  BY <1>6, <2>1, <2>2, <2>3
<1>10. QED  BY <1>7, <1>8, <1>9

-----------------------------------------------------------------------------
(* 05-shifts *)

LEMMA WidthRelations ==
  /\ WBITS \in Int /\ XLEN \in Int /\ XLEN = 2 * WBITS - 4 /\ 6 <= WBITS /\ WBITS <= 18
  /\ 8 <= XLEN /\ XLEN <= 32
  BY Widths

(* What came around at the bottom, and what left at the top, is masked out.   *)
LEMMA ShiftMaskValue ==
  ASSUME NEW c \in Word \X Word, NEW n \in 0 .. XLEN - 1
  PROVE  Full(ShiftMask(n, c)) = (Full(c) % XMOD) - ((Full(c) % XMOD) % 2^n)
<1> DEFINE h == c[1] % HIMOD
           l == c[2]
           g == Full(c) % XMOD
           p == 2^n
<1>1. /\ n \in Int /\ 0 <= n /\ n <= 36 /\ n < XLEN /\ WBITS \in Int /\ WBITS <= 18 /\ 0 <= WBITS
      /\ XLEN = 2 * WBITS - 4
  BY WidthRelations
<1>2. p \in Int /\ p > 0
  BY <1>1, PowerInt
<1>3. WORD \in Int /\ WORD > 0 /\ HIMOD \in Int /\ HIMOD > 0
  BY Sizes
<1>4. c[1] \in Int /\ l \in Int /\ 0 <= l /\ l < WORD /\ c \in Int \X Word
  BY WordInt
<1>5. h \in Int /\ 0 <= h
  BY <1>3, <1>4, RemainderRange
<1>6. g = h * WORD + l
  <2>1. Full(<<c[1] % HIMOD, c[2]>>) = g
    BY <1>4, FullOfMask
  <2>2. QED  BY <2>1 DEF Full
<1>7. CASE n <= WBITS
  <2> DEFINE w == 2^(WBITS - n)
  <2>1. w \in Int
    BY <1>1, <1>7, PowerInt
  <2>2. WORD = p * w
    <3>1. n \in Nat /\ WBITS - n \in Nat /\ n + (WBITS - n) <= 36 /\ n + (WBITS - n) = WBITS
      BY <1>1, <1>7
    <3>2. 2^(n + (WBITS - n)) = p * w
      BY <3>1, PowerSum, Zenon
    <3>3. QED  BY <3>1, <3>2, Exponents, Zenon
  <2>3. Full(ShiftMask(n, c)) = h * WORD + (l - (l % p))
    <3>1. h % 1 = 0
      BY <1>5
    <3>2. l - (l % p) = 0 \/ n < WBITS
      <4>1. CASE n = WBITS
        <5>1. p = WORD
          BY <4>1, Exponents, Zenon
        <5>2. l % WORD = l
          BY <1>3, <1>4, ModSmall, Zenon
        <5>3. QED  BY <1>4, <5>1, <5>2
      <4>2. QED  BY <1>1, <1>7, <4>1
    <3>3. ShiftMask(n, c) = <<h - (h % 1), IF n < WBITS THEN l - (l % p) ELSE 0>>
      BY <1>1, <1>7 DEF ShiftMask
    <3> HIDE DEF h, l, p
    <3>4. h - (h % 1) = h
      BY <1>5, <3>1
    <3>5. (IF n < WBITS THEN l - (l % p) ELSE 0) = l - (l % p)
      BY <3>2
    <3>6. QED  BY <3>3, <3>4, <3>5 DEF Full
  <2>4. g % p = l % p
    <3> DEFINE z == w * h
    <3>1. z \in Int
      BY <1>5, <2>1, SMT
    <3> HIDE DEF h, l, p, w
    <3>2. h * (p * w) = p * z
      BY <1>2, <1>5, <2>1, SMT DEF z
    <3> HIDE DEF z, g
    <3>3. (l + p * z) % p = l % p
      BY <1>2, <1>4, <3>1, ModShift
    <3>4. g = l + p * z
      BY <1>2, <1>4, <1>6, <2>2, <3>1, <3>2, SMT
    <3>5. QED  BY <3>3, <3>4, Zenon
  <2>5. l % p \in Int
    BY <1>2, <1>4, RemainderRange
  <2> HIDE DEF h, l, p, w, g
  <2>6. h * WORD \in Int
    BY <1>3, <1>5, SMT
  <2> DEFINE r == l % p
             H == h * WORD
  <2>7. r \in Int /\ H \in Int /\ g = H + l /\ g % p = r /\ Full(ShiftMask(n, c)) = H + (l - r)
    BY <1>6, <2>3, <2>4, <2>5, <2>6
  <2> HIDE DEF r, H
  <2>8. Full(ShiftMask(n, c)) = g - (g % p)
    BY <1>4, <2>7
  <2>9. QED  BY <2>8 DEF g, p
<1>8. CASE n > WBITS
  <2> DEFINE e == 2^(n - WBITS)
  <2>1. e \in Int /\ e > 0
    BY <1>1, <1>8, PowerInt
  <2>2. p = WORD * e
    <3>1. n - WBITS \in Nat /\ WBITS \in Nat /\ WBITS + (n - WBITS) <= 36 /\ WBITS + (n - WBITS) = n
      BY <1>1, <1>8
    <3>2. 2^(WBITS + (n - WBITS)) = 2^WBITS * e
      BY <3>1, PowerSum, Zenon
    <3>3. QED  BY <3>1, <3>2, Exponents, Zenon
  <2>3. Full(ShiftMask(n, c)) = (h - (h % e)) * WORD
    <3>1. ShiftMask(n, c) = <<h - (h % e), 0>>
      BY <1>1, <1>8 DEF ShiftMask
    <3>2. h % e \in Int
      BY <1>5, <2>1, RemainderRange
    <3> HIDE DEF h, e
    <3>3. (h - (h % e)) * WORD + 0 = (h - (h % e)) * WORD
      BY <1>3, <1>5, <3>2, SMT
    <3>4. QED  BY <3>1, <3>3 DEF Full
  <2> HIDE DEF h, l, p, e, g
  <2>4. g = WORD * h + l /\ g \in Int
    BY <1>3, <1>4, <1>5, <1>6, SMT
  <2>5. g \div WORD = h /\ g % WORD = l
    BY <1>3, <1>4, <1>5, <2>4, Quotient, SMT
  <2>6. g % (WORD * e) = WORD * ((g \div WORD) % e) + (g % WORD)
    BY <1>3, <2>1, <2>4, Nested, Zenon
  <2>7. g % p = WORD * (h % e) + l
    BY <2>2, <2>5, <2>6, Zenon
  <2>8. h % e \in Int
    BY <1>5, <2>1, RemainderRange, Zenon
  <2> DEFINE r == h % e
  <2>9. r \in Int /\ g % p = WORD * r + l /\ Full(ShiftMask(n, c)) = (h - r) * WORD
    BY <2>3, <2>7, <2>8
  <2> HIDE DEF r
  <2>10. (h - r) * WORD = (WORD * h + l) - (WORD * r + l)
    BY <1>3, <1>4, <1>5, <2>9, SMT
  <2>11. Full(ShiftMask(n, c)) = g - (g % p)
    BY <2>4, <2>9, <2>10, Zenon
  <2>12. QED  BY <2>11 DEF g, p
<1>9. QED  BY <1>1, <1>7, <1>8

(* The powers a shift by n < XLEN is about. *)
LEMMA ShiftPowers ==
  ASSUME NEW n \in 0 .. XLEN - 1
  PROVE  LET p == 2^n
             s == 2^(XLEN - n)
         IN  /\ p \in Int /\ p > 0 /\ s \in Int /\ s > 0
             /\ p * s = XMOD /\ 2^(2 * WBITS - n) = s * 16 /\ 2^(n + 4) = 16 * p
<1> DEFINE p == 2^n
           s == 2^(XLEN - n)
<1>1. /\ n \in Int /\ 0 <= n /\ n <= 36 /\ XLEN - n \in Int /\ 0 <= XLEN - n /\ XLEN - n <= 32
      /\ n + 4 <= 36 /\ 2 * WBITS - n = (XLEN - n) + 4
  BY WidthRelations
<1>2. p \in Int /\ p > 0 /\ s \in Int /\ s > 0
  BY <1>1, PowerInt
<1>3. p * s = XMOD
  <2>1. n \in Nat /\ XLEN - n \in Nat /\ n + (XLEN - n) <= 36 /\ n + (XLEN - n) = XLEN
    BY <1>1, WidthRelations
  <2>2. 2^(n + (XLEN - n)) = p * s
    BY <2>1, PowerSum, Zenon
  <2>3. QED  BY <2>1, <2>2, Exponents, Zenon
<1>4. 2^4 = 16
  OBVIOUS
<1>5. 2^((XLEN - n) + 4) = s * 16
  <2>1. XLEN - n \in Nat /\ 4 \in Nat /\ (XLEN - n) + 4 <= 36
    BY <1>1
  <2>2. 2^((XLEN - n) + 4) = s * 2^4
    BY <2>1, PowerSum, Zenon
  <2>3. QED  BY <1>4, <2>2, Zenon
<1>6. 2^(n + 4) = 16 * p
  <2>1. n \in Nat /\ 4 \in Nat /\ n + 4 <= 36
    BY <1>1
  <2>2. 2^(n + 4) = p * 2^4
    BY <2>1, PowerSum, Zenon
  <2> HIDE DEF p
  <2>3. p * 16 = 16 * p
    BY <1>2, SMT
  <2>4. QED  BY <1>4, <2>2, <2>3, Zenon DEF p
<1>7. QED  BY <1>1, <1>2, <1>3, <1>5, <1>6, Zenon

LEMMA ShiftLeftValue ==
  ASSUME NEW a \in RegVal, NEW n \in 0 .. XLEN - 1
  PROVE  Full(ShiftMask(n, LSHA(a, n))) = (Full(a) * 2^n) % XMOD
<1> DEFINE c == LSHA(a, n)
           f == Full(c)
           x == Full(a)
           p == 2^n
           s == 2^(XLEN - n)
           q == s * 16
           u == x % q
           t == x \div q
<1>1. p \in Int /\ p > 0 /\ s \in Int /\ s > 0 /\ p * s = XMOD /\ 2^(2 * WBITS - n) = q
  BY ShiftPowers, Zenon
<1>2. x \in Int /\ 0 <= x /\ x < XMOD
  BY RegFull
<1>3. a \in Word \X Word /\ n \in 0 .. XLEN
  BY RegValPair, WidthRelations
<1>4. f = u * p + t /\ q * p = AMOD
  BY <1>1, <1>3, FullOfLsha, Zenon
<1>5. c \in Word \X Word
  BY <1>3, LshaType
<1>6. q \in Int /\ q > 0
  BY <1>1
<1> HIDE DEF c, f, p, s, q
<1>7. u \in Int /\ t \in Int /\ 0 <= t /\ t < p
  <2>1. x < q * p
    BY <1>1, <1>2, <1>4, Sizes, SMT
  <2>2. 0 <= t /\ t < p /\ t \in Int
    BY <1>1, <1>2, <1>6, <2>1, QuotientRange, Zenon
  <2>3. u \in Int
    BY <1>2, <1>6, RemainderRange, Zenon
  <2>4. QED  BY <2>2, <2>3
<1>8. u % s = x % s
  <2>1. s > 0 /\ 16 \in Int /\ 16 > 0 /\ q = s * 16
    BY <1>1 DEF q
  <2>2. (x % (s * 16)) % s = x % s
    BY <1>1, <1>2, <2>1, ModMultiple, Zenon
  <2>3. QED  BY <2>1, <2>2, Zenon
<1> HIDE DEF u, t, x
<1>9. f \in Int /\ f = p * u + t
  BY <1>1, <1>4, <1>7, SMT
<1>10. f % p = t /\ f \div p = u
  BY <1>1, <1>7, <1>9, Quotient, SMT
<1>11. f % (p * s) = p * ((f \div p) % s) + (f % p)
  BY <1>1, <1>9, Nested, Zenon
<1>12. (f % (p * s)) % p = f % p
  BY <1>1, <1>9, Nested, Zenon
<1> DEFINE r == x % s
<1>13. r \in Int
  BY <1>1, <1>2, RemainderRange, Zenon
<1>14. f % XMOD = p * r + t /\ (f % XMOD) % p = t
  BY <1>1, <1>8, <1>10, <1>11, <1>12, Zenon
<1>15. (p * x) % (p * s) = p * r
  BY <1>1, <1>2, Scale, Zenon
<1> HIDE DEF r
<1>16. x * p = p * x /\ (p * r + t) - t = p * r
  BY <1>1, <1>2, <1>7, <1>13, SMT
<1>17. (f % XMOD) - ((f % XMOD) % p) = (x * p) % XMOD
  BY <1>1, <1>14, <1>15, <1>16, Zenon
<1>18. Full(ShiftMask(n, c)) = (f % XMOD) - ((f % XMOD) % p)
  BY <1>5, ShiftMaskValue, Zenon DEF f, p
<1>19. QED  BY <1>17, <1>18, Zenon DEF c, f, p, x

LEMMA ShiftRightValue ==
  ASSUME NEW a \in RegVal, NEW n \in 0 .. XLEN - 1
  PROVE  Full(RSHA(a, n)) = Full(a) \div 2^n /\ RSHA(a, n) \in RegVal
<1>1. n \in Int /\ 0 <= n /\ n <= 36 /\ n \in 0 .. 36 /\ a \in Word \X Word
  BY RegValPair, WidthRelations
<1>2. Full(a) \in Int /\ 0 <= Full(a) /\ Full(a) < XMOD /\ AMOD = 16 * XMOD /\ XMOD \in Int
  BY RegFull, Sizes
<1>3. 2 * Full(a) < AMOD
  BY <1>2
<1>4. QED  BY <1>1, <1>3, FullOfRsha, RshaReg

(* SRA: the sign is first brought up to bit 35. *)
LEMMA ShiftArithmeticValue ==
  ASSUME NEW a \in RegVal, NEW n \in 0 .. XLEN - 1
  PROVE  /\ Full(RSHA(LSHA(a, 4), n + 4)) % XMOD = (SignedOf(Full(a)) \div 2^n) % XMOD
         /\ RSHA(LSHA(a, 4), n + 4) \in Word \X Word
<1> DEFINE c == LSHA(a, 4)
           f == Full(c)
           x == Full(a)
           p == 2^n
           d == RSHA(c, n + 4)
<1>1. p \in Int /\ p > 0 /\ 2^(n + 4) = 16 * p
  BY ShiftPowers, Zenon
<1>2. x \in Int /\ 0 <= x /\ x < XMOD
  BY RegFull
<1>3. /\ a \in Word \X Word /\ 4 \in 0 .. XLEN /\ 4 \in 0 .. XLEN - 1 /\ n + 4 \in 0 .. 36
      /\ n + 4 \in Int /\ 0 <= n + 4 /\ n + 4 <= 36
  BY RegValPair, WidthRelations
<1>4. XMOD \in Int /\ XMOD > 0 /\ AMOD = 16 * XMOD /\ AMOD \in Int /\ XMOD = 2 * (2 * HIMOD * HALF)
      /\ HIMOD \in Int /\ HALF \in Int
  <2>1. XMOD = HIMOD * (4 * HALF) /\ HIMOD \in Int /\ HALF \in Int
    BY Sizes, Zenon
  <2>2. HIMOD * (4 * HALF) = 2 * (2 * HIMOD * HALF)
    BY <2>1, SMT
  <2>3. QED  BY <2>1, <2>2, Sizes
<1>5. f = 16 * x /\ c \in Word \X Word
  <2> DEFINE q == 2^(2 * WBITS - 4)
  <2>1. Full(LSHA(a, 4)) = (x % q) * 2^4 + (x \div q)
    BY <1>3, FullOfLsha, Zenon
  <2>2. q = XMOD
    <3>1. 2 * WBITS - 4 = XLEN
      BY WidthRelations
    <3>2. QED  BY <3>1, Exponents, Zenon
  <2>3. x % XMOD = x /\ x \div XMOD = 0
    BY <1>2, <1>4, ModSmall, Zenon
  <2>4. 2^4 = 16
    OBVIOUS
  <2>5. f = x * 16 + 0
    BY <2>1, <2>2, <2>3, <2>4, Zenon
  <2>6. QED  BY <1>2, <1>3, <2>5, LshaType
<1> HIDE DEF c, f, x, p
<1>6. /\ 2 * f < AMOD => Full(d) = f \div 2^(n + 4)
      /\ 2 * f >= AMOD => Full(d) = ((f - AMOD) \div 2^(n + 4)) % AMOD
  BY <1>3, <1>5, FullOfRsha, Zenon DEF f
<1>7. d \in Word \X Word
  BY <1>3, <1>5, RshaType
<1> HIDE DEF d
<1>8. \A z \in Int : (16 * z) \div (16 * p) = z \div p
  <2>1. SUFFICES ASSUME NEW z \in Int PROVE (16 * z) \div (16 * p) = z \div p
    OBVIOUS
  <2>2. 16 \in Int /\ 16 > 0
    OBVIOUS
  <2>3. QED  BY <1>1, <2>2, Scale, Zenon
<1> DEFINE h == 2 * HIMOD * HALF
<1>9. h \in Int /\ XMOD = 2 * h
  BY <1>4, SMT
<1> HIDE DEF h
<1>10. XMOD \div 2 = h
  BY <1>9
<1>11. CASE 2 * x < XMOD
  <2>1. 2 * f < AMOD /\ SignedOf(x) = x
    BY <1>2, <1>4, <1>5, <1>9, <1>10, <1>11, SMT DEF SignedOf
  <2>2. Full(d) = x \div p
    BY <1>1, <1>2, <1>5, <1>6, <1>8, <2>1, Zenon
  <2>3. QED  BY <1>7, <2>1, <2>2 DEF d, c, x, p
<1>12. CASE ~(2 * x < XMOD)
  <2>1. 2 * f >= AMOD /\ SignedOf(x) = x - XMOD /\ f - AMOD = 16 * (x - XMOD) /\ x - XMOD \in Int
    BY <1>2, <1>4, <1>5, <1>9, <1>10, <1>12, SMT DEF SignedOf
  <2> DEFINE y == x - XMOD
  <2>2. y \in Int /\ f - AMOD = 16 * y
    BY <2>1
  <2> HIDE DEF y
  <2>3. Full(d) = (y \div p) % AMOD
    BY <1>1, <1>6, <1>8, <2>1, <2>2, Zenon
  <2>4. y \div p \in Int
    BY <1>1, <2>2, RemainderRange, Zenon
  <2>5. ((y \div p) % AMOD) % XMOD = (y \div p) % XMOD
    BY <2>4, ModAccumulator, Zenon
  <2>6. QED  BY <1>7, <2>1, <2>3, <2>5 DEF d, c, x, p, y
<1>13. QED  BY <1>11, <1>12

LEMMA ShamtValue ==
  ASSUME NEW a \in RegVal
  PROVE  Full(a) % XLEN = a[2] % XLEN /\ a[2] % XLEN \in 0 .. XLEN - 1
<1>1. PICK k \in Int : WORD = XLEN * k
  <2>1. CASE BYTEBITS = 2
    BY <2>1, Moduli
  <2>2. CASE BYTEBITS = 4
    <3>1. WORD = XLEN * 64
      BY <2>2, Moduli
    <3>2. QED  BY <3>1
  <2>3. CASE BYTEBITS = 8
    <3>1. WORD = XLEN * 8192
      BY <2>3, Moduli
    <3>2. QED  BY <3>1
  <2>4. QED  BY <2>1, <2>2, <2>3
<1> DEFINE h == a[1]
           l == a[2]
           z == k * h
<1>2. h \in Int /\ l \in Int /\ XLEN \in Int /\ XLEN > 0
  BY WidthRelations, WordInt DEF RegVal
<1>3. Full(a) = h * WORD + l
  BY DEF Full
<1> HIDE DEF h, l
<1>4. z \in Int /\ h * (XLEN * k) = XLEN * z /\ XLEN * z \in Int
  BY <1>2, SMT
<1> HIDE DEF z
<1>5. Full(a) = l + XLEN * z
  BY <1>1, <1>2, <1>3, <1>4
<1>6. (l + XLEN * z) % XLEN = l % XLEN
  BY <1>2, <1>4, ModShift, Zenon
<1>7. l % XLEN \in Int /\ 0 <= l % XLEN /\ l % XLEN < XLEN
  BY <1>2, RemainderRange, Zenon
<1>8. l % XLEN \in 0 .. XLEN - 1
  BY <1>2, <1>7
<1>9. QED  BY <1>5, <1>6, <1>8, Zenon DEF l

(* What an instruction computes on operands of values x and y, the shift      *)
(* count n and the signed value of the first operand.                        *)
LEMMA ShiftMatch ==
  ASSUME TypeOK, Len(program) < HALF, OP_SLL \/ OP_SRL \/ OP_SRA
  PROVE  Oracle!Next
<1>1. status = "run" /\ Insn.op \in {"sll", "srl", "sra"} /\ Insn.op = I.op
  BY DEF OP_SLL, OP_SRL, OP_SRA, Dispatch, Insn, I, Encode
<1>2. I.op \in ROps /\ I.op \notin UpperOps \cup BranchOps \cup StoreOps
  BY <1>1 DEF ROps, UpperOps, BranchOps, StoreOps
<1> DEFINE u == Oracle!V1
           v == Oracle!V2
           x == Full(Src1)
           y == Full(Src2)
           n == Shamt
<1>3. u % XMOD = x /\ u = SignedOf(x) /\ u \in Int /\ Src1 \in RegVal /\ Insn.dest = I.rd
  BY <1>2, FirstOperand
<1>4. v % XMOD = y /\ Src2 \in RegVal
  BY <1>2, SecondOperand
<1>5. Oracle!Mask(u) = x /\ Oracle!Mask(v) = y
  BY <1>3, <1>4, OracleMask, Zenon
<1>6. n \in 0 .. XLEN - 1 /\ y % XLEN = n
  BY <1>4, ShamtValue DEF Shamt
<1>7. x \in Int /\ 2^n \in Int /\ 2^n > 0
  BY <1>3, <1>6, RegFull, ShiftPowers, Zenon
<1>8. Oracle!XLEN = XLEN
  BY OracleSizes
<1> HIDE DEF u, v, x, y, n
<1>9. CASE OP_SLL
  <2> DEFINE a == ShiftMask(n, LSHA(Src1, n))
             w == x * 2^n
  <2>1. I.op = "sll" /\ STORE_RESULT_PREMASKED(a)
    BY <1>1, <1>9 DEF OP_SLL, Dispatch, n
  <2>2. a \in RegVal
    BY <1>3, <1>6, RegValPair, LshaType, ShiftMaskType
  <2>3. Full(a) = w % XMOD
    BY <1>3, <1>6, ShiftLeftValue DEF x
  <2>4. Oracle!Compute(I.op, u, v) = w
    BY <1>5, <1>6, <1>8, <2>1 DEF Oracle!Compute
  <2>5. w \in Int
    <3> DEFINE p == 2^n
    <3>1. p \in Int
      BY <1>7
    <3> HIDE DEF p
    <3>2. x * p \in Int
      BY <1>7, <3>1, SMT
    <3>3. QED  BY <3>2 DEF p
  <2> HIDE DEF a, w
  <2>6. Result(w)
    BY <1>1, <1>3, <2>1, <2>2, <2>3, <2>5, ResultOfPremasked
  <2>7. QED  BY <1>1, <1>2, <2>4, <2>6, RTypeMatch DEF u, v
<1>10. CASE OP_SRL
  <2> DEFINE a == RSHA(Src1, n)
             w == Full(a)
  <2>1. I.op = "srl" /\ STORE_RESULT_PREMASKED(a)
    BY <1>1, <1>10 DEF OP_SRL, Dispatch, n
  <2>2. a \in RegVal /\ w = x \div 2^n
    BY <1>3, <1>6, ShiftRightValue DEF x
  <2>3. w \in Int /\ w % XMOD = w
    BY <2>2, PremaskedValue
  <2>4. Oracle!Compute(I.op, u, v) = w
    BY <1>5, <1>6, <1>8, <2>1, <2>2 DEF Oracle!Compute
  <2>5. Full(a) = w % XMOD
    BY <2>3
  <2> HIDE DEF a, w
  <2>6. Result(w)
    BY <1>1, <1>3, <2>1, <2>2, <2>3, <2>5, ResultOfPremasked
  <2>7. QED  BY <1>1, <1>2, <2>4, <2>6, RTypeMatch DEF u, v
<1>11. CASE OP_SRA
  <2> DEFINE a == RSHA(LSHA(Src1, 4), n + 4)
             w == u \div 2^n
  <2>1. I.op = "sra" /\ STORE_RESULT(a)
    BY <1>1, <1>11 DEF OP_SRA, Dispatch, n
  <2>2. a \in Word \X Word /\ Full(a) % XMOD = w % XMOD
    BY <1>3, <1>6, ShiftArithmeticValue DEF x
  <2>3. a \in Int \X Word
    BY <2>2, PairInt
  <2>4. Oracle!Compute(I.op, u, v) = w
    BY <1>5, <1>6, <1>8, <2>1 DEF Oracle!Compute
  <2>5. w \in Int
    BY <1>3, <1>7, RemainderRange, Zenon
  <2> HIDE DEF a, w
  <2>6. Result(w)
    BY <1>1, <1>3, <2>1, <2>2, <2>3, <2>5, ResultOfStore
  <2>7. QED  BY <1>1, <1>2, <2>4, <2>6, RTypeMatch DEF u, v
<1>12. QED  BY <1>9, <1>10, <1>11

LEMMA ShiftImmediateMatch ==
  ASSUME TypeOK, Len(program) < HALF, OP_SLLI \/ OP_SRLI \/ OP_SRAI
  PROVE  Oracle!Next
<1>1. status = "run" /\ Insn.op \in {"slli", "srli", "srai"} /\ Insn.op = I.op
  BY DEF OP_SLLI, OP_SRLI, OP_SRAI, Dispatch, Insn, I, Encode
<1>2. /\ I.op \in (IOps \ {"jalr"}) \cup ShiftOps /\ I.op \in ShiftOps
      /\ I.op \notin UpperOps \cup BranchOps \cup StoreOps \cup ROps \cup IOps \cup LoadOps
  BY <1>1 DEF IOps, ShiftOps, UpperOps, BranchOps, StoreOps, ROps, LoadOps
<1> DEFINE u == Oracle!V1
           n == I.imm
           x == Full(Src1)
<1>3. u % XMOD = x /\ u = SignedOf(x) /\ u \in Int /\ Src1 \in RegVal /\ Insn.dest = I.rd
      /\ Insn.word2 = Word2(I)
  BY <1>2, FirstOperand
<1>4. n \in 0 .. XLEN - 1
  BY <1>2, OracleInsn DEF Instruction, Imms
<1>5. n \in Int /\ 0 <= n /\ n < XLEN /\ n < WORD /\ n < XMOD /\ XLEN > 0 /\ XLEN \in Int
      /\ WORD \in Int /\ XMOD \in Int
  <2>1. XLEN \in Int /\ XLEN < WORD /\ WORD < XMOD /\ WORD \in Int /\ XMOD \in Int /\ 0 < XLEN
    BY Moduli
  <2>2. QED  BY <1>4, <2>1
<1>6. n % WORD = n /\ n % XMOD = n /\ n % XLEN = n
  BY <1>5, ModSmall, Zenon
<1>7. x \in Int /\ 2^n \in Int /\ 2^n > 0
  BY <1>3, <1>4, RegFull, ShiftPowers, Zenon
<1>8. Oracle!XLEN = XLEN /\ Oracle!Mask(u) = x /\ Oracle!Mask(n) = n
  BY <1>3, <1>6, OracleSizes, OracleMask, Zenon
<1>9. I.op # "srai" => Insn.word2 = n
  <2>1. I.op # "srai" => Word2(I) = n % WORD
    BY <1>1, <1>2 DEF Word2
  <2>2. QED  BY <1>3, <1>6, <2>1
<1>10. I.op = "srai" => Insn.word2 = n + 4
  BY <1>2, <1>3 DEF Word2
<1> HIDE DEF u, x, n
<1>11. CASE OP_SLLI
  <2> DEFINE a == ShiftMask(n, LSHA(Src1, n))
             w == x * 2^n
  <2>1. I.op = "slli" /\ STORE_RESULT_PREMASKED(a)
    BY <1>1, <1>9, <1>11 DEF OP_SLLI, Dispatch
  <2>2. a \in RegVal
    BY <1>3, <1>4, RegValPair, LshaType, ShiftMaskType
  <2>3. Full(a) = w % XMOD
    BY <1>3, <1>4, ShiftLeftValue DEF x
  <2>4. Oracle!Compute(I.op, u, n) = w
    BY <1>6, <1>8, <2>1 DEF Oracle!Compute
  <2>5. w \in Int
    <3> DEFINE p == 2^n
    <3>1. p \in Int
      BY <1>7
    <3> HIDE DEF p
    <3>2. x * p \in Int
      BY <1>7, <3>1, SMT
    <3>3. QED  BY <3>2 DEF p
  <2> HIDE DEF a, w
  <2>6. Result(w)
    BY <1>1, <1>3, <2>1, <2>2, <2>3, <2>5, ResultOfPremasked
  <2>7. QED  BY <1>1, <1>2, <2>4, <2>6, ITypeMatch DEF u, n
<1>12. CASE OP_SRLI
  <2> DEFINE a == RSHA(Src1, n)
             w == Full(a)
  <2>1. I.op = "srli" /\ STORE_RESULT_PREMASKED(a)
    BY <1>1, <1>9, <1>12 DEF OP_SRLI, Dispatch
  <2>2. a \in RegVal /\ w = x \div 2^n
    BY <1>3, <1>4, ShiftRightValue DEF x
  <2>3. w \in Int /\ w % XMOD = w
    BY <2>2, PremaskedValue
  <2>4. Oracle!Compute(I.op, u, n) = w
    BY <1>6, <1>8, <2>1, <2>2 DEF Oracle!Compute
  <2>5. Full(a) = w % XMOD
    BY <2>3
  <2> HIDE DEF a, w
  <2>6. Result(w)
    BY <1>1, <1>3, <2>1, <2>2, <2>3, <2>5, ResultOfPremasked
  <2>7. QED  BY <1>1, <1>2, <2>4, <2>6, ITypeMatch DEF u, n
<1>13. CASE OP_SRAI
  <2> DEFINE a == RSHA(LSHA(Src1, 4), n + 4)
             w == u \div 2^n
  <2>1. I.op = "srai" /\ STORE_RESULT(a)
    BY <1>1, <1>10, <1>13 DEF OP_SRAI, Dispatch
  <2>2. a \in Word \X Word /\ Full(a) % XMOD = w % XMOD
    BY <1>3, <1>4, ShiftArithmeticValue DEF x
  <2>3. a \in Int \X Word
    BY <2>2, PairInt
  <2>4. Oracle!Compute(I.op, u, n) = w
    BY <1>6, <1>8, <2>1 DEF Oracle!Compute
  <2>5. w \in Int
    BY <1>3, <1>7, RemainderRange, Zenon
  <2> HIDE DEF a, w
  <2>6. Result(w)
    BY <1>1, <1>3, <2>1, <2>2, <2>3, <2>5, ResultOfStore
  <2>7. QED  BY <1>1, <1>2, <2>4, <2>6, ITypeMatch DEF u, n
<1>14. QED  BY <1>11, <1>12, <1>13

-----------------------------------------------------------------------------
(* 07-comparisons *)

LEMMA SignBitValue ==
  ASSUME NEW a \in RegVal
  PROVE  SignBit(a) <=> Full(a) >= XMOD \div 2
<1> DEFINE g == a[1]
           l == a[2]
           h == HIMOD \div 2
<1>1. /\ g \in Int /\ 0 <= g /\ g < HIMOD /\ l \in Int /\ 0 <= l /\ l < WORD
      /\ WORD \in Int /\ WORD > 0 /\ XMOD = HIMOD * WORD
  BY Sizes, WordInt, Widths DEF RegVal
<1>2. h \in Int /\ h > 0 /\ HIMOD = 2 * h
  BY Widths
<1> DEFINE H == h * WORD
<1>3. H \in Int /\ XMOD = 2 * H
  <2> HIDE DEF h
  <2>1. (2 * h) * WORD = 2 * (h * WORD) /\ h * WORD \in Int
    BY <1>1, <1>2, SMT
  <2>2. QED  BY <1>1, <1>2, <2>1, Zenon
<1>4. SignBit(a) <=> (g \div h) % 2 = 1
  BY Zenon DEF SignBit, BitSet
<1> HIDE DEF g, l, h
<1>5. g \div h \in {0, 1} /\ (g >= h <=> g \div h = 1)
  <2> DEFINE k == g \div h
             r == g % h
  <2>1. g < h * 2
    BY <1>1, <1>2
  <2>2. k \in Int /\ 0 <= k /\ k < 2
    <3>1. g \in Int /\ 0 <= g /\ h \in Int /\ h > 0 /\ 2 \in Int
      BY <1>1, <1>2
    <3>2. QED  BY <2>1, <3>1, QuotientRange, Zenon
  <2>3. r \in Int /\ 0 <= r /\ r < h
    BY <1>1, <1>2, RemainderRange, Zenon
  <2>4. r = g - h * k
    BY <1>1, <1>2, Remainder, Zenon
  <2> HIDE DEF k, r
  <2>5. k = 0 \/ k = 1
    BY <2>2
  <2>6. CASE k = 0
    <3>1. h * 0 = 0
      BY <1>2, SMT
    <3>2. g = r
      BY <1>1, <2>3, <2>4, <2>6, <3>1
    <3>3. QED  BY <1>2, <2>3, <2>6, <3>2 DEF k
  <2>7. CASE k = 1
    <3>1. h * 1 = h
      BY <1>2, SMT
    <3>2. g = r + h
      BY <1>1, <1>2, <2>3, <2>4, <2>7, <3>1
    <3>3. QED  BY <1>2, <2>3, <2>7, <3>2 DEF k
  <2>8. QED  BY <2>5, <2>6, <2>7
<1>6. SignBit(a) <=> g >= h
  BY <1>4, <1>5
<1>7. g >= h <=> g * WORD + l >= h * WORD
  <2>1. CASE g >= h
    <3>1. (g - h) * WORD >= 0 /\ (g - h) * WORD = g * WORD - h * WORD
          /\ g * WORD \in Int /\ h * WORD \in Int
      BY <1>1, <1>2, <2>1, SMT
    <3>2. QED  BY <1>1, <2>1, <3>1, SMT
  <2>2. CASE ~(g >= h)
    <3>1. (h - (g + 1)) * WORD >= 0 /\ (h - (g + 1)) * WORD = h * WORD - (g * WORD + WORD)
          /\ g * WORD \in Int /\ h * WORD \in Int
      BY <1>1, <1>2, <2>2, SMT
    <3>2. QED  BY <1>1, <2>2, <3>1, SMT
  <2>3. QED  BY <2>1, <2>2
<1> HIDE DEF H
<1>8. XMOD \div 2 = H
  BY <1>3
<1>9. Full(a) = g * WORD + l
  BY DEF Full, g, l
<1>10. QED  BY <1>6, <1>7, <1>8, <1>9 DEF H

LEMMA SignedLessValue ==
  ASSUME NEW a \in RegVal, NEW b \in RegVal
  PROVE  signed_lt(a, b) <=> SignedOf(Full(a)) < SignedOf(Full(b))
<1> DEFINE x == Full(a)
           y == Full(b)
           d == SUBA(a, b)
           f == Full(d)
<1>1. /\ x \in Int /\ 0 <= x /\ x < XMOD /\ y \in Int /\ 0 <= y /\ y < XMOD
      /\ XMOD \in Int /\ XMOD > 0 /\ AMOD = 16 * XMOD /\ AMOD \in Int /\ AMOD > 0
  BY RegFull, Sizes
<1>2. a \in Int \X Int /\ b \in Int \X Int
  BY RegValPair, PairInt
<1>3. d \in Word \X Word /\ f = (x - y) % AMOD
  BY <1>2, SubaType, FullOfSuba
<1>4. Neg(d[1]) <=> 2 * f >= AMOD
  BY <1>3, NegFull, Zenon
<1>5. (SignBit(a) <=> x >= XMOD \div 2) /\ (SignBit(b) <=> y >= XMOD \div 2)
  BY SignBitValue
<1>6. /\ SignBit(a) \in BOOLEAN /\ SignBit(b) \in BOOLEAN
      /\ signed_lt(a, b) = IF SignBit(a) # SignBit(b) THEN SignBit(a) ELSE Neg(d[1])
  <2>1. SignBit(a) \in BOOLEAN /\ SignBit(b) \in BOOLEAN
    BY Zenon DEF SignBit, BitSet
  <2>2. QED  BY <2>1, Zenon DEF signed_lt
<1>0. /\ (SignBit(a) <=> SignBit(b)) => (signed_lt(a, b) <=> Neg(d[1]))
      /\ ~(SignBit(a) <=> SignBit(b)) => (signed_lt(a, b) <=> SignBit(a))
  BY <1>6, Zenon
<1> HIDE DEF x, y, d, f
<1>7. f = IF x >= y THEN x - y ELSE (x - y) + AMOD
  <2>1. CASE x >= y
    <3>1. x - y \in Int /\ 0 <= x - y /\ x - y < AMOD
      BY <1>1, <2>1
    <3>2. (x - y) % AMOD = x - y
      BY <1>1, <3>1, ModSmall, Zenon
    <3>3. QED  BY <1>3, <2>1, <3>2
  <2>2. CASE ~(x >= y)
    <3> DEFINE z == x - y
               w == z + AMOD
    <3>1. z \in Int /\ w \in Int /\ 0 <= w /\ w < AMOD /\ z = AMOD * (-1) + w /\ -1 \in Int
      BY <1>1, <2>2
    <3> HIDE DEF z, w
    <3>2. z % AMOD = w
      BY <1>1, <3>1, Quotient, SMT
    <3>3. QED  BY <1>3, <2>2, <3>2 DEF z, w
  <2>3. QED  BY <2>1, <2>2
<1>8. Neg(d[1]) <=> x < y
  BY <1>1, <1>4, <1>7
<1> DEFINE p == XMOD \div 2
<1>9. p \in Int
  BY <1>1
<1>10. /\ SignedOf(x) = IF x >= p THEN x - XMOD ELSE x
       /\ SignedOf(y) = IF y >= p THEN y - XMOD ELSE y
  BY Zenon DEF SignedOf
<1>11. (SignBit(a) <=> x >= p) /\ (SignBit(b) <=> y >= p)
  BY <1>5
<1> HIDE DEF p
<1>12. CASE x >= p /\ y >= p
  <2>1. signed_lt(a, b) <=> x < y
    BY <1>0, <1>8, <1>11, <1>12
  <2>2. SignedOf(x) < SignedOf(y) <=> x < y
    BY <1>1, <1>9, <1>10, <1>12
  <2>3. QED  BY <2>1, <2>2 DEF x, y
<1>13. CASE ~(x >= p) /\ ~(y >= p)
  <2>1. signed_lt(a, b) <=> x < y
    BY <1>0, <1>8, <1>11, <1>13
  <2>2. SignedOf(x) < SignedOf(y) <=> x < y
    BY <1>1, <1>9, <1>10, <1>13
  <2>3. QED  BY <2>1, <2>2 DEF x, y
<1>14. CASE x >= p /\ ~(y >= p)
  <2>1. signed_lt(a, b)
    BY <1>0, <1>11, <1>14
  <2>2. SignedOf(x) < SignedOf(y)
    BY <1>1, <1>9, <1>10, <1>14
  <2>3. QED  BY <2>1, <2>2 DEF x, y
<1>15. CASE ~(x >= p) /\ y >= p
  <2>1. ~signed_lt(a, b)
    BY <1>0, <1>11, <1>15
  <2>2. ~(SignedOf(x) < SignedOf(y))
    BY <1>1, <1>9, <1>10, <1>15
  <2>3. QED  BY <2>1, <2>2 DEF x, y
<1>16. QED  BY <1>12, <1>13, <1>14, <1>15

LEMMA UnsignedLessValue ==
  ASSUME NEW a \in RegVal, NEW b \in RegVal
  PROVE  unsigned_lt(a, b) <=> Full(a) < Full(b)
<1> DEFINE x == Full(a)
           y == Full(b)
           c == <<SLSET(a[1], HALF), a[2]>>
           d == SUBA(c, b)
           f == Full(d)
           e == LSHA(d, 1)
<1>1. /\ x \in Int /\ 0 <= x /\ x < XMOD /\ y \in Int /\ 0 <= y /\ y < XMOD
      /\ XMOD \in Int /\ XMOD > 0 /\ AMOD = 16 * XMOD /\ AMOD \in Int /\ AMOD > 0
  BY RegFull, Sizes
<1>2. SLSET(a[1], HALF) = a[1] + HALF /\ a[1] \in Int /\ a[2] \in Int
  <2>1. HALF \in Weights /\ HALF \in Int /\ HALF * 1 = HALF /\ 2 * HALF <= WORD /\ WORD \in Int
    <3>1. HALF \in {16, 256, 65536} /\ HALF \in Int
      BY Widths
    <3>2. QED  BY <3>1, Sizes, SMT DEF Weights
  <2>2. a[1] \in Int /\ 0 <= a[1] /\ a[1] < HALF /\ a[1] \in Word /\ a[2] \in Int
    BY Widths, RegValPair, WordInt DEF RegVal
  <2>3. 1 \in Word /\ a[1] + HALF * 1 < WORD
    <3>1. 1 \in Word
      BY Widths DEF Word
    <3>2. QED  BY <2>1, <2>2, <3>1
  <2>4. SLSET(a[1], HALF * 1) = a[1] + HALF * 1
    <3> DEFINE g == a[1]
    <3>1. HALF \in Weights /\ g \in Word /\ 1 \in Word /\ g < HALF /\ g + HALF * 1 < WORD
      BY <2>1, <2>2, <2>3
    <3> HIDE DEF g
    <3>2. SLSET(g, HALF * 1) = g + HALF * 1
      BY <3>1, OrDisjoint
    <3>3. QED  BY <3>2 DEF g
  <2>5. QED  BY <2>1, <2>2, <2>4
<1>3. Full(c) = x + 4 * XMOD
  <2> DEFINE h == a[1]
             l == a[2]
  <2>1. Full(c) = (h + HALF) * WORD + l /\ x = h * WORD + l
    BY <1>2 DEF Full
  <2>2. h \in Int /\ l \in Int
    BY <1>2
  <2> HIDE DEF h, l, x, c
  <2>3. HALF * WORD = 4 * (HIMOD * WORD) /\ HIMOD * WORD \in Int /\ XMOD = HIMOD * WORD
        /\ HALF \in Int /\ WORD \in Int
    <3>1. HALF = 4 * HIMOD /\ HALF \in Int /\ HIMOD \in Int /\ WORD \in Int /\ XMOD = HIMOD * WORD
      BY Sizes
    <3>2. (4 * HIMOD) * WORD = 4 * (HIMOD * WORD) /\ HIMOD * WORD \in Int
      BY <3>1, SMT
    <3>3. QED  BY <3>1, <3>2, Zenon
  <2>4. (h + HALF) * WORD + l = (h * WORD + l) + HALF * WORD
    BY <2>2, <2>3, SMT
  <2>5. QED  BY <2>1, <2>3, <2>4, Zenon
<1>4. c \in Int \X Int /\ b \in Int \X Int
  <2>1. HALF \in Int
    BY Sizes
  <2>2. QED  BY <1>2, <2>1, RegValPair, PairInt
<1>5. d \in Word \X Word /\ f = (Full(c) - y) % AMOD
  BY <1>4, SubaType, FullOfSuba
<1>6. 1 \in 0 .. XLEN /\ 1 \in 0 .. XLEN - 1 /\ 2 * WBITS - 1 = XLEN + 3
  BY WidthRelations
<1>7. e \in Word \X Word
  BY <1>5, <1>6, LshaType
<1>8. unsigned_lt(a, b) <=> ~Neg(e[1])
  BY Zenon DEF unsigned_lt
<1>9. Neg(e[1]) <=> 2 * Full(e) >= AMOD
  BY <1>7, NegFull, Zenon
<1> DEFINE q == 2^(2 * WBITS - 1)
<1>10. Full(e) = (f % q) * 2^1 + (f \div q)
  BY <1>5, <1>6, FullOfLsha, Zenon
<1>11. q = 8 * XMOD
  <2>1. XLEN \in Nat /\ 3 \in Nat /\ XLEN + 3 <= 36
    BY WidthRelations
  <2>2. 2^(XLEN + 3) = 2^XLEN * 2^3
    BY <2>1, PowerSum, Zenon
  <2>3. 2^3 = 8
    OBVIOUS
  <2>4. q = XMOD * 8
    BY <1>6, <2>2, <2>3, Exponents, Zenon
  <2>5. QED  BY <1>1, <2>4, SMT
<1> HIDE DEF x, y, c, d, f, e, q
<1>12. f = (x + 4 * XMOD) - y
  <2> DEFINE z == (x + 4 * XMOD) - y
  <2>1. z \in Int /\ 0 <= z /\ z < AMOD
    BY <1>1
  <2>2. z % AMOD = z
    BY <1>1, <2>1, ModSmall, Zenon
  <2>3. QED  BY <1>3, <1>5, <2>2
<1>13. f \in Int /\ 0 <= f /\ f < q /\ q \in Int
  BY <1>1, <1>11, <1>12
<1>14. f % q = f /\ f \div q = 0
  BY <1>13, ModSmall, Zenon
<1>15. 2^1 = 2
  OBVIOUS
<1>16. Full(e) = f * 2 + 0
  BY <1>10, <1>14, <1>15, Zenon
<1>17. Neg(e[1]) <=> x >= y
  BY <1>1, <1>9, <1>12, <1>13, <1>16
<1>18. QED  BY <1>1, <1>8, <1>17 DEF x, y

LEMMA SignedImmediate ==
  ASSUME NEW k \in Int, 0 <= 2 * k + WORD, 2 * k < WORD
  PROVE  SignedOf(k % XMOD) = k
<1>1. XMOD \in Int /\ XMOD > 0 /\ WORD \in Int /\ WORD > 0 /\ 4 * WORD <= XMOD
  <2>1. HIMOD \in Int /\ HIMOD >= 4 /\ WORD \in Int /\ WORD > 0 /\ XMOD = HIMOD * WORD
        /\ XMOD \in Int /\ XMOD > 0
    BY Sizes, Widths
  <2>2. (HIMOD - 4) * WORD >= 0 /\ (HIMOD - 4) * WORD = HIMOD * WORD - 4 * WORD
    BY <2>1, SMT
  <2>3. QED  BY <2>1, <2>2, SMT
<1> DEFINE p == XMOD \div 2
<1>2. p \in Int /\ 2 * p <= XMOD /\ XMOD <= 2 * p + 1
  BY <1>1
<1>3. CASE 0 <= k
  <2>1. k < XMOD
    BY <1>1, <1>3
  <2>2. k % XMOD = k
    BY <1>1, <1>3, <2>1, ModSmall, Zenon
  <2>3. ~(k >= p)
    BY <1>1, <1>2
  <2>4. QED  BY <2>2, <2>3, Zenon DEF SignedOf
<1>4. CASE k < 0
  <2> DEFINE w == k + XMOD
  <2>1. w \in Int /\ 0 <= w /\ w < XMOD /\ k = XMOD * (-1) + w /\ -1 \in Int /\ w >= p
        /\ w - XMOD = k
    BY <1>1, <1>2, <1>4
  <2> HIDE DEF w, p
  <2>2. k % XMOD = w
    BY <1>1, <2>1, Quotient, SMT
  <2>3. QED  BY <2>1, <2>2, Zenon DEF SignedOf, p
<1>5. QED  BY <1>3, <1>4

LEMMA BoolMatch ==
  ASSUME TypeOK, Len(program) < HALF, status = "run", Insn.dest = I.rd,
         NEW p, NEW q, p <=> q, STORE_BOOL(p)
  PROVE  Result(Oracle!BoolToInt(q))
<1> DEFINE al == IF p THEN 1 ELSE 0
<1>1. al = Oracle!BoolToInt(q) /\ al \in {0, 1}
  BY DEF Oracle!BoolToInt
<1>2. al \in Word
  BY <1>1, WordBound DEF Word
<1>3. al \in Int /\ al % XMOD = al
  <2>1. al \in Int /\ 0 <= al /\ al < XMOD /\ XMOD \in Int
    BY <1>1, Sizes
  <2> HIDE DEF al
  <2>2. QED  BY <2>1, ModSmall, Zenon
<1>4. STORE_RESULT_LOWER(al)
  BY DEF STORE_BOOL
<1> HIDE DEF al
<1>5. Result(al)
  BY <1>2, <1>3, <1>4, ResultOfLower
<1>6. QED  BY <1>1, <1>5, Zenon

LEMMA CompareMatch ==
  ASSUME TypeOK, Len(program) < HALF, OP_SLT \/ OP_SLTU
  PROVE  Oracle!Next
<1>1. status = "run" /\ Insn.op \in {"slt", "sltu"} /\ Insn.op = I.op
  BY DEF OP_SLT, OP_SLTU, Dispatch, Insn, I, Encode
<1>2. I.op \in ROps /\ I.op \notin UpperOps \cup BranchOps \cup StoreOps
  BY <1>1 DEF ROps, UpperOps, BranchOps, StoreOps
<1> DEFINE u == Oracle!V1
           v == Oracle!V2
           x == Full(Src1)
           y == Full(Src2)
<1>3. u % XMOD = x /\ u = SignedOf(x) /\ Src1 \in RegVal /\ Insn.dest = I.rd
  BY <1>2, FirstOperand
<1>4. v % XMOD = y /\ v = SignedOf(y) /\ Src2 \in RegVal
  BY <1>2, SecondOperand
<1>5. Oracle!Mask(u) = x /\ Oracle!Mask(v) = y
  BY <1>3, <1>4, OracleMask, Zenon
<1> HIDE DEF u, v, x, y
<1>6. CASE OP_SLT
  <2>1. I.op = "slt" /\ STORE_BOOL(signed_lt(Src1, Src2))
    BY <1>1, <1>6 DEF OP_SLT, Dispatch
  <2>2. signed_lt(Src1, Src2) <=> u < v
    BY <1>3, <1>4, SignedLessValue DEF x, y
  <2>3. Result(Oracle!BoolToInt(u < v))
    BY <1>1, <1>3, <2>1, <2>2, BoolMatch
  <2>4. Oracle!Compute(I.op, u, v) = Oracle!BoolToInt(u < v)
    BY <2>1 DEF Oracle!Compute
  <2>5. QED  BY <1>1, <1>2, <2>3, <2>4, RTypeMatch DEF u, v
<1>7. CASE OP_SLTU
  <2>1. I.op = "sltu" /\ STORE_BOOL(unsigned_lt(Src1, Src2))
    BY <1>1, <1>7 DEF OP_SLTU, Dispatch
  <2>2. unsigned_lt(Src1, Src2) <=> x < y
    BY <1>3, <1>4, UnsignedLessValue DEF x, y
  <2>3. Result(Oracle!BoolToInt(x < y))
    BY <1>1, <1>3, <2>1, <2>2, BoolMatch
  <2>4. Oracle!Compute(I.op, u, v) = Oracle!BoolToInt(x < y)
    BY <1>5, <2>1 DEF Oracle!Compute
  <2>5. QED  BY <1>1, <1>2, <2>3, <2>4, RTypeMatch DEF u, v
<1>8. QED  BY <1>6, <1>7

LEMMA CompareImmediateMatch ==
  ASSUME TypeOK, Len(program) < HALF, OP_SLTI \/ OP_SLTIU
  PROVE  Oracle!Next
<1>1. status = "run" /\ Insn.op \in {"slti", "sltiu"} /\ Insn.op = I.op
  BY DEF OP_SLTI, OP_SLTIU, Dispatch, Insn, I, Encode
<1>2. /\ I.op \in (IOps \ {"jalr"}) \cup ShiftOps /\ I.op \in IOps \ {"jalr", "addi"}
      /\ I.op \notin UpperOps \cup BranchOps \cup StoreOps
  BY <1>1 DEF IOps, ShiftOps, UpperOps, BranchOps, StoreOps
<1> DEFINE u == Oracle!V1
           v == I.imm
           x == Full(Src1)
           y == Full(Imm14)
<1>3. u % XMOD = x /\ u = SignedOf(x) /\ Src1 \in RegVal /\ Insn.dest = I.rd
  BY <1>2, FirstOperand
<1>4. v % XMOD = y /\ Imm14 \in RegVal
  BY <1>2, ImmediateOperand
<1>5. Oracle!Mask(u) = x /\ Oracle!Mask(v) = y
  BY <1>3, <1>4, OracleMask, Zenon
<1>6. SignedOf(y) = v
  <2>1. v \in Int /\ 0 <= 2 * v + WORD /\ 2 * v < WORD
    BY <1>2, ImmRange
  <2>2. SignedOf(v % XMOD) = v
    BY <2>1, SignedImmediate
  <2>3. QED  BY <1>4, <2>2, Zenon
<1> HIDE DEF u, v, x, y
<1>7. CASE OP_SLTI
  <2>1. I.op = "slti" /\ STORE_BOOL(signed_lt(Src1, Imm14))
    BY <1>1, <1>7 DEF OP_SLTI, Dispatch
  <2>2. signed_lt(Src1, Imm14) <=> u < v
    BY <1>3, <1>4, <1>6, SignedLessValue DEF x, y
  <2>3. Result(Oracle!BoolToInt(u < v))
    BY <1>1, <1>3, <2>1, <2>2, BoolMatch
  <2>4. Oracle!Compute(I.op, u, v) = Oracle!BoolToInt(u < v)
    BY <2>1 DEF Oracle!Compute
  <2>5. QED  BY <1>1, <1>2, <2>3, <2>4, ITypeMatch DEF u, v
<1>8. CASE OP_SLTIU
  <2>1. I.op = "sltiu" /\ STORE_BOOL(unsigned_lt(Src1, Imm14))
    BY <1>1, <1>8 DEF OP_SLTIU, Dispatch
  <2>2. unsigned_lt(Src1, Imm14) <=> x < y
    BY <1>3, <1>4, UnsignedLessValue DEF x, y
  <2>3. Result(Oracle!BoolToInt(x < y))
    BY <1>1, <1>3, <2>1, <2>2, BoolMatch
  <2>4. Oracle!Compute(I.op, u, v) = Oracle!BoolToInt(x < y)
    BY <1>5, <2>1 DEF Oracle!Compute
  <2>5. QED  BY <1>1, <1>2, <2>3, <2>4, ITypeMatch DEF u, v
<1>9. QED  BY <1>7, <1>8

-----------------------------------------------------------------------------
(* 08-branches *)

(* A one's-complement sum of the offset in words and PC_OFFSET. *)
LEMMA GotoOffset ==
  ASSUME TypeOK, Len(program) < HALF, status = "run", I.op \in BranchOps \cup {"jal"},
         I.imm % 2 = 0, BRANCH_TAKE
  PROVE  Oracle!Goto(2 * pc + I.imm)
<1> DEFINE n == Len(program)
           m == I.imm
           d == I.imm \div 2
           t == 2 * pc + I.imm
<1>0. /\ n \in Nat /\ pc \in Int /\ 0 <= pc /\ pc + 2 <= 2 * n /\ 2 * n + 2 <= 2 * HALF
      /\ 2 * HALF + 2 * HALF = WORD /\ HALF \in Int /\ HALF >= 16
      /\ WORD <= XMOD /\ WORD \in Int /\ XMOD \in Int
  BY ProgramBound, Zenon
<1>1. 2 * WORD <= XMOD
  <2>1. HIMOD \in Int /\ HIMOD >= 4 /\ XMOD = HIMOD * WORD /\ WORD > 0
    BY Sizes, Widths
  <2>2. (HIMOD - 2) * WORD >= 0 /\ (HIMOD - 2) * WORD = HIMOD * WORD - 2 * WORD
    BY <1>0, <2>1, SMT
  <2>3. QED  BY <1>0, <2>1, <2>2, SMT
<1>2. m \in Int /\ 0 <= 2 * m + WORD /\ 2 * m < WORD
  <2>1. m \in Offset
    BY OracleInsn DEF Instruction, Imms, IOps, LoadOps, StoreOps, ShiftOps, BranchOps
  <2>2. WORD \div 2 = 2 * HALF /\ HALF \in Int /\ WORD = 4 * HALF
    BY Sizes
  <2> HIDE DEF m
  <2>3. m \in -(2 * HALF) .. 2 * HALF - 1
    BY <2>1, <2>2, Zenon DEF Offset
  <2>4. QED  BY <2>2, <2>3
<1>3. d \in Int /\ m = 2 * d
  BY <1>2
<1>4. Insn.word2 = IF d < 0 THEN (d - 1) % WORD ELSE d
  BY DEF Insn, I, Encode, Word2, ROps, BranchOps, PcDelta
<1>5. FetchAt(ADDAL(Insn.word2, pc))
  BY DEF BRANCH_TAKE
<1>6. t = 2 * pc + 2 * d /\ t \in Int
  BY <1>0, <1>3
<1>7. XMOD > 0
  BY <1>0
<1> HIDE DEF n, m, d, t
<1>8. CASE 0 <= d + pc
  <2> DEFINE w == d + pc
  <2>1. w \in Int /\ 0 <= w /\ w < WORD - 1 /\ t = 2 * w /\ 0 <= t /\ t < XMOD
    BY <1>0, <1>1, <1>2, <1>3, <1>6, <1>8
  <2>2. ADDAL(Insn.word2, pc) = w
    <3>1. CASE 0 <= d
      BY <1>0, <1>4, <2>1, <3>1, <1>3 DEF ADDAL
    <3>2. CASE d < 0
      <4> DEFINE e == (d - 1) + WORD
                 c == d - 1
      <4>1. e \in Int /\ 0 <= e /\ e < WORD /\ c \in Int /\ c = WORD * (-1) + e /\ -1 \in Int
            /\ WORD > 0 /\ e + pc >= WORD - 1 /\ e + pc - (WORD - 1) = w
        BY <1>0, <1>2, <1>3, <1>8, <3>2
      <4>2. Insn.word2 = c % WORD
        BY <1>4, <3>2
      <4> HIDE DEF e, c, w
      <4>3. c % WORD = e
        BY <1>0, <4>1, Quotient, SMT
      <4>4. QED  BY <1>0, <4>1, <4>2, <4>3 DEF ADDAL
    <3>3. QED  BY <1>3, <3>1, <3>2
  <2> HIDE DEF w
  <2>3. FetchAt(w)
    BY <1>5, <2>2, Zenon
  <2>4. t % XMOD = 2 * w
    <3>1. t % XMOD = t
      BY <1>0, <1>6, <2>1, ModSmall, Zenon
    <3>2. QED  BY <2>1, <3>1
  <2>5. Oracle!Goto(t)
    BY <1>6, <2>1, <2>3, <2>4, GotoAt
  <2>6. QED  BY <2>5 DEF t
<1>9. CASE ~(0 <= d + pc)
  <2> DEFINE e == (d - 1) + WORD
             c == d - 1
             w == e + pc
             f == t + XMOD
  <2>1. /\ e \in Int /\ 0 <= e /\ e < WORD /\ c \in Int /\ c = WORD * (-1) + e /\ -1 \in Int
        /\ WORD > 0 /\ w \in Int /\ 0 <= w /\ w < WORD - 1 /\ 2 * n <= w
        /\ f \in Int /\ 0 <= f /\ f < XMOD /\ 4 * n <= f /\ t = XMOD * (-1) + f /\ d < 0
    BY <1>0, <1>1, <1>2, <1>3, <1>6, <1>9
  <2>2. Insn.word2 = c % WORD
    BY <1>4, <2>1
  <2>3. ADDAL(e, pc) = w
    BY <1>0, <2>1 DEF ADDAL
  <2> HIDE DEF e, c, w, f
  <2>4. c % WORD = e
    BY <1>0, <2>1, Quotient, SMT
  <2>5. t % XMOD = f
    BY <1>0, <1>6, <1>7, <2>1, Quotient, SMT
  <2>6. FetchAt(w)
    BY <1>5, <2>2, <2>3, <2>4, Zenon
  <2>7. 2 * Len(program) <= w /\ 4 * Len(program) <= t % XMOD
    BY <2>1, <2>5 DEF n
  <2>8. Oracle!Goto(t)
    BY <1>6, <2>1, <2>6, <2>7, GotoAt
  <2>9. QED  BY <2>8 DEF t
<1>10. QED  BY <1>8, <1>9

LEMMA BranchOperands ==
  ASSUME TypeOK, I.op \in BranchOps
  PROVE  /\ Dest \in RegVal /\ Src1 \in RegVal /\ Insn.op = I.op
         /\ Oracle!V1 = SignedOf(Full(Dest)) /\ Oracle!V1 \in Int /\ Oracle!V1 % XMOD = Full(Dest)
         /\ Oracle!V2 = SignedOf(Full(Src1)) /\ Oracle!V2 \in Int /\ Oracle!V2 % XMOD = Full(Src1)
<1>1. Insn.op = I.op /\ Insn.dest = I.rs1 /\ Insn.src1 = I.rs2
  BY DEF Insn, I, Encode, Reg1, Reg2, BranchOps, StoreOps
<1>2. I.rs1 \in Regs /\ I.rs2 \in Regs
  BY OracleInsn DEF Instruction
<1>3. Dest = reg[I.rs1] /\ Dest \in RegVal /\ Src1 = reg[I.rs2] /\ Src1 \in RegVal
  BY <1>1, <1>2, RegOK DEF Dest, Src1
<1> DEFINE x == Full(reg[I.rs1])
           y == Full(reg[I.rs2])
<1>4. x \in Int /\ 0 <= x /\ x < XMOD /\ y \in Int /\ 0 <= y /\ y < XMOD
  BY <1>3, RegFull
<1>5. Oracle!V1 = Oracle!Signed(x) /\ Oracle!V2 = Oracle!Signed(y)
  <2>1. Oracle!Insn = I
    BY OracleInsn
  <2>2. QED  BY <1>2, <2>1 DEF Oracle!V1, Oracle!V2
<1> HIDE DEF x, y
<1>6. Oracle!V1 = SignedOf(x) /\ Oracle!V1 \in Int /\ Oracle!V1 % XMOD = x
  BY <1>4, <1>5, SignedValue, Zenon
<1>7. Oracle!V2 = SignedOf(y) /\ Oracle!V2 \in Int /\ Oracle!V2 % XMOD = y
  BY <1>4, <1>5, SignedValue, Zenon
<1>8. QED  BY <1>1, <1>3, <1>6, <1>7, Zenon DEF x, y

LEMMA BranchGoes ==
  ASSUME TypeOK, Len(program) < HALF, status = "run", I.op \in BranchOps, I.imm % 2 = 0,
         NEW p, p <=> Oracle!Condition(I.op, Oracle!V1, Oracle!V2), BranchIf(p)
  PROVE  Oracle!Next
<1>1. Oracle!Insn = I
  BY OracleInsn
<1>2. Oracle!At(Oracle!BranchOps)
  BY <1>1, OracleSets DEF Oracle!At
<1>3. program' = program /\ Values' = Values /\ Bytes' = Bytes /\ input'[0] = input[0]
      /\ Printed' = Printed
  <2>1. reg' = reg /\ program' = program /\ mem' = mem /\ input' = input /\ output' = output
    BY DEF BranchIf
  <2>2. Values' = Values
    BY <2>1, Zenon DEF Values
  <2>3. QED  BY <2>1, <2>2, Unseen
<1> DEFINE c == Oracle!Condition(I.op, Oracle!V1, Oracle!V2)
<1>4. Oracle!Goto(IF c THEN 2 * pc + I.imm ELSE 2 * pc + 4)
  <2>1. CASE c
    <3>1. BRANCH_TAKE
      BY <2>1, Zenon DEF BranchIf
    <3>2. Oracle!Goto(2 * pc + I.imm)
      BY <3>1, GotoOffset
    <3>3. QED  BY <2>1, <3>2
  <2>2. CASE ~c
    <3>1. NEXT_INSTRUCTION
      BY <2>2, Zenon DEF BranchIf
    <3>2. Oracle!Goto(2 * pc + 4)
      BY <3>1, GotoNext
    <3>3. QED  BY <2>2, <3>2
  <2>3. QED  BY <2>1, <2>2
<1>5. Oracle!Branch
  BY <1>1, <1>2, <1>3, <1>4, Zenon DEF Oracle!Branch, Values, Bytes, Printed
<1>6. QED  BY <1>5, Zenon DEF Oracle!Next

LEMMA BranchesMatch ==
  ASSUME TypeOK, Len(program) < HALF, Branches, I.op \in BranchOps => I.imm % 2 = 0
  PROVE  Oracle!Next
<1>1. status = "run" /\ Insn.op \in BranchOps /\ Insn.op = I.op
  BY DEF Branches, OP_BEQ, OP_BNE, OP_BLT, OP_BGE, OP_BLTU, OP_BGEU, Dispatch, Insn, I, Encode,
         BranchOps
<1>2. I.op \in BranchOps /\ I.imm % 2 = 0
  BY <1>1
<1> DEFINE u == Oracle!V1
           v == Oracle!V2
           x == Full(Dest)
           y == Full(Src1)
<1>3. /\ u % XMOD = x /\ u = SignedOf(x) /\ Dest \in RegVal
      /\ v % XMOD = y /\ v = SignedOf(y) /\ Src1 \in RegVal
      /\ u \in Int /\ v \in Int
  BY <1>2, BranchOperands
<1>4. Oracle!Mask(u) = x /\ Oracle!Mask(v) = y
  BY <1>3, OracleMask, Zenon
<1>5. x \in Int /\ y \in Int
  BY <1>3, RegFull
<1>6. u = v <=> Dest[2] = Src1[2] /\ Dest[1] = Src1[1]
  <2>1. x = y <=> Dest[1] = Src1[1] /\ Dest[2] = Src1[2]
    BY <1>3, RegValPair, FullInjective
  <2>2. u = v <=> x = y
    BY <1>3, Zenon
  <2>3. QED  BY <2>1, <2>2
<1>7. signed_lt(Dest, Src1) <=> u < v
  BY <1>3, SignedLessValue
<1>8. unsigned_lt(Dest, Src1) <=> x < y
  BY <1>3, UnsignedLessValue
<1> HIDE DEF u, v, x, y
<1> DEFINE c == Oracle!Condition(I.op, u, v)
<1>9. ASSUME NEW p, p <=> c, BranchIf(p)
      PROVE  Oracle!Next
  BY <1>1, <1>2, <1>9, BranchGoes DEF u, v
<1>10. CASE OP_BEQ
  <2>1. I.op = "beq" /\ BranchIf(Dest[2] = Src1[2] /\ Dest[1] = Src1[1])
    BY <1>1, <1>10 DEF OP_BEQ, Dispatch
  <2>2. c <=> u = v
    BY <2>1 DEF Oracle!Condition
  <2> HIDE DEF c
  <2>3. QED  BY <1>6, <1>9, <2>1, <2>2
<1>11. CASE OP_BNE
  <2>1. I.op = "bne" /\ BranchIf(Dest[2] # Src1[2] \/ Dest[1] # Src1[1])
    BY <1>1, <1>11 DEF OP_BNE, Dispatch
  <2>2. c <=> u # v
    BY <2>1 DEF Oracle!Condition
  <2> HIDE DEF c
  <2>3. QED  BY <1>6, <1>9, <2>1, <2>2
<1>12. CASE OP_BLT
  <2>1. I.op = "blt" /\ BranchIf(signed_lt(Dest, Src1))
    BY <1>1, <1>12 DEF OP_BLT, Dispatch
  <2>2. c <=> u < v
    BY <2>1 DEF Oracle!Condition
  <2> HIDE DEF c
  <2>3. QED  BY <1>7, <1>9, <2>1, <2>2
<1>13. CASE OP_BGE
  <2>1. I.op = "bge" /\ BranchIf(~signed_lt(Dest, Src1))
    BY <1>1, <1>13 DEF OP_BGE, Dispatch
  <2>2. c <=> u >= v
    BY <2>1 DEF Oracle!Condition
  <2>3. u >= v <=> ~(u < v)
    BY <1>3
  <2> HIDE DEF c
  <2>4. QED  BY <1>7, <1>9, <2>1, <2>2, <2>3
<1>14. CASE OP_BLTU
  <2>1. I.op = "bltu" /\ BranchIf(unsigned_lt(Dest, Src1))
    BY <1>1, <1>14 DEF OP_BLTU, Dispatch
  <2>2. c <=> x < y
    BY <1>4, <2>1 DEF Oracle!Condition
  <2> HIDE DEF c
  <2>3. QED  BY <1>8, <1>9, <2>1, <2>2
<1>15. CASE OP_BGEU
  <2>1. I.op = "bgeu" /\ BranchIf(~unsigned_lt(Dest, Src1))
    BY <1>1, <1>15 DEF OP_BGEU, Dispatch
  <2>2. c <=> x >= y
    BY <1>4, <2>1 DEF Oracle!Condition
  <2>3. x >= y <=> ~(x < y)
    BY <1>5
  <2> HIDE DEF c
  <2>4. QED  BY <1>8, <1>9, <2>1, <2>2, <2>3
<1>16. QED  BY <1>10, <1>11, <1>12, <1>13, <1>14, <1>15 DEF Branches

-----------------------------------------------------------------------------
(* 09-jumps *)

LEMMA LinkValue ==
  ASSUME TypeOK, Len(program) < HALF
  PROVE  /\ Link = <<0, 2 * pc + 4>> /\ Link[2] = (2 * pc + 4) % XMOD
         /\ Link[2] \in Word /\ 2 * pc + 4 \in Int
<1> DEFINE n == Len(program)
           w == pc + 2
           t == 2 * pc + 4
<1>0. /\ n \in Nat /\ pc \in Int /\ 0 <= pc /\ pc + 2 <= 2 * n /\ 2 * n + 2 <= 2 * HALF
      /\ 2 * HALF + 2 * HALF = WORD /\ HALF \in Int /\ HALF >= 16
      /\ WORD <= XMOD /\ WORD \in Int /\ XMOD \in Int
  BY ProgramBound, Zenon
<1> HIDE DEF n
<1>1. /\ w \in Int /\ 0 <= w /\ w < WORD - 1 /\ t = w * 2 /\ t \in Int /\ 0 <= t /\ t < WORD
      /\ t < XMOD
  BY <1>0
<1>2. ADDAL(pc, 2) = w
  BY <1>1 DEF ADDAL
<1>10. w \in Word
  BY <1>0, <1>1 DEF Word
<1>3. 1 \in 0 .. WBITS /\ 2^1 = 2
  BY Widths
<1> HIDE DEF w, t
<1>4. LSHAL(w, 1) = t
  <2>1. w * 2^1 < WORD
    BY <1>1, <1>3
  <2>2. LSHAL(w, 1) = w * 2^1
    BY <1>10, <1>3, <2>1, LshalValue
  <2>3. QED  BY <1>1, <1>3, <2>2
<1>5. t % XMOD = t
  BY <1>0, <1>1, ModSmall, Zenon
<1>6. Link = <<0, t>> /\ t \in Word
  BY <1>1, <1>2, <1>4, WordBound DEF Link, Word
<1>7. QED  BY <1>1, <1>5, <1>6 DEF t

LEMMA JalMatch ==
  ASSUME TypeOK, Len(program) < HALF, OP_JAL, I.imm % 2 = 0
  PROVE  Oracle!Next
<1>1. status = "run" /\ I.op = "jal" /\ BRANCH_TAKE /\ Insn.dest = I.rd
      /\ UNCHANGED <<program, mem, input, output>>
  BY DEF OP_JAL, Dispatch, Insn, I, Encode, Reg1, StoreOps, BranchOps
<1>2. Oracle!Insn = I /\ I.rd \in Regs
  BY OracleInsn DEF Instruction
<1>3. Oracle!Write(I.rd, 2 * pc + 4)
  <2> DEFINE a == Link
  <2>1. reg' = IF I.rd = 0 THEN reg ELSE [reg EXCEPT ![I.rd] = a]
    BY <1>1 DEF OP_JAL
  <2>2. Full(a) = (2 * pc + 4) % XMOD
    BY LinkValue, WordBound DEF Full
  <2> HIDE DEF a
  <2>3. \A r \in Regs : reg'[r] = IF r = 0 THEN reg[0] ELSE IF r = I.rd THEN a ELSE reg[r]
    BY <1>2, <2>1 DEF TypeOK, RegFile
  <2>4. QED  BY <1>2, <2>2, <2>3, WriteMatch
<1>4. Oracle!Goto(2 * pc + I.imm)
  BY <1>1, GotoOffset
<1>5. Bytes' = Bytes /\ input'[0] = input[0] /\ Printed' = Printed
  BY <1>1, Unseen
<1>6. Oracle!At({"jal"})
  BY <1>1, <1>2 DEF Oracle!At
<1>7. Oracle!Jal
  BY <1>1, <1>2, <1>3, <1>4, <1>5, <1>6, Zenon DEF Oracle!Jal, Bytes, Printed
<1>8. QED  BY <1>7, Zenon DEF Oracle!Next

(* The 36-bit sum of CALC_EFFECTIVE_ADDRESS. *)
LEMMA EffectiveValue ==
  ASSUME TypeOK, I.op \in LoadOps \cup StoreOps \cup {"jalr"}
  PROVE  /\ Src1 = reg[I.rs1] /\ Src1 \in RegVal /\ I.rs1 \in Regs /\ I.imm \in Int
         /\ Full(EffectiveAddress) = (I.imm + Full(reg[I.rs1])) % AMOD
         /\ EffectiveAddress \in Word \X Word
         /\ EffectiveAddress \in Int \X Word
<1> DEFINE k == I.imm
           y == Full(Imm)
           x == Full(Src1)
<1>1. I.op \notin BranchOps \cup UpperOps \cup ROps /\ I.op \notin {"addi", "srai", "jal"}
      /\ I.op \in IOps \cup LoadOps \cup StoreOps
  BY DEF LoadOps, StoreOps, BranchOps, UpperOps, ROps, IOps
<1>2. Insn.src1 = I.rs1 /\ Insn.word2 = I.imm % WORD
  BY <1>1 DEF Insn, I, Encode, Reg2, Word2
<1>3. I.rs1 \in Regs
  BY OracleInsn DEF Instruction
<1>4. Src1 = reg[I.rs1] /\ Src1 \in RegVal /\ Src1 \in Int \X Int
  BY <1>2, <1>3, RegOK DEF Src1
<1>5. k \in Int /\ 0 <= 2 * k + WORD /\ 2 * k < WORD
  BY <1>1, ImmRange
<1>6. Imm = <<SignWord(k % WORD), k % WORD>>
  BY <1>2, Zenon DEF Imm
<1> HIDE DEF k
<1>7. Full(<<SignWord(k % WORD), k % WORD>>) = k % AMOD /\ k % WORD \in Word
  BY <1>5, SignedWord
<1>8. Imm \in Int \X Int /\ y = k % AMOD
  <2>1. SignWord(k % WORD) \in Int
    BY WordBound DEF SignWord
  <2>2. k % WORD \in Int
    <3>1. WORD \in Int /\ WORD > 0
      BY Sizes
    <3>2. QED  BY <1>5, <3>1, RemainderRange, Zenon
  <2>3. QED  BY <1>6, <1>7, <2>1, <2>2, Zenon DEF y
<1>9. EffectiveAddress \in Word \X Word /\ Full(EffectiveAddress) = (y + x) % AMOD
  BY <1>4, <1>8, FullOfPlus DEF EffectiveAddress
<1>10. x \in Int /\ AMOD \in Int /\ AMOD > 0
  BY <1>4, FullInt, Sizes
<1> HIDE DEF x, y
<1>11. ((k % AMOD) + x) % AMOD = (k + x) % AMOD
  BY <1>5, <1>10, ModAdd, Zenon
<1>12. EffectiveAddress \in Int \X Word
  BY <1>9, PairInt
<1>13. QED  BY <1>3, <1>4, <1>5, <1>8, <1>9, <1>11, <1>12, Zenon DEF x, k

(* Where its upper word ends in 14 zeros, AL is the address; where not, the   *)
(* address is beyond the reach of a word.                                    *)
LEMMA EffectiveWords ==
  ASSUME TypeOK, I.op \in LoadOps \cup StoreOps \cup {"jalr"}
  PROVE  /\ AL \in Word /\ AL \in Int /\ 0 <= AL /\ AL < WORD
         /\ EffectiveAddress[1] % HIMOD = 0 => (I.imm + Full(reg[I.rs1])) % XMOD = AL
         /\ EffectiveAddress[1] % HIMOD # 0 => (I.imm + Full(reg[I.rs1])) % XMOD >= WORD
<1> DEFINE t == I.imm + Full(reg[I.rs1])
           h == EffectiveAddress[1]
<1>1. EffectiveAddress \in Word \X Word /\ Full(EffectiveAddress) = t % AMOD
  BY EffectiveValue
<1>2. h \in Int /\ AL \in Int /\ AL \in Word /\ 0 <= AL /\ AL < WORD
  <2>1. h \in Word /\ AL \in Word
    BY <1>1 DEF AL
  <2> HIDE DEF h
  <2>2. QED  BY <2>1, WordBound
<1>3. t \in Int
  <2>1. I.imm \in Int /\ reg[I.rs1] \in RegVal
    BY EffectiveValue
  <2>2. QED  BY <2>1, RegFull
<1>4. EffectiveAddress \in Int \X Word
  BY EffectiveValue
<1>5. Full(<<h % HIMOD, AL>>) = t % XMOD
  <2>1. Full(<<h % HIMOD, AL>>) = Full(EffectiveAddress) % XMOD
    BY <1>4, FullOfMask DEF AL
  <2> HIDE DEF t, h
  <2>2. (t % AMOD) % XMOD = t % XMOD
    BY <1>3, ModAccumulator, Zenon
  <2>3. QED  BY <1>1, <2>1, <2>2, Zenon
<1>6. HIMOD \in Int /\ HIMOD > 0 /\ WORD \in Int /\ WORD > 0
  BY Sizes
<1>7. h % HIMOD \in Int /\ 0 <= h % HIMOD
  <2> HIDE DEF h
  <2>1. QED  BY <1>2, <1>6, RemainderRange, Zenon
<1>8. t % XMOD = (h % HIMOD) * WORD + AL
  BY <1>5 DEF Full
<1> DEFINE g == h % HIMOD
<1>9. g = 0 => g * WORD = 0
  BY <1>6
<1>10. g # 0 => g * WORD >= WORD
  <2>1. g # 0 => g >= 1
    BY <1>7
  <2> HIDE DEF g
  <2>2. g \in Int
    BY <1>7 DEF g
  <2>3. g # 0 => WORD * g >= WORD
    BY <1>6, <2>1, <2>2, MulGe
  <2>4. QED  BY <1>6, <2>2, <2>3
<1> DEFINE p == g * WORD
<1>11. p \in Int
  BY <1>6, <1>7
<1> HIDE DEF t, g, p
<1>12. t % XMOD = p + AL
  BY <1>8 DEF g, p
<1>13. (g = 0 => t % XMOD = AL) /\ (g # 0 => t % XMOD >= WORD)
  BY <1>2, <1>6, <1>9, <1>10, <1>11, <1>12 DEF p
<1>14. QED  BY <1>2, <1>13 DEF t, g

LEMMA HalvedAddress ==
  ASSUME NEW a \in Word \X Word, a[1] % HIMOD = 0
  PROVE  RSHA(a, 1)[2] = a[2] \div 2
<1> DEFINE F == Full(a)
           l == a[2]
           h == l \div 2
           b == RSHA(a, 1)
           m == HIMOD \div 2
           q == a[1] \div HIMOD
           u == (m * q) * WORD
           g == (m * q) - 2 * HALF
           v == g * WORD
<1>1. a[1] \in Int /\ l \in Int /\ 0 <= l /\ l < WORD /\ a \in Int \X Int
  <2>1. a[1] \in Word /\ l \in Word
    OBVIOUS
  <2>2. QED  BY <2>1, WordBound, PairInt
<1>2. /\ WORD \in Int /\ HIMOD \in Int /\ HALF \in Int /\ WORD > 0 /\ HIMOD > 0
      /\ WORD = 4 * HALF /\ HALF = 4 * HIMOD /\ AMOD = WORD * WORD /\ AMOD \in Int
  BY Sizes
<1>3. m \in Int /\ HIMOD = 2 * m
  <2>1. HIMOD % 2 = 0
    BY Widths
  <2>2. QED  BY <1>2, <2>1
<1>4. q \in Int /\ a[1] = HIMOD * q
  <2> DEFINE k == a[1]
  <2> HIDE DEF k
  <2>1. k \in Int /\ k % HIMOD = 0
    BY <1>1 DEF k
  <2>2. k % HIMOD = k - HIMOD * (k \div HIMOD) /\ k \div HIMOD \in Int
    BY <1>2, <2>1, Remainder, RemainderRange, Zenon
  <2> DEFINE j == k \div HIMOD
  <2>3. j \in Int /\ 0 = k - HIMOD * j
    BY <2>1, <2>2
  <2> HIDE DEF j
  <2>4. HIMOD * j \in Int
    BY <1>2, <2>3
  <2>5. k = HIMOD * j
    BY <2>1, <2>3, <2>4
  <2>6. QED  BY <2>3, <2>5 DEF j, k
<1> HIDE DEF m, q
<1>5. m * q \in Int /\ g \in Int /\ u \in Int /\ v \in Int
  BY <1>2, <1>3, <1>4, SMT
<1>6. F = l + 2 * u
  <2>1. F = (HIMOD * q) * WORD + l
    BY <1>4 DEF Full
  <2>2. HIMOD * q = 2 * (m * q)
    BY <1>3, <1>4, SMT
  <2>3. (2 * (m * q)) * WORD = 2 * u
    BY <1>2, <1>5, SMT
  <2>4. QED  BY <1>1, <1>5, <2>1, <2>2, <2>3
<1>7. F - AMOD = l + 2 * v
  <2>1. v = u - (2 * HALF) * WORD /\ 2 * ((2 * HALF) * WORD) = AMOD /\ (2 * HALF) * WORD \in Int
    <3> DEFINE c == m * q
               d == 2 * HALF
    <3>1. c \in Int /\ d \in Int /\ WORD = 2 * d
      BY <1>2, <1>5
    <3> HIDE DEF c, d
    <3>2. (c - d) * WORD = c * WORD - d * WORD /\ 2 * (d * WORD) = (2 * d) * WORD /\ d * WORD \in Int
      BY <1>2, <3>1, SMT
    <3>3. QED  BY <1>2, <3>1, <3>2 DEF c, d
  <2> HIDE DEF u, v
  <2>2. QED  BY <1>1, <1>2, <1>5, <1>6, <2>1
<1> HIDE DEF l
<1>8. h \in Int /\ 0 <= h /\ h < WORD
  BY <1>1, <1>2
<1>0. WORD \in Int /\ WORD > 0 /\ h \in Int
  BY <1>2, <1>8
<1>9. b[2] = Full(b) % WORD /\ b \in Word \X Word
  BY RshaType, FullInjective, SMT
<1>10. /\ 2 * F < AMOD => Full(b) = F \div 2
       /\ 2 * F >= AMOD => Full(b) = ((F - AMOD) \div 2) % AMOD
  <2>1. 2^1 = 2 /\ 1 \in Int /\ 0 <= 1 /\ 1 <= 36
    OBVIOUS
  <2>2. QED  BY <2>1, FullOfRsha
<1>11. h % WORD = h
  <2> HIDE DEF h
  <2>1. QED  BY <1>2, <1>8, ModSmall, Zenon
<1> HIDE DEF F, l, b, g
<1>12. F \in Int
  BY <1>1, FullInt DEF F
<1>13. ASSUME NEW z \in Int
       PROVE  /\ (l + 2 * (z * WORD)) \div 2 = h + z * WORD
              /\ (h + z * WORD) % WORD = h /\ ((h + z * WORD) % AMOD) % WORD = h
  <2> DEFINE y == z * WORD
  <2>1. y \in Int /\ y = WORD * z
    BY <1>2
  <2> HIDE DEF y
  <2>2. (l + 2 * y) \div 2 = h + y
    BY <1>1, <2>1 DEF h, l
  <2>3. (h + WORD * z) % WORD = h % WORD
    <3> HIDE DEF h
    <3>1. QED  BY <1>0, ModShift, Zenon
  <2> DEFINE x == h + y
  <2> HIDE DEF h
  <2>4. x \in Int
    BY <1>8, <2>1
  <2> HIDE DEF x
  <2>5. (x % (WORD * WORD)) % WORD = x % WORD
    BY <1>0, <2>4, ModMultiple, Zenon
  <2>6. QED  BY <1>2, <1>11, <2>1, <2>2, <2>3, <2>5, Zenon DEF x, y
<1> HIDE DEF h
<1>14. CASE 2 * F < AMOD
  <2>1. Full(b) = h + u
    BY <1>5, <1>6, <1>10, <1>13, <1>14, Zenon DEF u
  <2>2. (h + u) % WORD = h
    BY <1>5, <1>13, Zenon DEF u
  <2>3. QED  BY <1>9, <2>1, <2>2, Zenon DEF b, h, l
<1>15. CASE ~(2 * F < AMOD)
  <2>1. 2 * F >= AMOD
    BY <1>2, <1>12, <1>15
  <2>2. Full(b) = (h + v) % AMOD
    BY <1>5, <1>7, <1>10, <1>13, <2>1, Zenon DEF v
  <2>3. ((h + v) % AMOD) % WORD = h
    BY <1>5, <1>13, Zenon DEF v
  <2>4. QED  BY <1>9, <2>2, <2>3, Zenon DEF b, h, l
<1>16. QED  BY <1>14, <1>15

LEMMA JumpBack ==
  ASSUME NEW h \in Int, 0 <= h, 2 * h < WORD
  PROVE  ADDAL(ADDAL(h, MinusOnes(2)), 2) = h
<1>1. WORD \in Int /\ WORD >= 64
  BY WordBound
<1> DEFINE g == ADDAL(h, MinusOnes(2))
<1>2. g = IF h < 2 THEN h + WORD - 3 ELSE h - 2
  BY <1>1 DEF ADDAL, MinusOnes
<1> HIDE DEF g
<1>3. ADDAL(g, 2) = h
  BY <1>1, <1>2 DEF ADDAL
<1>4. QED  BY <1>3 DEF g

LEMMA EvenTarget ==
  ASSUME NEW t \in Int
  PROVE  /\ t % XMOD \in Int /\ 0 <= t % XMOD
         /\ (t - (t % 2)) % XMOD = (t % XMOD) - ((t % XMOD) % 2)
<1> DEFINE r == t % XMOD
           q == t \div XMOD
           m == XMOD \div 2
<1>1. XMOD \in Int /\ XMOD > 0 /\ XMOD = 2 * m /\ m \in Int
  <2>1. XMOD % 2 = 0 /\ XMOD \in Int /\ XMOD > 0
    BY Moduli
  <2>2. QED  BY <2>1
<1>2. r \in Int /\ q \in Int /\ 0 <= r /\ r < XMOD /\ r = t - XMOD * q
  BY <1>1, RemainderRange, Remainder, Zenon
<1> HIDE DEF r, q, m
<1> DEFINE k == m * q
           s == r - (r % 2)
<1>3. k \in Int /\ XMOD * q = 2 * k
  BY <1>1, <1>2, SMT
<1> HIDE DEF k
<1>4. t = r + 2 * k
  BY <1>2, <1>3
<1>5. t % 2 = r % 2
  BY <1>2, <1>3, <1>4
<1>6. s \in Int /\ 0 <= s /\ s < XMOD
  BY <1>1, <1>2
<1>7. t - (t % 2) = s + XMOD * q
  BY <1>2, <1>3, <1>4, <1>5
<1> HIDE DEF s
<1>11. XMOD \in Int /\ XMOD > 0 /\ s \in Int /\ q \in Int
  BY <1>1, <1>2, <1>6
<1>8. (s + XMOD * q) % XMOD = s % XMOD /\ s % XMOD = s
  <2>1. (s + XMOD * q) % XMOD = s % XMOD
    BY <1>11, ModShift, Zenon
  <2>2. s % XMOD = s
    BY <1>6, <1>11, ModSmall, Zenon
  <2>3. QED  BY <2>1, <2>2
<1>9. (t - (t % 2)) % XMOD = s
  BY <1>7, <1>8, Zenon
<1>10. QED  BY <1>2, <1>9 DEF r, s

LEMMA JalrMatch ==
  ASSUME TypeOK, Len(program) < HALF, OP_JALR
  PROVE  Oracle!Next
<1> DEFINE x == Full(reg[I.rs1]) + I.imm
           y == x - (x % 2)
           h == AL \div 2
<1>1. /\ status = "run" /\ I.op = "jalr" /\ Insn.dest = I.rd
      /\ UNCHANGED <<program, mem, input, output>>
  BY DEF OP_JALR, Dispatch, Insn, I, Encode, Reg1, StoreOps, BranchOps
<1>2. Oracle!Insn = I /\ I.rd \in Regs
  BY OracleInsn DEF Instruction
<1>3. Oracle!Write(I.rd, 2 * pc + 4)
  <2>1. reg' = [reg EXCEPT ![I.rd] = <<0, Link[2]>>, ![0][2] = 0]
    BY <1>1, LinkType DEF OP_JALR
  <2>2. QED  BY <1>2, <2>1, LinkValue, LowerMatch
<1>4. I.op \in LoadOps \cup StoreOps \cup {"jalr"}
  BY <1>1
<1>5. I.rs1 \in Regs /\ I.imm \in Int /\ reg[I.rs1] \in RegVal /\ EffectiveAddress \in Word \X Word
  BY <1>4, EffectiveValue
<1>6. x \in Int /\ x = I.imm + Full(reg[I.rs1])
  <2>1. Full(reg[I.rs1]) \in Int
    BY <1>5, RegFull
  <2>2. QED  BY <1>5, <2>1
<1>7. /\ AL \in Int /\ 0 <= AL /\ AL < WORD
      /\ EffectiveAddress[1] % HIMOD = 0 => x % XMOD = AL
      /\ EffectiveAddress[1] % HIMOD # 0 => x % XMOD >= WORD
  BY <1>4, <1>6, EffectiveWords
<1> HIDE DEF x
<1>8. x % XMOD \in Int /\ y % XMOD = (x % XMOD) - ((x % XMOD) % 2) /\ y \in Int
  <2>1. x \in Int
    BY <1>6
  <2>2. y \in Int
    BY <2>1
  <2>3. x % XMOD \in Int /\ y % XMOD = (x % XMOD) - ((x % XMOD) % 2)
    BY <2>1, EvenTarget, Zenon
  <2>4. QED  BY <2>2, <2>3, Zenon
<1> HIDE DEF y
<1>9. Oracle!Goto(y)
  <2>1. CASE EffectiveAddress[1] % HIMOD = 0
    <3>1. FetchAt(ADDAL(ADDAL(RSHA(EffectiveAddress, 1)[2], MinusOnes(2)), 2))
      BY <2>1 DEF OP_JALR
    <3>2. RSHA(EffectiveAddress, 1)[2] = h
      BY <1>5, <2>1, HalvedAddress DEF AL
    <3>3. h \in Int /\ 0 <= h /\ 2 * h < WORD /\ AL - (AL % 2) = 2 * h
      <4> DEFINE al == AL
      <4>1. al \in Int /\ 0 <= al /\ al < WORD /\ WORD \in Int
        BY <1>7, Sizes
      <4> HIDE DEF al
      <4>2. al \div 2 \in Int /\ 0 <= al \div 2 /\ 2 * (al \div 2) < WORD
            /\ al - (al % 2) = 2 * (al \div 2)
        BY <4>1
      <4>3. QED  BY <4>2 DEF al
    <3> HIDE DEF h
    <3>4. ADDAL(ADDAL(h, MinusOnes(2)), 2) = h
      BY <3>3, JumpBack
    <3>5. FetchAt(h)
      BY <3>1, <3>2, <3>4, Zenon
    <3>6. y % XMOD = 2 * h
      BY <1>7, <1>8, <2>1, <3>3
    <3>7. QED  BY <1>1, <1>8, <3>3, <3>5, <3>6, GotoAt
  <2>2. CASE EffectiveAddress[1] % HIMOD # 0
    <3>1. pc' = pc /\ status' = "undefined"
      BY <2>2 DEF OP_JALR
    <3> DEFINE z == x % XMOD
               n == Len(program)
    <3>2. z \in Int /\ z >= WORD /\ y % XMOD = z - (z % 2)
      BY <1>7, <1>8, <2>2
    <3>3. n \in Nat /\ n < HALF /\ HALF \in Int /\ WORD = 4 * HALF
      BY ProgramBound, Sizes
    <3>4. Oracle!Mask(y) = y % XMOD
      BY OracleMask
    <3> DEFINE w == y % XMOD
    <3> HIDE DEF z, n
    <3>5. w \in Int /\ w >= WORD
      BY <3>2, <3>3
    <3> HIDE DEF w
    <3>6. ~(w \div 4 < n)
      BY <3>3, <3>5
    <3>7. QED  BY <3>1, <3>4, <3>6, Zenon DEF Oracle!Goto, w, n
  <2>3. QED  BY <2>1, <2>2
<1>10. Bytes' = Bytes /\ input'[0] = input[0] /\ Printed' = Printed
  BY <1>1, Unseen
<1>11. Oracle!At({"jalr"})
  BY <1>1, <1>2 DEF Oracle!At
<1>12. LET target == Values[I.rs1] + I.imm IN Oracle!Goto(target - (target % 2))
  <2>1. Values[I.rs1] = Full(reg[I.rs1])
    BY <1>5 DEF Values
  <2>2. QED  BY <1>9, <2>1, Zenon DEF x, y
<1>13. Oracle!Jalr
  BY <1>1, <1>2, <1>3, <1>10, <1>11, <1>12, Zenon DEF Oracle!Jalr, Bytes, Printed, Values
<1>14. QED  BY <1>13, Zenon DEF Oracle!Next

(* An upper immediate: word 2 holds its low bits, in place M = 2^IMMBITS,     *)
(* and the src1 field the two above.                                         *)
LEMMA UpperWidths ==
  LET M == 2^IMMBITS
      N == 2^(WBITS - IMMBITS)
  IN  /\ M \in Int /\ N \in Int /\ M > 0 /\ N > 0 /\ M * N = WORD /\ M \in Weights
      /\ 2^(IMMBITS - 1) \in Int /\ 2 * 2^(IMMBITS - 1) = M
      /\ IMMBITS \in 0 .. WBITS /\ IMMBITS - 1 \in 0 .. WBITS
<1> DEFINE M == 2^IMMBITS
           N == 2^(WBITS - IMMBITS)
           L == 2^(IMMBITS - 1)
<1>1. \/ BYTEBITS = 2 /\ IMMBITS = 4 /\ WBITS = 6 /\ WORD = 64
      \/ BYTEBITS = 4 /\ IMMBITS = 4 /\ WBITS = 10 /\ WORD = 1024
      \/ BYTEBITS = 8 /\ IMMBITS = 12 /\ WBITS = 18 /\ WORD = 262144
  BY Widths DEF IMMBITS
<1>2. /\ 2^4 = 16 /\ 2^12 = 4096 /\ 2^2 = 4 /\ 2^6 = 64 /\ 2^3 = 8 /\ 2^11 = 2048
  BY SMT
<1>3. \/ M = 16 /\ N = 4 /\ WORD = 64 /\ L = 8
      \/ M = 16 /\ N = 64 /\ WORD = 1024 /\ L = 8
      \/ M = 4096 /\ N = 64 /\ WORD = 262144 /\ L = 2048
  <2>1. \/ IMMBITS = 4 /\ WBITS - IMMBITS = 2 /\ IMMBITS - 1 = 3 /\ WORD = 64
        \/ IMMBITS = 4 /\ WBITS - IMMBITS = 6 /\ IMMBITS - 1 = 3 /\ WORD = 1024
        \/ IMMBITS = 12 /\ WBITS - IMMBITS = 6 /\ IMMBITS - 1 = 11 /\ WORD = 262144
    BY <1>1
  <2>2. IMMBITS = 4 => M = 2^4
    BY Zenon
  <2>3. IMMBITS = 12 => M = 2^12
    BY Zenon
  <2>4. WBITS - IMMBITS = 2 => N = 2^2
    BY Zenon
  <2>5. WBITS - IMMBITS = 6 => N = 2^6
    BY Zenon
  <2>6. IMMBITS - 1 = 3 => L = 2^3
    BY Zenon
  <2>7. IMMBITS - 1 = 11 => L = 2^11
    BY Zenon
  <2> HIDE DEF M, N, L
  <2>8. QED  BY <1>2, <2>1, <2>2, <2>3, <2>4, <2>5, <2>6, <2>7, SMT
<1>4. IMMBITS \in 0 .. WBITS /\ IMMBITS - 1 \in 0 .. WBITS
  BY <1>1
<1> HIDE DEF M, N, L
<1>5. M \in Int /\ N \in Int /\ M > 0 /\ N > 0 /\ M * N = WORD /\ M \in Weights /\ L \in Int
      /\ 2 * L = M
  BY <1>3, SMT DEF Weights
<1>6. QED  BY <1>4, <1>5, Zenon DEF M, N, L

LEMMA UpperFields ==
  ASSUME TypeOK, I.op \in UpperOps
  PROVE  /\ Insn.op = I.op /\ Insn.dest = I.rd /\ I.imm \in Int /\ 0 <= I.imm
         /\ Insn.src1 = I.imm \div WORD /\ Insn.word2 = I.imm % WORD
         /\ I.imm * 2^IMMBITS < XMOD
         /\ Insn.src1 * 2^IMMBITS < HIMOD
<1>1. I.imm \in 0 .. 2^(XLEN - IMMBITS) - 1
  BY OracleInsn DEF Instruction, Imms, IOps, LoadOps, StoreOps, ShiftOps, BranchOps, UpperOps, Upper
<1>2. Insn.op = I.op /\ Insn.dest = I.rd /\ Insn.src1 = I.imm \div WORD
      /\ Insn.word2 = I.imm % WORD
  BY DEF Insn, I, Encode, Reg1, Reg2, Word2, UpperOps, BranchOps, ROps, StoreOps
<1>3. \/ BYTEBITS = 2 /\ IMMBITS = 4 /\ XLEN = 8 /\ WORD = 64 /\ XMOD = 256 /\ HIMOD = 4
      \/ BYTEBITS = 4 /\ IMMBITS = 4 /\ XLEN = 16 /\ WORD = 1024 /\ XMOD = 65536 /\ HIMOD = 64
      \/ /\ BYTEBITS = 8 /\ IMMBITS = 12 /\ XLEN = 32 /\ WORD = 262144 /\ XMOD = 4294967296
         /\ HIMOD = 16384
  BY Moduli DEF IMMBITS
<1> DEFINE M == 2^IMMBITS
           P == 2^(XLEN - IMMBITS)
           i == I.imm
<1>4. 2^4 = 16 /\ 2^12 = 4096 /\ 2^20 = 1048576
  BY SMT
<1>5. \/ IMMBITS = 4 /\ XLEN - IMMBITS = 4 /\ WORD = 64 /\ XMOD = 256 /\ HIMOD = 4
      \/ IMMBITS = 4 /\ XLEN - IMMBITS = 12 /\ WORD = 1024 /\ XMOD = 65536 /\ HIMOD = 64
      \/ /\ IMMBITS = 12 /\ XLEN - IMMBITS = 20 /\ WORD = 262144 /\ XMOD = 4294967296
         /\ HIMOD = 16384
  BY <1>3
<1>6. \/ P = 16 /\ M = 16 /\ WORD = 64 /\ XMOD = 256 /\ HIMOD = 4
      \/ P = 4096 /\ M = 16 /\ WORD = 1024 /\ XMOD = 65536 /\ HIMOD = 64
      \/ P = 1048576 /\ M = 4096 /\ WORD = 262144 /\ XMOD = 4294967296 /\ HIMOD = 16384
  <2>1. IMMBITS = 4 => M = 2^4
    BY Zenon
  <2>2. IMMBITS = 12 => M = 2^12
    BY Zenon
  <2>3. XLEN - IMMBITS = 4 => P = 2^4
    BY Zenon
  <2>4. XLEN - IMMBITS = 12 => P = 2^12
    BY Zenon
  <2>5. XLEN - IMMBITS = 20 => P = 2^20
    BY Zenon
  <2> HIDE DEF M, P
  <2>6. QED  BY <1>4, <1>5, <2>1, <2>2, <2>3, <2>4, <2>5, SMT
<1> HIDE DEF M, P, i
<1>7. i \in 0 .. P - 1
  BY <1>1 DEF P, i
<1>8. i \in Int /\ 0 <= i /\ i * M < XMOD /\ (i \div WORD) * M < HIMOD
  BY <1>6, <1>7, SMT
<1>9. QED  BY <1>2, <1>8, Zenon DEF M, i

LEMMA UpperValue ==
  ASSUME TypeOK, I.op \in UpperOps
  PROVE  /\ ImmUpper * WORD + ImmLower = Insn.word2 * 2^IMMBITS
         /\ ImmUpper \in Int /\ 0 <= ImmUpper /\ ImmUpper < 2^IMMBITS
         /\ ImmUpper \in 0 .. HIMOD - 1 /\ ImmLower \in Word
<1> DEFINE M == 2^IMMBITS
           N == 2^(WBITS - IMMBITS)
           w == Insn.word2
           q == w \div N
           r == w % N
<1>1. M \in Int /\ N \in Int /\ M > 0 /\ N > 0 /\ M * N = WORD /\ IMMBITS \in 0 .. WBITS
  BY UpperWidths
<1>2. w \in Word /\ w \in Int /\ 0 <= w /\ w < WORD
  <2>1. w \in Word
    BY InsnOK DEF InsnType
  <2> HIDE DEF w
  <2>2. QED  BY <2>1, WordBound
<1>3. Insn.op \in UpperOps
  BY UpperFields
<1>4. ImmUpper \in 0 .. HIMOD - 1 /\ ImmLower \in Word
  BY <1>3, UpperImmediate
<1>5. ImmUpper = q
  <2> DEFINE a == <<0, w>>
             n == WBITS - IMMBITS
  <2>1. n \in Int /\ 0 <= n /\ n <= 36 /\ 0 \in Word
    BY <1>1, Widths, ZeroIsWord
  <2>2. a \in Word \X Word /\ Full(a) = w
    BY <1>2, <2>1, Sizes DEF Full
  <2>3. 2 * w < AMOD
    <3>1. AMOD = WORD * WORD /\ WORD \in Int /\ WORD >= 64
      BY Sizes, WordBound
    <3>2. (WORD - 2) * WORD >= 0 /\ (WORD - 2) * WORD = WORD * WORD - 2 * WORD /\ WORD * WORD \in Int
      BY <3>1, SMT
    <3> HIDE DEF w
    <3>3. QED  BY <1>2, <3>1, <3>2
  <2> HIDE DEF w
  <2>4. Full(RSHA(a, n)) = q /\ RSHA(a, n) \in Word \X Word
    <3>1. Full(RSHA(a, n)) = Full(a) \div 2^n
      BY <2>1, <2>2, <2>3, FullOfRsha
    <3>2. n \in 0 .. 36
      BY <2>1
    <3>3. RSHA(a, n) \in Word \X Word
      BY <2>2, <3>2, RshaType
    <3>4. QED  BY <2>2, <3>1, <3>3, Zenon
  <2> DEFINE b == RSHA(a, n)
  <2>5. b[2] = Full(b) % WORD
    BY <2>4, FullInjective, SMT
  <2> HIDE DEF a, n, b, q
  <2>6. 0 <= q /\ q < WORD /\ q \in Int
    <3>1. w < N * WORD
      <4>1. WORD * N >= WORD /\ WORD * N = N * WORD
        <5>1. WORD \in Int /\ WORD > 0
          BY Sizes
        <5>2. QED  BY <1>1, <5>1, MulGe, SMT
      <4>2. QED  BY <1>1, <1>2, <4>1
    <3>2. WORD \in Int
      BY Sizes
    <3>3. QED  BY <1>1, <1>2, <3>1, <3>2, QuotientRange, Zenon DEF q
  <2>7. q % WORD = q
    <3>1. WORD \in Int
      BY Sizes
    <3>2. QED  BY <2>6, <3>1, ModSmall, Zenon
  <2>8. ImmUpper = b[2]
    BY DEF ImmUpper, a, b, w, n
  <2>9. QED  BY <2>4, <2>5, <2>7, <2>8 DEF b
<1>6. q \in Int /\ r \in Int /\ 0 <= q /\ q < M /\ 0 <= r /\ r < N /\ w = N * q + r
  <2> HIDE DEF w
  <2>1. w < N * M
    BY <1>1, <1>2
  <2>2. q \in Int /\ 0 <= q /\ q < M
    BY <1>1, <1>2, <2>1, QuotientRange, Zenon
  <2>3. r \in Int /\ 0 <= r /\ r < N /\ r = w - N * q
    BY <1>1, <1>2, RemainderRange, Remainder, Zenon
  <2> HIDE DEF q, r
  <2>4. N * q \in Int
    BY <1>1, <2>2
  <2>5. QED  BY <1>2, <2>2, <2>3, <2>4
<1>7. LSHAL(w, IMMBITS) = (r * M + q) % WORD
  BY DEF LSHAL
<1>8. ImmLower = LSHAL(w, IMMBITS) - (LSHAL(w, IMMBITS) % M)
  BY DEF ImmLower
<1> HIDE DEF M, N, w, q, r
<1>9. r * M \in Int /\ 0 <= r * M /\ r * M + M <= WORD
  <2>1. r * M \in Int /\ 0 <= r * M /\ r * M + M = (r + 1) * M
    BY <1>1, <1>6, SMT
  <2>2. (N - (r + 1)) * M >= 0 /\ (N - (r + 1)) * M = N * M - (r + 1) * M /\ N * M = M * N
        /\ (r + 1) * M \in Int
    BY <1>1, <1>6, SMT
  <2>3. WORD \in Int
    BY Sizes
  <2>4. QED  BY <1>1, <2>1, <2>2, <2>3
<1> DEFINE s == r * M + q
<1>10. s \in Int /\ 0 <= s /\ s < WORD /\ WORD \in Int /\ s = M * r + q
  <2>1. WORD \in Int /\ r * M = M * r
    BY <1>1, <1>6, Sizes
  <2>2. QED  BY <1>1, <1>6, <1>9, <2>1
<1> HIDE DEF s
<1>11. s % WORD = s /\ s % M = q
  <2>1. s % WORD = s
    BY <1>10, ModSmall, Zenon
  <2>2. s % M = q
    BY <1>1, <1>6, <1>10, Quotient, SMT
  <2>3. QED  BY <2>1, <2>2
<1>12. ImmLower = r * M
  <2>1. ImmLower = s - (s % M)
    BY <1>7, <1>8, <1>11 DEF s
  <2>2. s = r * M + q
    BY DEF s
  <2>3. QED  BY <1>6, <1>9, <1>10, <1>11, <2>1, <2>2
<1>13. q * WORD + r * M = w * M
  <2>1. q * WORD = (N * q) * M
    <3>1. q * (M * N) = (N * q) * M
      BY <1>1, <1>6, SMT
    <3>2. QED  BY <1>1, <3>1
  <2>2. (N * q + r) * M = (N * q) * M + r * M
    BY <1>1, <1>6, SMT
  <2>3. QED  BY <1>6, <2>1, <2>2
<1>14. QED  BY <1>4, <1>5, <1>6, <1>12, <1>13 DEF M, w

LEMMA LuiMatch ==
  ASSUME TypeOK, Len(program) < HALF, OP_LUI
  PROVE  Oracle!Next
<1> DEFINE M == 2^IMMBITS
           L == 2^(IMMBITS - 1)
           s == Insn.src1
           w == Insn.word2
           k == I.imm
           top == LSHAL(2 * s, IMMBITS - 1) % HIMOD
           a == <<SLSET(ImmUpper, top), ImmLower>>
<1>1. status = "run" /\ I.op = "lui" /\ STORE_RESULT_PREMASKED(a)
  BY DEF OP_LUI, Dispatch, Insn, I, Encode
<1>2. I.op \in UpperOps
  BY <1>1 DEF UpperOps
<1>3. /\ Insn.dest = I.rd /\ k \in Int /\ 0 <= k /\ s = k \div WORD /\ w = k % WORD
      /\ k * M < XMOD /\ s * M < HIMOD /\ Insn.op \in UpperOps
  BY <1>2, UpperFields
<1>4. M \in Int /\ M > 0 /\ M \in Weights /\ L \in Int /\ 2 * L = M /\ IMMBITS - 1 \in 0 .. WBITS
  BY UpperWidths
<1>5. /\ ImmUpper * WORD + ImmLower = w * M
      /\ ImmUpper \in Int /\ 0 <= ImmUpper /\ ImmUpper < M
      /\ ImmUpper \in 0 .. HIMOD - 1 /\ ImmLower \in Word
  BY <1>2, UpperValue
<1>6. s \in 0 .. 3
  BY <1>3, InsnOK DEF InsnType
<1> HIDE DEF M, L, s, w, k
<1>7. /\ WORD \in Int /\ HIMOD \in Int /\ 4 * HIMOD <= WORD /\ WORD >= 64 /\ HIMOD > 0
      /\ XMOD \in Int /\ XMOD > 0
  BY Sizes, WordBound
<1>8. (2 * s) * L = s * M
  BY <1>4, <1>6, SMT
<1>9. s * M \in Int /\ 0 <= s * M
  BY <1>4, <1>6, SMT
<1> DEFINE u == 2 * s
           z == s * M
<1>10. u \in Word /\ u \in Int
  BY <1>6, <1>7 DEF Word
<1> HIDE DEF u, z
<1>31. z \in Int /\ 0 <= z /\ z < HIMOD
  BY <1>3, <1>9, Zenon DEF z
<1>11. LSHAL(u, IMMBITS - 1) = z
  <2>1. u * 2^(IMMBITS - 1) = z
    BY <1>8 DEF u, z, L
  <2>2. z < WORD
    BY <1>7, <1>31
  <2>3. QED  BY <1>4, <1>10, <2>1, <2>2, LshalValue
<1>12. z % HIMOD = z
  BY <1>7, <1>31, ModSmall, Zenon
<1>13. top = z
  BY <1>11, <1>12 DEF u
<1>14. ImmUpper \in Word /\ s \in Word /\ z \in Word /\ z < HIMOD
  BY <1>5, <1>6, <1>7, <1>31 DEF Word
<1> DEFINE g == ImmUpper
           h == ImmLower
<1>15. SLSET(g, z) = g + z
  <2>1. g + M * s < WORD /\ M * s = z
    <3>1. M * s = z
      BY <1>4, <1>6 DEF z
    <3>2. g + z < WORD
      BY <1>5, <1>7, <1>31
    <3>3. QED  BY <3>1, <3>2
  <2>2. SLSET(g, M * s) = g + M * s
    BY <1>4, <1>5, <1>14, <2>1, OrDisjoint
  <2>3. QED  BY <2>1, <2>2
<1>16. SLSET(g, z) \in 0 .. HIMOD - 1
  <2>1. g < HIMOD /\ z < HIMOD /\ HIMOD \in {HIMOD, BYTE, HALF, WORD}
    BY <1>5, <1>7, <1>14
  <2>2. QED  BY <1>14, <2>1, SlsetType
<1>17. a \in RegVal
  <2>1. a = <<SLSET(g, z), h>>
    BY <1>13
  <2>2. QED  BY <1>5, <1>16, <2>1 DEF RegVal
<1>18. Full(a) = (g + z) * WORD + h
  BY <1>13, <1>15, Zenon DEF Full
<1> HIDE DEF g, h
<1>19. /\ w \in Int /\ k = WORD * s + w /\ h \in Int /\ g \in Int
  <2>1. h \in Int /\ g \in Int
    BY <1>5, WordBound DEF g, h
  <2>2. w \in Int /\ w = k - WORD * (k \div WORD)
    <3>1. WORD > 0
      BY <1>7
    <3>2. QED  BY <1>3, <1>7, <3>1, RemainderRange, Remainder, Zenon
  <2> DEFINE q == WORD * s
  <2>3. q \in Int
    BY <1>6, <1>7
  <2>4. w = k - q
    BY <1>3, <2>2, Zenon
  <2> HIDE DEF q
  <2>7. k \in Int /\ w \in Int
    BY <1>3, <2>2, Zenon
  <2>5. k = q + w
    BY <2>3, <2>4, <2>7
  <2>6. QED  BY <2>1, <2>2, <2>5 DEF q
<1>20. (g + z) * WORD + h = k * M
  <2>1. (g + z) * WORD = g * WORD + z * WORD /\ g * WORD \in Int /\ z * WORD \in Int
    BY <1>7, <1>9, <1>19, SMT DEF z
  <2>2. z * WORD = (WORD * s) * M
    BY <1>4, <1>6, <1>7, SMT DEF z
  <2>3. (WORD * s + w) * M = (WORD * s) * M + w * M
    BY <1>4, <1>6, <1>7, <1>19, SMT
  <2>4. g * WORD + h = w * M
    BY <1>5 DEF g, h
  <2> DEFINE e == g * WORD
             f == z * WORD
             t == w * M
  <2>5. e \in Int /\ f \in Int /\ t \in Int
    BY <1>4, <1>19, <2>1
  <2>6. (g + z) * WORD = e + f /\ k * M = f + t /\ e + h = t
    BY <1>19, <2>1, <2>2, <2>3, <2>4, Zenon
  <2> HIDE DEF e, f, t
  <2>7. h \in Int
    BY <1>19, Zenon
  <2>8. (e + f) + h = f + t
    BY <2>5, <2>6, <2>7
  <2>9. QED  BY <2>6, <2>8, Zenon
<1>21. k * M \in Int /\ 0 <= k * M
  BY <1>3, <1>4, SMT
<1> DEFINE v == k * M
<1>22. v % XMOD = v
  <2> HIDE DEF v
  <2>1. v \in Int /\ 0 <= v /\ v < XMOD
    BY <1>3, <1>21 DEF v
  <2>2. QED  BY <1>7, <2>1, ModSmall, Zenon
<1>23. Full(a) = v % XMOD
  BY <1>18, <1>20, <1>22, Zenon
<1> HIDE DEF v, a
<1>24. v \in Int
  BY <1>21 DEF v
<1>25. Result(v)
  BY <1>1, <1>3, <1>17, <1>23, <1>24, ResultOfPremasked
<1>26. Oracle!Insn = I
  BY OracleInsn
<1>27. Oracle!At({"lui"})
  BY <1>1, <1>26 DEF Oracle!At
<1>28. v = I.imm * 2^Oracle!IMMBITS
  BY OracleSizes, Zenon DEF v, k, M
<1>29. Oracle!Lui
  BY <1>25, <1>26, <1>27, <1>28, Zenon DEF Oracle!Lui, Result, Bytes, Printed
<1>30. QED  BY <1>29, Zenon DEF Oracle!Next

LEMMA AuipcMatch ==
  ASSUME TypeOK, Len(program) < HALF, OP_AUIPC, I.imm < WORD
  PROVE  Oracle!Next
<1> DEFINE M == 2^IMMBITS
           w == Insn.word2
           k == I.imm
           b == <<0, ADDAL(pc, pc)>>
           c == <<ImmUpper, ImmLower>>
           d == 2 * pc
           v == 2 * pc + I.imm * 2^IMMBITS
<1>1. status = "run" /\ I.op = "auipc" /\ STORE_RESULT(Plus(b, c))
  BY DEF OP_AUIPC, Dispatch, Insn, I, Encode
<1>2. I.op \in UpperOps
  BY <1>1 DEF UpperOps
<1>3. Insn.dest = I.rd /\ k \in Int /\ 0 <= k /\ w = k % WORD
  BY <1>2, UpperFields
<1>4. M \in Int /\ M > 0
  BY UpperWidths
<1>5. ImmUpper * WORD + ImmLower = w * M /\ ImmUpper \in Int /\ ImmLower \in Word
  BY <1>2, UpperValue
<1>6. w = k
  <2>1. WORD \in Int
    BY Sizes
  <2>2. k < WORD
    OBVIOUS
  <2> HIDE DEF w, k
  <2>3. QED  BY <1>3, <2>1, <2>2, ModSmall, Zenon
<1>7. pc \in Int /\ 0 <= pc /\ d \in Int /\ 0 <= d /\ d < WORD - 1 /\ WORD \in Int
  <2> DEFINE n == Len(program)
  <2>1. /\ n \in Nat /\ pc \in Int /\ 0 <= pc /\ pc + 2 <= 2 * n /\ 2 * n + 2 <= 2 * HALF
        /\ 2 * HALF + 2 * HALF = WORD /\ HALF \in Int /\ HALF >= 16 /\ WORD \in Int
    BY ProgramBound, Zenon
  <2> HIDE DEF n
  <2>2. QED  BY <2>1
<1>8. ADDAL(pc, pc) = d
  BY <1>7 DEF ADDAL
<1>9. b \in Int \X Int /\ Full(b) = d
  BY <1>7, <1>8, Sizes DEF Full
<1>10. c \in Int \X Int /\ Full(c) = k * M
  <2>1. ImmLower \in Int
    BY <1>5, WordBound
  <2>2. Full(c) = w * M
    BY <1>5, Zenon DEF Full
  <2>3. QED  BY <1>5, <1>6, <2>1, <2>2
<1> HIDE DEF b, c
<1>11. Full(Plus(b, c)) = (Full(b) + Full(c)) % AMOD /\ Plus(b, c) \in Word \X Word
  BY <1>9, <1>10, FullOfPlus
<1>12. Full(b) + Full(c) = v /\ v \in Int
  <2> DEFINE e == k * M
  <2>1. e \in Int
    BY <1>3, <1>4
  <2> HIDE DEF e
  <2>2. d + e \in Int
    BY <1>7, <2>1
  <2>3. QED  BY <1>9, <1>10, <2>2, Zenon DEF e
<1> HIDE DEF v, d, w, k, M
<1>13. Full(Plus(b, c)) % XMOD = v % XMOD
  BY <1>11, <1>12, ModAccumulator, Zenon
<1>14. Plus(b, c) \in Int \X Word
  BY <1>11, PairInt
<1>15. Result(v)
  BY <1>1, <1>3, <1>12, <1>13, <1>14, ResultOfStore
<1>16. Oracle!Insn = I
  BY OracleInsn
<1>17. Oracle!At({"auipc"})
  BY <1>1, <1>16 DEF Oracle!At
<1>18. v = 2 * pc + I.imm * 2^Oracle!IMMBITS
  BY OracleSizes, Zenon DEF v
<1>19. Oracle!Auipc
  BY <1>15, <1>16, <1>17, <1>18, Zenon DEF Oracle!Auipc, Result, Bytes, Printed
<1>20. QED  BY <1>19, Zenon DEF Oracle!Next

LEMMA JumpsMatch ==
  ASSUME TypeOK, Len(program) < HALF, Jumps,
         I.op = "jal" => I.imm % 2 = 0, I.op = "auipc" => I.imm < WORD
  PROVE  Oracle!Next
<1>1. (OP_JAL => I.op = "jal") /\ (OP_AUIPC => I.op = "auipc")
  BY DEF OP_JAL, OP_AUIPC, Dispatch, Insn, I, Encode
<1>2. QED  BY <1>1, JalMatch, JalrMatch, LuiMatch, AuipcMatch, Zenon DEF Jumps

-----------------------------------------------------------------------------
(* 06-memory: byte a of the reference emulator's memory is half of the word   *)
(* at a \div 2.                                                              *)

Addresses == {2 * w : w \in DATA} \cup {2 * w + 1 : w \in DATA}
ByteOf(m, a) == (m[a \div 2] \div BYTE^(a % 2)) % BYTE

LEMMA BytesOfMemory == Bytes = [a \in Addresses |-> ByteOf(mem, a)]
  BY Zenon DEF Bytes, Addresses, ByteOf

LEMMA AddressHalves ==
  ASSUME NEW a \in Int
  PROVE  a \in Addresses <=> a \div 2 \in DATA
<1>1. DATA \subseteq Int
  <2>1. DATA \subseteq 0 .. HALF - 1 /\ HALF \in Int
    BY BootsAssumption, Sizes
  <2>2. QED  BY <2>1
<1>2. ASSUME NEW w \in DATA, a = 2 * w \/ a = 2 * w + 1
      PROVE  a \div 2 \in DATA
  <2>1. w \in Int
    BY <1>1
  <2>2. a \div 2 = w
    BY <1>2, <2>1
  <2>3. QED  BY <2>2
<1>3. ASSUME a \div 2 \in DATA
      PROVE  a \in Addresses
  <2> DEFINE w == a \div 2
  <2>1. a = 2 * w \/ a = 2 * w + 1
    OBVIOUS
  <2>2. w \in DATA
    BY <1>3
  <2> HIDE DEF w
  <2>3. QED  BY <2>1, <2>2 DEF Addresses
<1>4. QED  BY <1>2, <1>3 DEF Addresses

LEMMA AddressSmall ==
  ASSUME NEW a \in Int, a \in Addresses
  PROVE  a \div 2 \in DATA /\ 0 <= a /\ a < 2 * HALF /\ 2 * HALF \in Int /\ 4 * HALF = WORD
<1>1. a \div 2 \in DATA
  BY AddressHalves
<1>2. a \div 2 \in 0 .. HALF - 1 /\ HALF \in Int /\ WORD = 4 * HALF
  BY <1>1, BootsAssumption, Sizes
<1>3. 0 <= a /\ a < 2 * HALF /\ 2 * HALF \in Int
  BY <1>2
<1>4. QED  BY <1>1, <1>2, <1>3

LEMMA ByteOfHalves ==
  ASSUME NEW m \in Memory, NEW a \in Int, a \div 2 \in DATA
  PROVE  /\ m[a \div 2] \in Int /\ 0 <= m[a \div 2] /\ m[a \div 2] < HALF
         /\ a % 2 = 0 => ByteOf(m, a) = m[a \div 2] % BYTE
         /\ a % 2 = 1 => ByteOf(m, a) = m[a \div 2] \div BYTE
         /\ ByteOf(m, a) \in Int /\ 0 <= ByteOf(m, a) /\ ByteOf(m, a) < BYTE
<1> DEFINE w == m[a \div 2]
           q == w \div BYTE
<1>1. BYTE \in Int /\ BYTE > 0 /\ HALF \in Int /\ HALF = BYTE * BYTE
  BY Sizes
<1>2. w \in Int /\ 0 <= w /\ w < HALF
  <2>1. w \in 0 .. HALF - 1
    BY DEF Memory
  <2> HIDE DEF w
  <2>2. QED  BY <1>1, <2>1
<1> HIDE DEF w
<1>3. q \in Int /\ 0 <= q /\ q < BYTE
  BY <1>1, <1>2, QuotientRange, Zenon
<1>4. q % BYTE = q
  <2> HIDE DEF q
  <2>1. QED  BY <1>1, <1>3, ModSmall, Zenon
<1>5. w % BYTE \in Int /\ 0 <= w % BYTE /\ w % BYTE < BYTE
  BY <1>1, <1>2, RemainderRange, Zenon
<1>6. w \div 1 = w
  BY <1>2
<1>7. a % 2 = 0 => ByteOf(m, a) = w % BYTE
  <2>1. a % 2 = 0 => ByteOf(m, a) = (w \div BYTE^0) % BYTE
    BY Zenon DEF ByteOf, w
  <2>2. (w \div BYTE^0) % BYTE = w % BYTE
    BY <1>6, BytePowers, Zenon
  <2>3. QED  BY <2>1, <2>2, Zenon
<1>8. a % 2 = 1 => ByteOf(m, a) = q
  <2>1. a % 2 = 1 => ByteOf(m, a) = (w \div BYTE^1) % BYTE
    BY Zenon DEF ByteOf, w
  <2>2. (w \div BYTE^1) % BYTE = q
    BY <1>4, BytePowers, Zenon
  <2>3. QED  BY <2>1, <2>2, Zenon
<1>9. a % 2 = 0 \/ a % 2 = 1
  OBVIOUS
<1>10. QED  BY <1>2, <1>3, <1>5, <1>7, <1>8, <1>9, Zenon DEF w, q

(* The effective address of the two emulators, and the image check. *)
LEMMA AddressMatch ==
  ASSUME TypeOK, I.op \in LoadOps \cup StoreOps, NEW width \in {1, 2, 4}
  PROVE  /\ Oracle!InImage(Oracle!Address, width) <=> InImage(width)
         /\ InImage(width) => Oracle!Address = AL
         /\ AL \in Int /\ AL \in Word
<1> DEFINE x == Full(reg[I.rs1])
           v == Oracle!V1
           k == I.imm
           e == Oracle!Address
           h == EffectiveAddress[1] % HIMOD
<1>1. I.op \in LoadOps \cup StoreOps \cup {"jalr"}
  OBVIOUS
<1>2. I.rs1 \in Regs /\ k \in Int /\ reg[I.rs1] \in RegVal
  BY <1>1, EffectiveValue
<1>3. x \in Int /\ v \in Int /\ v % XMOD = x
  <2>1. x \in Int /\ 0 <= x /\ x < XMOD
    BY <1>2, RegFull
  <2>2. v = Oracle!Signed(x)
    <3>1. Oracle!Insn = I
      BY OracleInsn
    <3>2. QED  BY <1>2, <3>1 DEF Oracle!V1
  <2> HIDE DEF x, v
  <2>3. QED  BY <2>1, <2>2, SignedValue, Zenon
<1>4. e = (v + k) % XMOD
  <2>1. Oracle!Insn = I
    BY OracleInsn
  <2>2. QED  BY <2>1, OracleMask, Zenon DEF Oracle!Address
<1>5. XMOD \in Int /\ XMOD > 0
  BY Sizes
<1>6. /\ AL \in Word /\ AL \in Int /\ 0 <= AL /\ AL < WORD
      /\ h = 0 => (k + x) % XMOD = AL
      /\ h # 0 => (k + x) % XMOD >= WORD
  BY <1>1, EffectiveWords
<1> HIDE DEF x, v, k, e, h
<1>7. e = (k + x) % XMOD
  <2>1. ((v % XMOD) + k) % XMOD = (v + k) % XMOD
    BY <1>2, <1>3, <1>5, ModAdd, Zenon
  <2>2. x + k = k + x
    BY <1>2, <1>3
  <2>3. QED  BY <1>3, <1>4, <2>1, <2>2, Zenon
<1>8. e \in Int
  <2>1. v + k \in Int
    BY <1>2, <1>3
  <2>2. QED  BY <1>4, <1>5, <2>1, RemainderRange, Zenon
<1>9. Oracle!InImage(e, width) <=> \A j \in 0 .. width - 1 : e + j \in Addresses
  BY Zenon DEF Oracle!InImage, Oracle!ByteAddresses, Addresses
<1>10. CASE h = 0
  <2>1. e = AL
    BY <1>6, <1>7, <1>10
  <2>2. \A j \in 0 .. width - 1 : e + j \in Addresses <=> (e + j) \div 2 \in DATA
    <3>1. ASSUME NEW j \in 0 .. width - 1
          PROVE  e + j \in Addresses <=> (e + j) \div 2 \in DATA
      <4>1. e + j \in Int
        BY <1>8
      <4>2. QED  BY <4>1, AddressHalves, Zenon
    <3>2. QED  BY <3>1
  <2>3. InImage(width) <=> \A j \in 0 .. width - 1 : (e + j) \div 2 \in DATA
    BY <1>10, <2>1, Zenon DEF InImage, h
  <2>4. Oracle!InImage(e, width) <=> InImage(width)
    BY <1>9, <2>2, <2>3, Zenon
  <2>5. QED  BY <1>6, <2>1, <2>4, Zenon DEF e
<1>11. CASE h # 0
  <2>1. e >= WORD
    BY <1>6, <1>7, <1>11
  <2>2. e \notin Addresses
    <3>1. ASSUME e \in Addresses
          PROVE  FALSE
      <4>1. e < 2 * HALF /\ 2 * HALF \in Int /\ 4 * HALF = WORD
        BY <1>8, <3>1, AddressSmall, Zenon
      <4>2. HALF \in Int /\ HALF > 1 /\ WORD \in Int
        BY Sizes
      <4>3. QED  BY <1>8, <2>1, <4>1, <4>2
    <3>2. QED  BY <3>1
  <2>3. 0 \in 0 .. width - 1 /\ e + 0 = e
    BY <1>8
  <2>4. ~Oracle!InImage(e, width)
    BY <1>9, <2>2, <2>3, Zenon
  <2>5. ~InImage(width)
    BY <1>11, Zenon DEF InImage, h
  <2>6. QED  BY <1>6, <2>4, <2>5, Zenon DEF e
<1>12. QED  BY <1>10, <1>11

(* Loads of one byte and of two. *)
LEMMA ByteMatch ==
  ASSUME TypeOK, NEW al \in Word, al \in Int, al \div 2 \in DATA
  PROVE  /\ LOAD_BYTE_UNSIGNED(al) = ByteOf(mem, al)
         /\ ByteOf(mem, al) \in Int /\ 0 <= ByteOf(mem, al) /\ ByteOf(mem, al) < BYTE
<1> DEFINE w == mem[al \div 2]
           q == w \div BYTE
<1>1. mem \in Memory
  BY DEF TypeOK
<1>2. /\ w \in Int /\ 0 <= w /\ w < HALF
      /\ al % 2 = 0 => ByteOf(mem, al) = w % BYTE
      /\ al % 2 = 1 => ByteOf(mem, al) = q
      /\ ByteOf(mem, al) \in Int /\ 0 <= ByteOf(mem, al) /\ ByteOf(mem, al) < BYTE
  BY <1>1, ByteOfHalves
<1>3. RSHAL(al, 1) = al \div 2
  BY Cell
<1>4. LOAD_BYTE_UNSIGNED(al) = IF al % 2 = 0 THEN w % BYTE ELSE RSHAL(w, BYTEBITS) % BYTE
  BY <1>3, Zenon DEF LOAD_BYTE_UNSIGNED
<1>5. RSHAL(w, BYTEBITS) = q
  <2>1. w \in Word /\ w < WORD \div 2 /\ BYTEBITS \in 0 .. 36
    <3>1. WORD = 4 * HALF /\ HALF \in Int
      BY Sizes
    <3> HIDE DEF w
    <3>2. QED  BY <1>2, <3>1 DEF Word
  <2>2. RSHAL(w, BYTEBITS) = w \div 2^BYTEBITS
    BY <2>1, RshalType
  <2>3. QED  BY <2>2, Exponents, Zenon
<1>6. q % BYTE = q
  <2>1. BYTE \in Int /\ BYTE > 0 /\ HALF = BYTE * BYTE
    BY Sizes
  <2> HIDE DEF w
  <2>2. q \in Int /\ 0 <= q /\ q < BYTE
    BY <1>2, <2>1, QuotientRange, Zenon
  <2> HIDE DEF q
  <2>3. QED  BY <2>1, <2>2, ModSmall, Zenon
<1>7. al % 2 = 0 \/ al % 2 = 1
  OBVIOUS
<1>8. al % 2 = 1 => al % 2 # 0
  OBVIOUS
<1>9. QED  BY <1>2, <1>4, <1>5, <1>6, <1>7, <1>8, Zenon

(* Two bytes in the halves of a word of memory. *)
LEMMA TwoBytes ==
  ASSUME NEW x \in Int, 0 <= x, x < BYTE, NEW y \in Int, 0 <= y, y < BYTE
  PROVE  /\ SLSET(LSHAL(y, BYTEBITS), x) = x + BYTE * y
         /\ SLSET(x, LSHAL(y, BYTEBITS)) = x + BYTE * y
         /\ SLSET(y * BYTE, x) = x + BYTE * y
         /\ x + BYTE * y \in Int /\ 0 <= x + BYTE * y /\ x + BYTE * y < HALF
         /\ (x + BYTE * y) % BYTE = x /\ (x + BYTE * y) \div BYTE = y
<1>1. BYTE \in Int /\ BYTE > 0 /\ HALF = BYTE * BYTE /\ HALF \in Int /\ WORD = 4 * HALF
      /\ WORD \in Int
  BY Sizes
<1> DEFINE p == BYTE * y
           z == x + p
<1>2. p \in Int /\ 0 <= p /\ p + BYTE <= HALF
  <2>1. BYTE * y \in Int /\ 0 <= BYTE * y /\ BYTE * (y + 1) = BYTE * y + BYTE
    BY <1>1, SMT
  <2>2. (BYTE - (y + 1)) * BYTE >= 0 /\ (BYTE - (y + 1)) * BYTE = BYTE * BYTE - BYTE * (y + 1)
    BY <1>1, SMT
  <2> DEFINE u == BYTE * (y + 1)
             s == BYTE * BYTE
  <2>3. u = p + BYTE /\ s - u >= 0 /\ s = HALF
    BY <1>1, <2>1, <2>2
  <2> HIDE DEF u, s, p
  <2>4. QED  BY <1>1, <2>1, <2>3 DEF p
<1> HIDE DEF p
<1>3. z \in Int /\ 0 <= z /\ z < HALF
  BY <1>1, <1>2
<1>4. BYTE <= HALF
  BY <1>1, <1>2
<1>5. x \in Word /\ y \in Word /\ p \in Word /\ z < WORD /\ p < WORD
  BY <1>1, <1>2, <1>3, <1>4 DEF Word
<1>6. BYTE \in Weights
  BY Widths DEF Weights
<1>7. SLSET(x, p) = z /\ SLSET(p, x) = z
  <2>1. x + BYTE * y < WORD
    BY <1>5 DEF p
  <2>2. SLSET(x, BYTE * y) = x + BYTE * y /\ SLSET(BYTE * y, x) = x + BYTE * y
    BY <1>5, <1>6, <2>1, OrDisjoint
  <2>3. QED  BY <2>2 DEF p
<1>8. y * BYTE = p
  BY <1>1 DEF p
<1>9. LSHAL(y, BYTEBITS) = p
  <2>1. BYTEBITS \in 0 .. WBITS /\ 2^BYTEBITS = BYTE
    BY Widths, Exponents
  <2>2. y * 2^BYTEBITS = p
    BY <1>8, <2>1
  <2>3. LSHAL(y, BYTEBITS) = y * 2^BYTEBITS
    BY <1>5, <2>1, <2>2, LshalValue
  <2>4. QED  BY <2>2, <2>3, Zenon
<1> HIDE DEF z
<1>10. z % BYTE = x /\ z \div BYTE = y
  <2>1. z = BYTE * y + x
    BY <1>2 DEF z, p
  <2>2. QED  BY <1>1, <1>3, <2>1, Quotient, SMT
<1>11. QED  BY <1>3, <1>7, <1>8, <1>9, <1>10, Zenon DEF z, p

LEMMA HalfMatch ==
  ASSUME TypeOK, NEW al \in Word, al \in Int, al \div 2 \in DATA, (al + 1) \div 2 \in DATA
  PROVE  /\ LOAD_HALFWORD(al) = ByteOf(mem, al) + BYTE * ByteOf(mem, al + 1)
         /\ LOAD_HALFWORD(al) \in Int /\ 0 <= LOAD_HALFWORD(al) /\ LOAD_HALFWORD(al) < HALF
<1> DEFINE x == ByteOf(mem, al)
           y == ByteOf(mem, al + 1)
<1>1. x \in Int /\ 0 <= x /\ x < BYTE
  BY ByteMatch
<1>2. y \in Int /\ 0 <= y /\ y < BYTE
  <2>1. mem \in Memory /\ al + 1 \in Int
    BY DEF TypeOK
  <2>2. QED  BY <2>1, ByteOfHalves
<1>3. CASE al % 2 = 0
  <2> DEFINE w == mem[al \div 2]
  <2>1. al + 1 \in Int /\ (al + 1) % 2 = 1 /\ (al + 1) \div 2 = al \div 2 /\ mem \in Memory
    BY <1>3 DEF TypeOK
  <2>2. w \in Int /\ 0 <= w /\ w < HALF /\ x = w % BYTE
    BY <1>3, <2>1, ByteOfHalves
  <2>3. y = w \div BYTE
    BY <2>1, ByteOfHalves
  <2>4. LOAD_HALFWORD(al) = w
    BY <1>3, Cell DEF LOAD_HALFWORD
  <2> HIDE DEF x, y, w
  <2>5. w = x + BYTE * y
    <3>1. BYTE \in Int /\ BYTE > 0
      BY Sizes
    <3>2. x = w - BYTE * y
      BY <2>2, <2>3, <3>1, Remainder, Zenon
    <3> DEFINE p == BYTE * y
    <3>3. p \in Int
      BY <1>2, <3>1
    <3>4. x = w - p
      BY <3>2
    <3> HIDE DEF p
    <3>5. w = x + p
      BY <1>1, <2>2, <3>3, <3>4
    <3>6. QED  BY <3>5 DEF p
  <2>6. QED  BY <2>2, <2>4, <2>5, Zenon DEF x, y
<1>4. CASE al % 2 # 0
  <2>1. ADDAL(al, 1) = al + 1 /\ al + 1 \in Word /\ al + 1 \in Int
    BY Cell, Widths DEF ADDAL, Word
  <2>2. LOAD_BYTE_UNSIGNED(al) = x
    BY ByteMatch
  <2>3. LOAD_BYTE_UNSIGNED(al + 1) = y
    BY <2>1, ByteMatch
  <2>4. LOAD_HALFWORD(al) = SLSET(LSHAL(y, BYTEBITS), x)
    BY <1>4, <2>1, <2>2, <2>3, Zenon DEF LOAD_HALFWORD
  <2> HIDE DEF x, y
  <2>5. SLSET(LSHAL(y, BYTEBITS), x) = x + BYTE * y /\ x + BYTE * y \in Int
        /\ 0 <= x + BYTE * y /\ x + BYTE * y < HALF
    BY <1>1, <1>2, TwoBytes
  <2>6. QED  BY <2>4, <2>5, Zenon DEF x, y
<1>5. QED  BY <1>3, <1>4

(* Sign extension by OR-ing ones. *)
LEMMA SignExtendValue ==
  ASSUME NEW m \in {BYTE, HALF}, NEW b \in Int, 0 <= b, b < m
  PROVE  /\ Full(SignExtend(b, m \div 2)) = Oracle!Extend(b, m) % XMOD
         /\ Oracle!Extend(b, m) \in Int
<1> DEFINE s == m \div 2
           n == WORD \div m
           v == Oracle!Extend(b, m)
<1>1. /\ m \in Int /\ s \in Int /\ n \in Int /\ s \in Weights /\ m = 2 * s /\ s > 0 /\ n > 0
      /\ s * (2 * n) = WORD /\ m <= HALF
  <2>1. \/ m = 4 /\ s = 2 /\ WORD = 64 /\ n = 16 /\ HALF = 16
        \/ m = 16 /\ s = 8 /\ WORD = 64 /\ n = 4 /\ HALF = 16
        \/ m = 16 /\ s = 8 /\ WORD = 1024 /\ n = 64 /\ HALF = 256
        \/ m = 256 /\ s = 128 /\ WORD = 1024 /\ n = 4 /\ HALF = 256
        \/ m = 256 /\ s = 128 /\ WORD = 262144 /\ n = 1024 /\ HALF = 65536
        \/ m = 65536 /\ s = 32768 /\ WORD = 262144 /\ n = 4 /\ HALF = 65536
    BY Widths
  <2> HIDE DEF s, n
  <2>2. QED  BY <2>1, SMT DEF Weights
<1>2. v = IF b >= s THEN b - m ELSE b
  BY Zenon DEF Oracle!Extend
<1>3. /\ WORD \in Int /\ WORD = 4 * HALF /\ HALF \in Int /\ HIMOD \in Int /\ HIMOD > 1
      /\ XMOD = HIMOD * WORD /\ XMOD \in Int /\ HALF > 1
  BY Sizes
<1>4. WORD <= XMOD
  <2>1. (HIMOD - 1) * WORD >= 0 /\ (HIMOD - 1) * WORD = HIMOD * WORD - WORD
    BY <1>3, SMT
  <2>2. QED  BY <1>3, <2>1
<1> HIDE DEF s, n, v
<1>5. BitSet(b, s) <=> b >= s
  <2> DEFINE q == b \div s
             r == b % s
  <2>1. q \in Int /\ r \in Int /\ 0 <= r /\ r < s /\ r = b - s * q
    BY <1>1, RemainderRange, Remainder, Zenon
  <2>2. 0 <= q /\ q < 2
    <3>1. b < s * 2
      BY <1>1
    <3>2. s \in Int /\ s > 0 /\ 2 \in Int
      BY <1>1
    <3>3. QED  BY <3>1, <3>2, QuotientRange, Zenon
  <2> HIDE DEF q, r
  <2>3. q = 0 \/ q = 1
    BY <2>1, <2>2
  <2>4. (q = 0 => b < s) /\ (q = 1 => b >= s)
    <3>1. q = 0 => r = b - s * 0
      BY <2>1
    <3>2. q = 1 => r = b - s * 1
      BY <2>1
    <3>3. QED  BY <1>1, <2>1, <3>1, <3>2
  <2>5. BitSet(b, s) <=> q % 2 = 1
    BY Zenon DEF BitSet, q
  <2>6. QED  BY <1>1, <2>3, <2>4, <2>5
<1>6. CASE b >= s
  <2> DEFINE x == b - s
             t == b - m
             f == SLSET(b, WORD - s)
  <2>1. x \in Word /\ x < s /\ x + s = b
    BY <1>1, <1>3, <1>6 DEF Word
  <2>2. f = x + (WORD - s)
    <3> HIDE DEF x
    <3>1. SLSET(x + s, WORD - s) = x + (WORD - s)
      BY <1>1, <2>1, OrOnes
    <3>2. QED  BY <2>1, <3>1
  <2>3. SignExtend(b, s) = <<HIMOD - 1, f>>
    BY <1>5, <1>6, Zenon DEF SignExtend
  <2>4. f = t + WORD /\ f \in Int
    BY <1>1, <1>3, <2>2
  <2> HIDE DEF f
  <2>5. Full(SignExtend(b, s)) = (HIMOD - 1) * WORD + f
    BY <2>3 DEF Full
  <2>6. (HIMOD - 1) * WORD = XMOD - WORD
    BY <1>3, SMT
  <2> DEFINE u == t + XMOD
  <2>7. Full(SignExtend(b, s)) = u
    BY <1>1, <1>3, <2>4, <2>5, <2>6
  <2>8. u \in Int /\ 0 <= u /\ u < XMOD /\ t = XMOD * (-1) + u /\ t \in Int /\ -1 \in Int
        /\ XMOD > 0
    BY <1>1, <1>3, <1>4, <1>6
  <2>9. v = t
    BY <1>2, <1>6
  <2> HIDE DEF t, u
  <2>10. t % XMOD = u
    BY <1>3, <2>8, Quotient, SMT
  <2>11. QED  BY <2>7, <2>8, <2>9, <2>10, Zenon DEF v, s
<1>7. CASE ~(b >= s)
  <2>1. SignExtend(b, s) = <<0, b>>
    BY <1>5, <1>7, Zenon DEF SignExtend
  <2>2. Full(SignExtend(b, s)) = b
    BY <1>3, <2>1 DEF Full
  <2>3. v = b
    BY <1>2, <1>7
  <2>4. b < XMOD
    BY <1>1, <1>3, <1>4
  <2>5. b % XMOD = b
    BY <1>3, <2>4, ModSmall, Zenon
  <2>6. QED  BY <2>2, <2>3, <2>5, Zenon DEF v, s
<1>8. QED  BY <1>6, <1>7

(* A load is a load of the reference emulator when the values agree. *)
LEMMA LoadMatch ==
  ASSUME TypeOK, status = "run", I.op \in LoadOps, NEW width \in {1, 2, 4},
         Oracle!Width(I.op) = width, InImage(width),
         NEW v, Oracle!LoadValue(I.op, AL) = v, Result(v)
  PROVE  Oracle!Next
<1>1. Oracle!Insn = I
  BY OracleInsn
<1>2. Oracle!At(Oracle!LoadOps)
  BY <1>1, OracleSets DEF Oracle!At
<1>3. Oracle!Address = AL /\ Oracle!InImage(Oracle!Address, width)
  BY AddressMatch
<1>4. Oracle!InImage(Oracle!Address, Oracle!Width(Oracle!Insn.op))
  BY <1>1, <1>3, Zenon
<1>5. Oracle!LoadValue(Oracle!Insn.op, Oracle!Address) = v
  BY <1>1, <1>3, Zenon
<1>6. Oracle!Load
  BY <1>1, <1>2, <1>4, <1>5, Zenon DEF Oracle!Load, Result, Bytes, Printed
<1>7. QED  BY <1>6, Zenon DEF Oracle!Next

LEMMA LoadOperands ==
  ASSUME TypeOK, I.op \in LoadOps, NEW width \in {1, 2, 4}, InImage(width)
  PROVE  /\ Insn.dest = I.rd /\ AL \in Word /\ AL \in Int
         /\ \A k \in 0 .. width - 1 : (AL + k) \div 2 \in DATA /\ AL + k \in Int
         /\ \A k \in 0 .. width - 1 : Bytes[AL + k] = ByteOf(mem, AL + k)
         /\ AL \div 2 \in DATA /\ Bytes[AL] = ByteOf(mem, AL)
<1>1. Insn.dest = I.rd
  BY FirstOperand DEF LoadOps, UpperOps, BranchOps, StoreOps
<1>2. AL \in Word /\ AL \in Int
  BY AddressMatch
<1>3. ASSUME NEW k \in 0 .. width - 1
      PROVE  (AL + k) \div 2 \in DATA /\ AL + k \in Int /\ Bytes[AL + k] = ByteOf(mem, AL + k)
  <2>1. (AL + k) \div 2 \in DATA
    BY DEF InImage
  <2>2. AL + k \in Int
    BY <1>2
  <2>3. AL + k \in Addresses
    BY <2>1, <2>2, AddressHalves
  <2>4. QED  BY <2>1, <2>2, <2>3, BytesOfMemory, Zenon
<1>4. 0 \in 0 .. width - 1 /\ AL + 0 = AL
  BY <1>2
<1>5. QED  BY <1>1, <1>2, <1>3, <1>4, Zenon

LEMMA Below ==
  ASSUME NEW x \in Int, 0 <= x, x < HALF
  PROVE  x \in Word /\ x % XMOD = x /\ x < BYTE * HALF /\ x \in 0 .. HALF - 1
<1>1. /\ HALF \in Int /\ HALF > 1 /\ WORD = 4 * HALF /\ WORD \in Int /\ XMOD \in Int
      /\ XMOD = HALF * HALF /\ BYTE \in Int /\ BYTE > 1
  BY Sizes
<1>2. HALF <= XMOD /\ HALF <= BYTE * HALF /\ BYTE * HALF \in Int
  <2>1. HALF * HALF >= HALF /\ HALF * BYTE >= HALF /\ HALF * BYTE = BYTE * HALF
    BY <1>1, MulGe, SMT
  <2>2. QED  BY <1>1, <2>1
<1>3. x < XMOD
  BY <1>1, <1>2
<1>4. x % XMOD = x
  BY <1>1, <1>3, ModSmall, Zenon
<1>5. QED  BY <1>1, <1>2, <1>4 DEF Word

LEMMA ByteSmall ==
  ASSUME NEW x \in Int, 0 <= x, x < BYTE
  PROVE  x < HALF
<1>1. HALF = BYTE * BYTE /\ BYTE \in Int /\ BYTE > 1 /\ HALF \in Int
  BY Sizes
<1>2. BYTE * BYTE >= BYTE
  BY <1>1, MulGe, SMT
<1>3. QED  BY <1>1, <1>2

LEMMA LoadByteMatch ==
  ASSUME TypeOK, Len(program) < HALF, OP_LBU \/ OP_LB
  PROVE  Oracle!Next
<1> DEFINE b == LOAD_BYTE_UNSIGNED(AL)
<1>1. status = "run" /\ InImage(1) /\ I.op \in {"lbu", "lb"}
  BY DEF OP_LBU, OP_LB, Dispatch, Insn, I, Encode
<1>2. I.op \in LoadOps /\ Oracle!Width(I.op) = 1
  BY <1>1 DEF LoadOps, Oracle!Width
<1>3. Insn.dest = I.rd /\ AL \in Word /\ AL \in Int /\ AL \div 2 \in DATA
      /\ Bytes[AL] = ByteOf(mem, AL)
  BY <1>1, <1>2, LoadOperands
<1>4. b = Bytes[AL] /\ b \in Int /\ 0 <= b /\ b < BYTE
  BY <1>3, ByteMatch
<1> HIDE DEF b
<1>5. b < HALF
  BY <1>4, ByteSmall
<1>6. b \in Word /\ b % XMOD = b /\ b \in 0 .. HALF - 1
  BY <1>4, <1>5, Below
<1>7. Oracle!ByteAt(AL) = b
  BY <1>4, Zenon DEF Oracle!ByteAt, Bytes
<1>8. CASE OP_LBU
  <2>1. STORE_RESULT_LOWER(b) /\ I.op = "lbu"
    BY <1>8 DEF OP_LBU, b, Dispatch, Insn, I, Encode
  <2>2. Result(b)
    BY <1>1, <1>3, <1>4, <1>6, <2>1, ResultOfLower
  <2>3. Oracle!LoadValue(I.op, AL) = b
    BY <1>7, <2>1 DEF Oracle!LoadValue
  <2>4. QED  BY <1>1, <1>2, <2>2, <2>3, LoadMatch
<1>9. CASE OP_LB
  <2> DEFINE v == Oracle!Extend(b, BYTE)
             a == SignExtend(b, BYTE \div 2)
  <2>1. STORE_RESULT_PREMASKED(a) /\ I.op = "lb"
    BY <1>9 DEF OP_LB, b, Dispatch, Insn, I, Encode
  <2>2. a \in RegVal
    BY <1>6, SignExtendType
  <2>3. Full(a) = v % XMOD /\ v \in Int
    BY <1>4, SignExtendValue
  <2> HIDE DEF a, v
  <2>4. Result(v)
    BY <1>1, <1>3, <2>1, <2>2, <2>3, ResultOfPremasked
  <2>5. Oracle!LoadValue(I.op, AL) = Oracle!Extend(Oracle!ByteAt(AL), Oracle!BYTE)
    BY <2>1 DEF Oracle!LoadValue
  <2>6. Oracle!LoadValue(I.op, AL) = v
    BY <1>7, <2>5, OracleSizes, Zenon DEF v
  <2>7. QED  BY <1>1, <1>2, <2>4, <2>6, LoadMatch
<1>10. QED  BY <1>8, <1>9

LEMMA OracleU16 ==
  ASSUME TypeOK, NEW al \in Word, al \in Int, al \div 2 \in DATA, (al + 1) \div 2 \in DATA,
         Bytes[al] = ByteOf(mem, al), Bytes[al + 1] = ByteOf(mem, al + 1)
  PROVE  Oracle!U16(al) = LOAD_HALFWORD(al)
<1>1. LOAD_HALFWORD(al) = ByteOf(mem, al) + BYTE * ByteOf(mem, al + 1)
  BY HalfMatch
<1>2. Oracle!ByteAt(al) = Bytes[al] /\ Oracle!ByteAt(al + 1) = Bytes[al + 1]
  BY Zenon DEF Oracle!ByteAt, Bytes
<1>3. QED  BY <1>1, <1>2, OracleSizes, Zenon DEF Oracle!U16

LEMMA LoadHalfMatch ==
  ASSUME TypeOK, Len(program) < HALF, OP_LHU \/ OP_LH
  PROVE  Oracle!Next
<1> DEFINE b == LOAD_HALFWORD(AL)
<1>1. status = "run" /\ InImage(2) /\ I.op \in {"lhu", "lh"}
  BY DEF OP_LHU, OP_LH, Dispatch, Insn, I, Encode
<1>2. I.op \in LoadOps /\ Oracle!Width(I.op) = 2
  BY <1>1 DEF LoadOps, Oracle!Width
<1>3. /\ Insn.dest = I.rd /\ AL \in Word /\ AL \in Int /\ AL \div 2 \in DATA
      /\ Bytes[AL] = ByteOf(mem, AL)
      /\ (AL + 1) \div 2 \in DATA /\ Bytes[AL + 1] = ByteOf(mem, AL + 1)
  <2>1. 1 \in 0 .. 2 - 1
    OBVIOUS
  <2>2. QED  BY <1>1, <1>2, <2>1, LoadOperands
<1>4. b \in Int /\ 0 <= b /\ b < HALF
  BY <1>3, HalfMatch
<1>5. Oracle!U16(AL) = b
  BY <1>3, OracleU16
<1> HIDE DEF b
<1>6. b \in Word /\ b % XMOD = b /\ b \in 0 .. HALF - 1
  BY <1>4, Below
<1>8. CASE OP_LHU
  <2>1. STORE_RESULT_LOWER(b) /\ I.op = "lhu"
    BY <1>8 DEF OP_LHU, b, Dispatch, Insn, I, Encode
  <2>2. Result(b)
    BY <1>1, <1>3, <1>4, <1>6, <2>1, ResultOfLower
  <2>3. Oracle!LoadValue(I.op, AL) = b
    BY <1>5, <2>1 DEF Oracle!LoadValue
  <2>4. QED  BY <1>1, <1>2, <2>2, <2>3, LoadMatch
<1>9. CASE OP_LH
  <2> DEFINE v == Oracle!Extend(b, HALF)
             a == SignExtend(b, HALF \div 2)
  <2>1. STORE_RESULT_PREMASKED(a) /\ I.op = "lh"
    BY <1>9 DEF OP_LH, b, Dispatch, Insn, I, Encode
  <2>2. a \in RegVal
    BY <1>6, SignExtendType
  <2>3. Full(a) = v % XMOD /\ v \in Int
    BY <1>4, SignExtendValue
  <2> HIDE DEF a, v
  <2>4. Result(v)
    BY <1>1, <1>3, <2>1, <2>2, <2>3, ResultOfPremasked
  <2>5. Oracle!LoadValue(I.op, AL) = Oracle!Extend(Oracle!U16(AL), Oracle!HALF)
    BY <2>1 DEF Oracle!LoadValue
  <2>6. Oracle!LoadValue(I.op, AL) = v
    BY <1>5, <2>5, OracleSizes, Zenon DEF v
  <2>7. QED  BY <1>1, <1>2, <2>4, <2>6, LoadMatch
<1>10. QED  BY <1>8, <1>9

(* A circular shift by a halfword: what is shifted out comes around. *)
LEMMA ShiftHalf ==
  ASSUME NEW a \in Word \X Word
  PROVE  LET u == LSHA(a, 2 * BYTEBITS)
             v == 16 * HALF
         IN  /\ u \in Word \X Word /\ v \in Int /\ v > 0 /\ HALF * v = AMOD
             /\ Full(u) = (Full(a) % v) * HALF + (Full(a) \div v)
<1> DEFINE n == 2 * BYTEBITS
           u == LSHA(a, n)
           p == 2^n
           q == 2^(2 * WBITS - n)
           v == 16 * HALF
<1>1. /\ HALF \in Int /\ HALF > 0 /\ AMOD = WORD * WORD /\ WORD = 4 * HALF /\ v \in Int /\ v > 0
  BY Sizes
<1>2. n \in 0 .. XLEN /\ n \in 0 .. XLEN - 1
  BY Widths
<1>3. Full(u) = (Full(a) % q) * p + (Full(a) \div q) /\ q \in Int /\ q > 0 /\ q * p = AMOD
  BY <1>2, FullOfLsha
<1>4. p = HALF
  BY Exponents
<1>5. u \in Word \X Word
  BY <1>2, LshaType
<1>6. HALF * v = AMOD
  BY <1>1, SMT
<1> HIDE DEF n, u, p, q, v
<1>7. q = v
  <2>1. HALF * q + 0 = HALF * v + 0
    BY <1>1, <1>3, <1>4, <1>6
  <2>2. 0 \in Int /\ 0 <= 0 /\ 0 < HALF
    BY <1>1
  <2>3. QED  BY <1>1, <1>3, <2>1, <2>2, DivisionUnique, SMT
<1>8. QED  BY <1>1, <1>3, <1>4, <1>5, <1>6, <1>7, Zenon DEF u, n, v

(* A halfword shifted up by one. *)
LEMMA ShiftUp ==
  ASSUME NEW h \in Int, 0 <= h, h < HALF
  PROVE  /\ LSHA(<<0, h>>, 2 * BYTEBITS) \in Word \X Word
         /\ Full(LSHA(<<0, h>>, 2 * BYTEBITS)) = HALF * h
         /\ HALF * h \in Int /\ 0 <= HALF * h
<1> DEFINE a == <<0, h>>
           u == LSHA(a, 2 * BYTEBITS)
           v == 16 * HALF
           z == HALF * h
<1>1. HALF \in Int /\ HALF > 0 /\ WORD \in Int /\ v \in Int
  BY Sizes
<1>2. a \in Word \X Word /\ Full(a) = h
  <2>1. Full(a) = 0 * WORD + h
    BY DEF Full
  <2>2. h \in Word
    BY Below
  <2>3. QED  BY <1>1, <2>1, <2>2, ZeroIsWord
<1> HIDE DEF a
<1>3. u \in Word \X Word /\ Full(u) = (h % v) * HALF + (h \div v)
  BY <1>2, ShiftHalf, Zenon
<1>4. h % v = h /\ h \div v = 0
  <2>1. h < v
    BY <1>1
  <2> HIDE DEF v
  <2>2. QED  BY <1>1, <2>1, ModSmall, Zenon
<1>5. z \in Int /\ 0 <= z
  BY <1>1, SMT
<1>6. Full(u) = z
  <2>1. Full(u) = h * HALF + 0
    BY <1>3, <1>4, Zenon
  <2> HIDE DEF u
  <2>2. QED  BY <1>1, <1>5, <2>1
<1>7. QED  BY <1>3, <1>5, <1>6, Zenon DEF u, a, z

(* Two halfwords put together to a register. *)
LEMMA WordOfHalves ==
  ASSUME NEW h \in Int, 0 <= h, h < HALF, NEW l \in Int, 0 <= l, l < HALF
  PROVE  LET u == LSHA(<<0, h>>, 2 * BYTEBITS)
         IN  /\ <<u[1], SLSET(u[2], l)>> \in RegVal
             /\ Full(<<u[1], SLSET(u[2], l)>>) = l + HALF * h
             /\ l + HALF * h \in Int /\ (l + HALF * h) % XMOD = l + HALF * h
<1> DEFINE a == <<0, h>>
           n == 2 * BYTEBITS
           u == LSHA(a, n)
           c == h % 4
           z == HALF * h
<1>1. /\ HALF \in Int /\ HALF > 0 /\ WORD \in Int /\ WORD = HALF * 4
      /\ XMOD \in Int /\ WORD > 0 /\ WORD = 4 * HALF
  BY Sizes
<1>2. h \in Word /\ l \in Word /\ h \in 0 .. HALF - 1 /\ l \in 0 .. HALF - 1
  BY Below
<1>3. u \in Word \X Word /\ Full(u) = z /\ z \in Int /\ 0 <= z
  BY ShiftUp, Zenon
<1>4. u[1] \in 0 .. HIMOD - 1 /\ u[2] \in Word
  BY <1>2, CellUp
<1> HIDE DEF a, n, u
<1>5. z \in Int /\ 0 <= z
  BY <1>3, Zenon
<1>6. Full(u) = z
  BY <1>3, Zenon
<1>7. c \in Int /\ 0 <= c /\ c < 4
  OBVIOUS
<1>8. u[2] = HALF * c
  <2>1. u[2] = Full(u) % WORD
    BY <1>3, FullInjective, SMT
  <2>2. (HALF * h) % (HALF * 4) = HALF * (h % 4)
    <3>1. 4 \in Int /\ 4 > 0
      OBVIOUS
    <3>2. QED  BY <1>1, <3>1, Scale, Zenon
  <2>3. QED  BY <1>1, <1>6, <2>1, <2>2, Zenon
<1> DEFINE d == HALF * c
<1> HIDE DEF c
<1>9. c \in Word
  BY <1>1, <1>7, WordBound DEF Word
<1>10. l + HALF * c < WORD
  <2>1. d \in {0, HALF, 2 * HALF, 3 * HALF}
    <3>1. c \in {0, 1, 2, 3}
      BY <1>7
    <3>2. QED  BY <1>1, <3>1
  <2> HIDE DEF d
  <2>2. l + d < WORD
    BY <1>1, <2>1
  <2>3. QED  BY <2>2 DEF d
<1>11. SLSET(d, l) = l + d /\ SLSET(d, l) \in Word
  <2>1. HALF \in Weights
    BY Widths DEF Weights
  <2>2. SLSET(HALF * c, l) = l + HALF * c
    BY <1>2, <1>9, <1>10, <2>1, OrDisjoint
  <2>3. d \in Word
    BY <1>4, <1>8
  <2>4. QED  BY <1>2, <2>2, <2>3, WordBits
<1>12. d \in Int
  BY <1>1, <1>7
<1> HIDE DEF d, z
<1>13. u[1] \in Int /\ u[1] * WORD \in Int /\ u[1] * WORD + d = z
  <2>1. u[1] \in Int
    BY <1>4, Sizes
  <2>2. Full(u) = u[1] * WORD + d
    BY <1>8, Zenon DEF Full, d
  <2>3. QED  BY <1>1, <1>6, <2>1, <2>2
<1>14. Full(<<u[1], SLSET(u[2], l)>>) = l + z
  <2>1. Full(<<u[1], SLSET(u[2], l)>>) = u[1] * WORD + (l + d)
    BY <1>8, <1>11, Zenon DEF Full, d
  <2>2. QED  BY <1>12, <1>13, <2>1
<1>15. <<u[1], SLSET(u[2], l)>> \in RegVal
  BY <1>4, <1>8, <1>11, Zenon DEF RegVal, d
<1>16. (l + z) % XMOD = l + z
  <2> DEFINE f == Full(<<u[1], SLSET(u[2], l)>>)
  <2>1. f \in Int /\ 0 <= f /\ f < XMOD
    BY <1>15, RegFull
  <2> HIDE DEF f
  <2>2. f % XMOD = f
    BY <1>1, <2>1, ModSmall, Zenon
  <2>3. QED  BY <1>14, <2>2, Zenon DEF f
<1>17. l + z \in Int
  BY <1>5
<1>18. QED  BY <1>14, <1>15, <1>16, <1>17, Zenon DEF u, a, n, z

LEMMA LoadWordMatch ==
  ASSUME TypeOK, Len(program) < HALF, OP_LW
  PROVE  Oracle!Next
<1> DEFINE l == LOAD_HALFWORD(AL)
           h == LOAD_HALFWORD(AL + 2)
           u == LSHA(<<0, h>>, 2 * BYTEBITS)
           a == <<u[1], SLSET(u[2], l)>>
           v == l + HALF * h
<1>1. status = "run" /\ InImage(4) /\ I.op = "lw"
  BY DEF OP_LW, Dispatch, Insn, I, Encode
<1>2. I.op \in LoadOps /\ Oracle!Width(I.op) = 4
  BY <1>1 DEF LoadOps, Oracle!Width
<1>3. /\ Insn.dest = I.rd /\ AL \in Word /\ AL \in Int /\ AL \div 2 \in DATA
      /\ Bytes[AL] = ByteOf(mem, AL)
      /\ \A k \in 0 .. 3 : (AL + k) \div 2 \in DATA /\ Bytes[AL + k] = ByteOf(mem, AL + k)
  <2>1. 4 \in {1, 2, 4} /\ 4 - 1 = 3
    OBVIOUS
  <2>2. QED  BY <1>1, <1>2, <2>1, LoadOperands
<1>4. /\ (AL + 1) \div 2 \in DATA /\ Bytes[AL + 1] = ByteOf(mem, AL + 1)
      /\ (AL + 2) \div 2 \in DATA /\ Bytes[AL + 2] = ByteOf(mem, AL + 2)
      /\ (AL + 3) \div 2 \in DATA /\ Bytes[AL + 3] = ByteOf(mem, AL + 3)
  BY <1>3
<1>5. /\ AL + 2 \in Word /\ AL + 2 \in Int /\ ADDAL(AL, 2) = AL + 2 /\ (AL + 2) + 1 = AL + 3
  <2> DEFINE t == AL
  <2>1. t \in Int /\ 0 <= t /\ t < WORD \div 2
    BY <1>3, Cell, WordBound
  <2>2. WORD = 4 * HALF /\ HALF \in Int /\ HALF >= 16
    BY ProgramBound, Sizes
  <2> HIDE DEF t
  <2>3. t + 2 \in Word /\ t + 2 \in Int /\ ADDAL(t, 2) = t + 2 /\ (t + 2) + 1 = t + 3
    BY <2>1, <2>2 DEF Word, ADDAL
  <2>4. QED  BY <2>3 DEF t
<1>6. l \in Int /\ 0 <= l /\ l < HALF /\ Oracle!U16(AL) = l
  BY <1>3, <1>4, HalfMatch, OracleU16
<1>7. h \in Int /\ 0 <= h /\ h < HALF /\ Oracle!U16(AL + 2) = h
  <2> DEFINE t == AL + 2
  <2>1. t \in Word /\ t \in Int /\ t \div 2 \in DATA /\ (t + 1) \div 2 \in DATA
        /\ Bytes[t] = ByteOf(mem, t) /\ Bytes[t + 1] = ByteOf(mem, t + 1)
    BY <1>4, <1>5, Zenon
  <2> HIDE DEF t
  <2>2. LOAD_HALFWORD(t) \in Int /\ 0 <= LOAD_HALFWORD(t) /\ LOAD_HALFWORD(t) < HALF
        /\ Oracle!U16(t) = LOAD_HALFWORD(t)
    BY <2>1, HalfMatch, OracleU16
  <2>3. QED  BY <2>2 DEF t
<1>8. STORE_RESULT_PREMASKED(a)
  BY <1>5, Zenon DEF OP_LW
<1> HIDE DEF l, h
<1>9. a \in RegVal /\ Full(a) = v /\ v \in Int /\ v % XMOD = v
  <2>1. h \in Int /\ 0 <= h /\ h < HALF /\ l \in Int /\ 0 <= l /\ l < HALF
    BY <1>6, <1>7, Zenon
  <2>2. QED  BY <2>1, WordOfHalves, Zenon
<1> HIDE DEF a
<1>10. Oracle!LoadValue(I.op, AL) = v
  <2>1. Oracle!LoadValue(I.op, AL) = Oracle!U32(AL)
    BY <1>1 DEF Oracle!LoadValue
  <2>2. QED  BY <1>6, <1>7, <2>1, OracleSizes, Zenon DEF Oracle!U32
<1> HIDE DEF v
<1>11. Result(v)
  BY <1>1, <1>3, <1>8, <1>9, ResultOfPremasked
<1>12. QED  BY <1>1, <1>2, <1>10, <1>11, LoadMatch

(* A store changes the bytes of the address and no other. *)
LEMMA CellChanged ==
  ASSUME NEW m \in Memory, NEW w \in DATA, w \in Int, NEW n \in Int, 0 <= n, n < HALF,
         NEW a \in Int, a \in Addresses
  PROVE  /\ [m EXCEPT ![w] = n] \in Memory
         /\ a = 2 * w => ByteOf([m EXCEPT ![w] = n], a) = n % BYTE
         /\ a = 2 * w + 1 => ByteOf([m EXCEPT ![w] = n], a) = n \div BYTE
         /\ a # 2 * w /\ a # 2 * w + 1 => ByteOf([m EXCEPT ![w] = n], a) = ByteOf(m, a)
<1> DEFINE f == [m EXCEPT ![w] = n]
<1>1. f \in Memory
  <2>1. n \in 0 .. HALF - 1
    BY Sizes
  <2>2. QED  BY <2>1 DEF Memory
<1>2. a \div 2 \in DATA
  BY AddressHalves
<1>3. f[w] = n /\ (a \div 2 # w => f[a \div 2] = m[a \div 2])
  BY <1>2 DEF Memory
<1> HIDE DEF f
<1>4. /\ a % 2 = 0 => ByteOf(f, a) = f[a \div 2] % BYTE
      /\ a % 2 = 1 => ByteOf(f, a) = f[a \div 2] \div BYTE
  BY <1>1, <1>2, ByteOfHalves
<1>5. a = 2 * w => a \div 2 = w /\ a % 2 = 0
  OBVIOUS
<1>6. a = 2 * w + 1 => a \div 2 = w /\ a % 2 = 1
  OBVIOUS
<1>7. a # 2 * w /\ a # 2 * w + 1 => a \div 2 # w
  OBVIOUS
<1>8. a \div 2 # w => ByteOf(f, a) = ByteOf(m, a)
  BY <1>3, Zenon DEF ByteOf
<1>9. QED  BY <1>1, <1>3, <1>4, <1>5, <1>6, <1>7, <1>8, Zenon DEF f

LEMMA HalvesOf ==
  ASSUME NEW al \in Int, al \div 2 \in DATA
  PROVE  /\ al \div 2 \in Int
         /\ al % 2 = 0 => al = 2 * (al \div 2) /\ al + 1 = 2 * (al \div 2) + 1
         /\ al % 2 # 0 => al = 2 * (al \div 2) + 1 /\ al - 1 = 2 * (al \div 2)
  OBVIOUS

LEMMA AddressesAreIntegers == \A a \in Addresses : a \in Int
<1>1. DATA \subseteq 0 .. HALF - 1 /\ HALF \in Int
  BY BootsAssumption, Sizes
<1>2. QED  BY <1>1 DEF Addresses

LEMMA HalvedCell ==
  ASSUME NEW al \in Word, al \in Int, al \div 2 \in DATA
  PROVE  RSHAL(al, 1) = al \div 2 /\ al < 2 * HALF /\ 2 * HALF \in Int
<1>1. al \div 2 \in 0 .. HALF - 1
  BY BootsAssumption
<1>2. al < WORD \div 2 /\ al < 2 * HALF /\ 2 * HALF \in Int
  BY <1>1, Widths, Sizes DEF Word
<1>3. QED  BY <1>2, RshalType

LEMMA ByteStored ==
  ASSUME NEW m \in Memory, NEW al \in Word, al \in Int, al \div 2 \in DATA,
         NEW b \in Int, 0 <= b, b < BYTE
  PROVE  /\ STORE_BYTE(m, al, b) \in Memory
         /\ \A a \in Addresses :
              ByteOf(STORE_BYTE(m, al, b), a) = IF a = al THEN b ELSE ByteOf(m, a)
<1> DEFINE w == al \div 2
<1>1. RSHAL(al, 1) = w
  BY HalvedCell, Zenon
<1>2. /\ w \in Int
      /\ al % 2 = 0 => al = 2 * w /\ al + 1 = 2 * w + 1
      /\ al % 2 # 0 => al = 2 * w + 1 /\ al - 1 = 2 * w
  BY HalvesOf
<1>3. w \in DATA
  OBVIOUS
<1>4. w \in DOMAIN m
  BY <1>3 DEF Memory
<1>5. CASE al % 2 = 0
  <2> DEFINE y == (m[w] \div BYTE) % BYTE
             n == SLSET(y * BYTE, b)
             f == [m EXCEPT ![w] = n]
  <2>1. STORE_BYTE(m, al, b) = f
    <3>1. STORE_BYTE(m, al, b) =
            [m EXCEPT ![w] = IF al % 2 = 0 THEN n ELSE SLSET(m[w] % BYTE, LSHAL(b, BYTEBITS))]
      BY <1>1, Zenon DEF STORE_BYTE
    <3>2. QED  BY <1>5, <3>1, Zenon
  <2>2. al + 1 \in Int /\ (al + 1) \div 2 = w /\ (al + 1) % 2 = 1
    BY <1>5
  <2>3. y = ByteOf(m, al + 1)
    BY <2>2, BytePowers, Zenon DEF ByteOf
  <2>4. y \in Int /\ 0 <= y /\ y < BYTE
    BY <1>3, <2>2, <2>3, ByteOfHalves
  <2> HIDE DEF y
  <2>5. n = b + BYTE * y /\ n \in Int /\ 0 <= n /\ n < HALF /\ n % BYTE = b /\ n \div BYTE = y
    BY <2>4, TwoBytes, Zenon
  <2> HIDE DEF n, w
  <2>6. ASSUME NEW a \in Addresses
        PROVE  f \in Memory /\ ByteOf(f, a) = IF a = al THEN b ELSE ByteOf(m, a)
    <3>1. a \in Int
      BY AddressesAreIntegers
    <3>2. /\ f \in Memory
          /\ a = 2 * w => ByteOf(f, a) = n % BYTE
          /\ a = 2 * w + 1 => ByteOf(f, a) = n \div BYTE
          /\ a # 2 * w /\ a # 2 * w + 1 => ByteOf(f, a) = ByteOf(m, a)
      BY <1>2, <1>3, <2>5, <3>1, CellChanged
    <3> HIDE DEF f
    <3>3. al # 2 * w + 1
      BY <1>2, <1>5
    <3>4. QED  BY <1>2, <1>5, <2>3, <2>5, <3>2, <3>3, Zenon
  <2>7. al \in Addresses
    BY AddressHalves
  <2>8. QED  BY <2>1, <2>6, <2>7, Zenon
<1>6. CASE al % 2 # 0
  <2> DEFINE x == m[w] % BYTE
             n == SLSET(x, LSHAL(b, BYTEBITS))
             f == [m EXCEPT ![w] = n]
  <2>1. STORE_BYTE(m, al, b) = f
    BY <1>1, <1>4, <1>6 DEF STORE_BYTE
  <2>2. al - 1 \in Int /\ (al - 1) \div 2 = w /\ (al - 1) % 2 = 0
    BY <1>6
  <2>3. ByteOf(m, al - 1) = m[w] % BYTE
        /\ ByteOf(m, al - 1) \in Int /\ 0 <= ByteOf(m, al - 1) /\ ByteOf(m, al - 1) < BYTE
    <3> DEFINE t == al - 1
    <3>1. t \in Int /\ t \div 2 = w /\ t % 2 = 0
      BY <2>2
    <3> HIDE DEF t, w
    <3>2. /\ ByteOf(m, t) = m[t \div 2] % BYTE
          /\ ByteOf(m, t) \in Int /\ 0 <= ByteOf(m, t) /\ ByteOf(m, t) < BYTE
      BY <1>3, <3>1, ByteOfHalves
    <3>3. QED  BY <3>1, <3>2, Zenon DEF t
  <2>4. x \in Int /\ 0 <= x /\ x < BYTE /\ x = ByteOf(m, al - 1)
    BY <2>3, Zenon
  <2> HIDE DEF x
  <2>5. n = x + BYTE * b /\ n \in Int /\ 0 <= n /\ n < HALF /\ n % BYTE = x /\ n \div BYTE = b
    <3>1. SLSET(x, LSHAL(b, BYTEBITS)) = x + BYTE * b
      BY <2>4, TwoBytes, Zenon
    <3>2. x + BYTE * b \in Int /\ 0 <= x + BYTE * b /\ x + BYTE * b < HALF
      BY <2>4, TwoBytes, Zenon
    <3>3. (x + BYTE * b) % BYTE = x
      BY <2>4, TwoBytes, Zenon
    <3>4. (x + BYTE * b) \div BYTE = b
      BY <2>4, TwoBytes, Zenon
    <3>5. QED  BY <3>1, <3>2, <3>3, <3>4, Zenon
  <2> HIDE DEF n, w
  <2>6. ASSUME NEW a \in Addresses
        PROVE  f \in Memory /\ ByteOf(f, a) = IF a = al THEN b ELSE ByteOf(m, a)
    <3>1. a \in Int
      BY AddressesAreIntegers
    <3>2. /\ f \in Memory
          /\ a = 2 * w => ByteOf(f, a) = n % BYTE
          /\ a = 2 * w + 1 => ByteOf(f, a) = n \div BYTE
          /\ a # 2 * w /\ a # 2 * w + 1 => ByteOf(f, a) = ByteOf(m, a)
      BY <1>2, <1>3, <2>5, <3>1, CellChanged
    <3> HIDE DEF f
    <3>3. al # 2 * w
      BY <1>2, <1>6
    <3>4. CASE a = al
      BY <1>2, <1>6, <2>5, <3>2, <3>4, Zenon
    <3>5. CASE a # al
      <4>1. a = 2 * w => ByteOf(f, a) = ByteOf(m, a)
        <5>1. a = 2 * w => a = al - 1
          BY <1>2, <1>6, Zenon
        <5>2. QED  BY <2>4, <2>5, <3>2, <5>1, Zenon
      <4>2. QED  BY <1>2, <1>6, <3>2, <3>5, <4>1, Zenon
    <3>6. QED  BY <3>4, <3>5, Zenon
  <2>7. al \in Addresses
    BY AddressHalves
  <2>8. QED  BY <2>1, <2>6, <2>7, Zenon
<1>7. QED  BY <1>5, <1>6, Zenon

LEMMA HalfStored ==
  ASSUME NEW m \in Memory, NEW al \in Word, al \in Int, al \div 2 \in DATA,
         (al + 1) \div 2 \in DATA, NEW half \in Int, 0 <= half, half < HALF
  PROVE  /\ STORE_HALFWORD(m, al, half) \in Memory
         /\ \A a \in Addresses :
              ByteOf(STORE_HALFWORD(m, al, half), a) =
                IF a = al THEN half % BYTE ELSE
                IF a = al + 1 THEN half \div BYTE ELSE ByteOf(m, a)
<1> DEFINE w == al \div 2
           x == half % BYTE
           y == half \div BYTE
<1>1. RSHAL(al, 1) = w /\ al < 2 * HALF /\ 2 * HALF \in Int
  BY HalvedCell, Zenon
<1>2. /\ w \in Int
      /\ al % 2 = 0 => al = 2 * w /\ al + 1 = 2 * w + 1
      /\ al % 2 # 0 => al = 2 * w + 1 /\ al - 1 = 2 * w
  BY HalvesOf
<1>3. BYTE \in Int /\ BYTE > 0 /\ HALF = BYTE * BYTE /\ HALF \in Int /\ WORD = 4 * HALF
      /\ WORD \in Int /\ HALF >= 16
  BY Sizes, ProgramBound
<1>4. x \in Int /\ 0 <= x /\ x < BYTE
  BY <1>3, RemainderRange, Zenon
<1>5. y \in Int /\ 0 <= y /\ y < BYTE
  BY <1>3, QuotientRange, Zenon
<1>6. CASE al % 2 = 0
  <2> DEFINE f == [m EXCEPT ![w] = half]
  <2>1. STORE_HALFWORD(m, al, half) = f
    BY <1>1, <1>6, Zenon DEF STORE_HALFWORD
  <2>2. w \in DATA
    OBVIOUS
  <2> HIDE DEF w, x, y
  <2>3. ASSUME NEW a \in Addresses
        PROVE  f \in Memory /\ ByteOf(f, a) = IF a = al THEN x ELSE IF a = al + 1 THEN y
                                              ELSE ByteOf(m, a)
    <3>1. a \in Int
      BY AddressesAreIntegers
    <3>2. /\ f \in Memory
          /\ a = 2 * w => ByteOf(f, a) = half % BYTE
          /\ a = 2 * w + 1 => ByteOf(f, a) = half \div BYTE
          /\ a # 2 * w /\ a # 2 * w + 1 => ByteOf(f, a) = ByteOf(m, a)
      BY <1>2, <2>2, <3>1, CellChanged
    <3> HIDE DEF f
    <3>3. al = 2 * w /\ al + 1 = 2 * w + 1
      BY <1>2, <1>6
    <3>4. QED  BY <3>2, <3>3, Zenon DEF x, y
  <2>4. al \in Addresses
    BY AddressHalves
  <2>5. QED  BY <2>1, <2>3, <2>4, Zenon DEF x, y
<1>7. CASE al % 2 # 0
  <2> DEFINE f == STORE_BYTE(m, al, x)
             b == al + 1
             g == STORE_BYTE(f, b, y)
  <2> HIDE DEF x, y
  <2>1. ADDAL(al, 1) = b /\ b \in Int /\ b \in Word
    <3>1. al + 1 \in Int /\ 0 <= al + 1 /\ al + 1 < WORD - 1
      BY <1>1, <1>3 DEF Word
    <3>2. QED  BY <1>3, <3>1 DEF ADDAL, Word
  <2>2. RSHAL(half, BYTEBITS) % BYTE = y
    <3>1. half \in Word /\ half < WORD \div 2 /\ BYTEBITS \in 0 .. 36
      BY <1>3 DEF Word
    <3>2. RSHAL(half, BYTEBITS) = half \div 2^BYTEBITS
      BY <3>1, RshalType
    <3>3. y % BYTE = y
      BY <1>3, <1>5, ModSmall, Zenon
    <3>4. QED  BY <3>2, <3>3, Exponents, Zenon DEF y
  <2>3. STORE_HALFWORD(m, al, half) = g
    <3>1. STORE_HALFWORD(m, al, half) =
            STORE_BYTE(STORE_BYTE(m, al, half % BYTE), ADDAL(al, 1), RSHAL(half, BYTEBITS) % BYTE)
      BY <1>7, Zenon DEF STORE_HALFWORD
    <3>2. QED  BY <2>1, <2>2, <3>1, Zenon DEF x
  <2>4. f \in Memory /\ \A a \in Addresses : ByteOf(f, a) = IF a = al THEN x ELSE ByteOf(m, a)
    BY <1>4, ByteStored
  <2> HIDE DEF f
  <2>5. b \div 2 \in DATA
    OBVIOUS
  <2>6. b # al
    OBVIOUS
  <2> HIDE DEF b
  <2>7. g \in Memory /\ \A a \in Addresses : ByteOf(g, a) = IF a = b THEN y ELSE ByteOf(f, a)
    BY <1>5, <2>1, <2>4, <2>5, ByteStored
  <2> HIDE DEF g
  <2>8. QED  BY <2>3, <2>4, <2>6, <2>7, Zenon DEF b, x, y
<1>8. QED  BY <1>6, <1>7, Zenon

LEMMA ByteOfHalf ==
  ASSUME NEW n \in Int
  PROVE  /\ (n % HALF) % BYTE = n % BYTE /\ (n % HALF) \div BYTE = (n \div BYTE) % BYTE
         /\ (n \div HALF) \div BYTE = n \div (HALF * BYTE)
<1>1. BYTE \in Int /\ BYTE > 0
  BY Sizes
<1>2. HALF \in Int /\ HALF > 0
  BY Sizes
<1>3. HALF = BYTE * BYTE
  BY Sizes
<1>4. (n % (BYTE * BYTE)) % BYTE = n % BYTE /\ (n % (BYTE * BYTE)) \div BYTE = (n \div BYTE) % BYTE
  BY <1>1, Nested, Zenon
<1>5. (n \div HALF) \div BYTE = n \div (HALF * BYTE)
  BY <1>1, <1>2, NestedQuotient, Zenon
<1>6. QED  BY <1>3, <1>4, <1>5, Zenon

(* The bytes of a register, from its halves. *)
LEMMA SourceBytes ==
  ASSUME NEW a \in RegVal
  PROVE  LET x  == Full(a)
             lo == a[2] % HALF
             hi == RSHA(a, 2 * BYTEBITS)[2] % HALF
         IN  /\ x \in Int
             /\ lo \in Int /\ 0 <= lo /\ lo < HALF /\ hi \in Int /\ 0 <= hi /\ hi < HALF
             /\ a[2] % BYTE \in Int /\ 0 <= a[2] % BYTE /\ a[2] % BYTE < BYTE
             /\ (x \div BYTE^0) % BYTE = a[2] % BYTE
             /\ (x \div BYTE^0) % BYTE = lo % BYTE
             /\ (x \div BYTE^1) % BYTE = lo \div BYTE
             /\ (x \div BYTE^2) % BYTE = hi % BYTE
             /\ (x \div BYTE^3) % BYTE = hi \div BYTE
<1> DEFINE x  == Full(a)
           c  == a[2]
           lo == c % HALF
           h  == x \div HALF
           u  == RSHA(a, 2 * BYTEBITS)
           hi == u[2] % HALF
           t  == h \div BYTE
<1>1. x \in Int /\ 0 <= x /\ x < XMOD
  BY RegFull
<1>2. /\ BYTE \in Int /\ BYTE > 0 /\ HALF = BYTE * BYTE /\ HALF \in Int /\ WORD = 4 * HALF
      /\ WORD \in Int /\ HALF > 0 /\ XMOD = HALF * HALF /\ WORD > 0
  BY Sizes
<1>3. c \in Int /\ x % HALF = lo
  <2>1. a[2] \in Word
    BY RegValPair
  <2>2. QED  BY <2>1, HalfDigits, Sizes DEF Word
<1>4. h \in Int /\ 0 <= h /\ h < HALF
  BY <1>1, <1>2, QuotientRange, Zenon
<1>5. Full(u) = h /\ u \in RegVal
  <2>1. 2 * BYTEBITS \in 0 .. XLEN - 1
    BY Widths
  <2>2. 2^(2 * BYTEBITS) = HALF
    BY Exponents
  <2>3. QED  BY <2>1, <2>2, ShiftRightValue, Zenon
<1> HIDE DEF x, c, h, u
<1>6. hi = h
  <2>1. u \in Word \X Word
    BY <1>5, RegValPair
  <2>2. u[2] = h % WORD
    BY <1>5, <2>1, FullInjective, Zenon
  <2>3. h < WORD
    BY <1>2, <1>4
  <2>4. h % WORD = h /\ h % HALF = h
    BY <1>2, <1>4, <2>3, ModSmall, Zenon
  <2>5. QED  BY <2>2, <2>4, Zenon
<1>7. lo \in Int /\ 0 <= lo /\ lo < HALF
  BY <1>2, <1>3, RemainderRange, Zenon
<1>8. c % BYTE \in Int /\ 0 <= c % BYTE /\ c % BYTE < BYTE
  BY <1>2, <1>3, RemainderRange, Zenon
<1>9. (c % HALF) % BYTE = c % BYTE
  BY <1>3, ByteOfHalf, Zenon
<1>10. (x % HALF) % BYTE = x % BYTE /\ (x % HALF) \div BYTE = (x \div BYTE) % BYTE
  BY <1>1, ByteOfHalf, Zenon
<1>11. x \div BYTE^0 = x
  <2>1. x \div 1 = x
    BY <1>1
  <2>2. QED  BY <2>1, BytePowers, Zenon
<1>12. (x \div BYTE^0) % BYTE = lo % BYTE /\ (x \div BYTE^0) % BYTE = c % BYTE
  BY <1>3, <1>9, <1>10, <1>11, Zenon
<1>13. (x \div BYTE^1) % BYTE = lo \div BYTE
  BY <1>3, <1>10, BytePowers, Zenon
<1>14. (x \div BYTE^2) % BYTE = h % BYTE
  BY BytePowers, Zenon DEF h
<1>15. t \in Int /\ 0 <= t /\ t < BYTE
  BY <1>2, <1>4, QuotientRange, Zenon
<1>16. (x \div BYTE^3) % BYTE = t
  <2>1. x \div (HALF * BYTE) = t
    BY <1>1, ByteOfHalf, Zenon DEF h, t
  <2> HIDE DEF t
  <2>2. t % BYTE = t
    BY <1>2, <1>15, ModSmall, Zenon
  <2>3. QED  BY <2>1, <2>2, BytePowers, Zenon
<1> HIDE DEF lo, hi, t
<1>17. /\ x \in Int
       /\ lo \in Int /\ 0 <= lo /\ lo < HALF /\ hi \in Int /\ 0 <= hi /\ hi < HALF
       /\ c % BYTE \in Int /\ 0 <= c % BYTE /\ c % BYTE < BYTE
       /\ (x \div BYTE^0) % BYTE = c % BYTE
       /\ (x \div BYTE^0) % BYTE = lo % BYTE
       /\ (x \div BYTE^1) % BYTE = lo \div BYTE
       /\ (x \div BYTE^2) % BYTE = hi % BYTE
       /\ (x \div BYTE^3) % BYTE = hi \div BYTE
  BY <1>1, <1>4, <1>6, <1>7, <1>8, <1>12, <1>13, <1>14, <1>16, Zenon DEF t
<1>18. QED  BY <1>17, Zenon DEF x, c, lo, hi, u

LEMMA StoreMatch ==
  ASSUME TypeOK, Len(program) < HALF, status = "run", I.op \in StoreOps, NEW width \in {1, 2, 4},
         Oracle!Width(I.op) = width, InImage(width), NEW m, STORE(m),
         \A a \in Addresses : ByteOf(m, a) = IF a \in AL .. AL + width - 1
                                THEN (Full(Dest) \div BYTE^(a - AL)) % BYTE ELSE ByteOf(mem, a)
  PROVE  Oracle!Next
<1>1. Oracle!Insn = I
  BY OracleInsn
<1>2. Oracle!At(Oracle!StoreOps)
  BY <1>1, OracleSets DEF Oracle!At
<1>3. Oracle!Address = AL /\ Oracle!InImage(Oracle!Address, width)
  BY AddressMatch
<1>4. Oracle!InImage(Oracle!Address, Oracle!Width(Oracle!Insn.op))
  BY <1>1, <1>3, Zenon
<1>5. Insn.dest = I.rs2 /\ I.rs2 \in Regs
  <2>1. Insn.dest = I.rs2
    BY DEF Insn, I, Encode, Reg1, StoreOps, BranchOps
  <2>2. QED  BY <2>1, InsnOK DEF InsnType
<1>6. Values[Oracle!Insn.rs2] = Full(Dest)
  BY <1>1, <1>5, Zenon DEF Values, Dest
<1>7. Bytes' = [a \in Addresses |-> IF a \in Oracle!Address .. Oracle!Address + Oracle!Width(Oracle!Insn.op) - 1
                                  THEN (Values[Oracle!Insn.rs2] \div BYTE^(a - Oracle!Address)) % BYTE
                                  ELSE Bytes[a]]
  <2>1. mem' = m
    BY DEF STORE
  <2>2. Bytes' = [a \in Addresses |-> ByteOf(m, a)]
    BY <2>1, Zenon DEF Bytes, Addresses, ByteOf
  <2>3. ASSUME NEW a \in Addresses
        PROVE  ByteOf(m, a) =
                 IF a \in Oracle!Address .. Oracle!Address + Oracle!Width(Oracle!Insn.op) - 1
                   THEN (Values[Oracle!Insn.rs2] \div BYTE^(a - Oracle!Address)) % BYTE
                   ELSE Bytes[a]
    <3>1. Bytes[a] = ByteOf(mem, a)
      BY BytesOfMemory, Zenon
    <3>2. QED  BY <1>1, <1>3, <1>6, <3>1, Zenon
  <2>4. QED  BY <2>2, <2>3, Zenon
<1>8. Values' = Values
  BY Zenon DEF STORE, Values
<1>9. Oracle!Goto(2 * pc + 4)
  BY GotoNext DEF STORE
<1>10. program' = program /\ input'[0] = input[0] /\ Printed' = Printed
  BY Zenon DEF STORE, Printed
<1>11. Oracle!Store
  <2> DEFINE e == Oracle!Address
             n == Oracle!Width(Oracle!Insn.op)
  <2>1. Bytes' = [a \in Oracle!ByteAddresses |->
                    IF a \in e .. e + n - 1
                      THEN (Values[Oracle!Insn.rs2] \div Oracle!BYTE^(a - e)) % Oracle!BYTE
                      ELSE Bytes[a]]
    <3>1. Oracle!BYTE = BYTE /\ Oracle!ByteAddresses = Addresses
      BY OracleSizes, Zenon DEF Oracle!ByteAddresses, Addresses
    <3>2. QED  BY <1>7, <3>1, Zenon
  <2>2. QED  BY <1>2, <1>4, <1>8, <1>9, <1>10, <2>1, Zenon
             DEF Oracle!Store, Bytes, Printed, Values
<1>12. QED  BY <1>11, Zenon DEF Oracle!Next

LEMMA StoreOperands ==
  ASSUME TypeOK, I.op \in StoreOps, NEW width \in {1, 2, 4}, InImage(width)
  PROVE  /\ Dest \in RegVal /\ AL \in Word /\ AL \in Int /\ mem \in Memory
         /\ \A k \in 0 .. width - 1 : (AL + k) \div 2 \in DATA /\ AL + k \in Int
         /\ AL \div 2 \in DATA
<1>1. Insn.dest = I.rs2 /\ I.rs2 \in Regs
  <2>1. Insn.dest = I.rs2
    BY DEF Insn, I, Encode, Reg1, StoreOps, BranchOps
  <2>2. QED  BY <2>1, InsnOK DEF InsnType
<1>2. Dest \in RegVal /\ mem \in Memory
  BY <1>1 DEF Dest, TypeOK, RegFile
<1>3. AL \in Word /\ AL \in Int
  BY AddressMatch
<1>4. \A k \in 0 .. width - 1 : (AL + k) \div 2 \in DATA
  BY DEF InImage
<1>5. \A k \in 0 .. width - 1 : AL + k \in Int
  BY <1>3
<1>6. 0 \in 0 .. width - 1 /\ AL + 0 = AL
  BY <1>3
<1>7. AL \div 2 \in DATA
  BY <1>4, <1>6, Zenon
<1>8. QED  BY <1>2, <1>3, <1>4, <1>5, <1>7, Zenon

LEMMA StoreByteMatch ==
  ASSUME TypeOK, Len(program) < HALF, OP_SB
  PROVE  Oracle!Next
<1> DEFINE m == STORE_BYTE(mem, AL, Dest[2] % BYTE)
           b == Dest[2] % BYTE
           x == Full(Dest)
<1>1. status = "run" /\ InImage(1) /\ I.op = "sb" /\ STORE(m)
  BY DEF OP_SB, Dispatch, Insn, I, Encode
<1>2. I.op \in StoreOps /\ Oracle!Width(I.op) = 1
  BY <1>1 DEF StoreOps, Oracle!Width
<1>3. Dest \in RegVal /\ AL \in Word /\ AL \in Int /\ mem \in Memory /\ AL \div 2 \in DATA
  <2>1. 1 \in {1, 2, 4}
    OBVIOUS
  <2>2. QED  BY <1>1, <1>2, <2>1, StoreOperands
<1>4. b \in Int /\ 0 <= b /\ b < BYTE /\ (x \div BYTE^0) % BYTE = b
  BY <1>3, SourceBytes, Zenon
<1>5. \A a \in Addresses : ByteOf(m, a) = IF a = AL THEN b ELSE ByteOf(mem, a)
  <2> HIDE DEF b
  <2>1. \A a \in Addresses : ByteOf(STORE_BYTE(mem, AL, b), a) = IF a = AL THEN b ELSE ByteOf(mem, a)
    BY <1>3, <1>4, ByteStored
  <2>2. QED  BY <2>1, Zenon DEF b
<1> HIDE DEF m, b, x
<1>6. ASSUME NEW a \in Addresses
      PROVE  ByteOf(m, a) = IF a \in AL .. AL + 1 - 1
                              THEN (x \div BYTE^(a - AL)) % BYTE ELSE ByteOf(mem, a)
  <2>1. a \in Int
    BY AddressesAreIntegers
  <2>2. a \in AL .. AL + 1 - 1 <=> a = AL
    BY <1>3, <2>1
  <2>3. a = AL => a - AL = 0
    BY <1>3, <2>1
  <2>4. QED  BY <1>4, <1>5, <2>2, <2>3, Zenon
<1>7. 1 \in {1, 2, 4}
  OBVIOUS
<1>8. QED  BY <1>1, <1>2, <1>6, <1>7, StoreMatch DEF x

LEMMA StoreHalfMatch ==
  ASSUME TypeOK, Len(program) < HALF, OP_SH
  PROVE  Oracle!Next
<1> DEFINE m == STORE_HALFWORD(mem, AL, Dest[2] % HALF)
           b == Dest[2] % HALF
           x == Full(Dest)
<1>1. status = "run" /\ InImage(2) /\ I.op = "sh" /\ STORE(m)
  BY DEF OP_SH, Dispatch, Insn, I, Encode
<1>2. I.op \in StoreOps /\ Oracle!Width(I.op) = 2
  BY <1>1 DEF StoreOps, Oracle!Width
<1>3. /\ Dest \in RegVal /\ AL \in Word /\ AL \in Int /\ mem \in Memory /\ AL \div 2 \in DATA
      /\ \A k \in 0 .. 1 : (AL + k) \div 2 \in DATA /\ AL + k \in Int
  <2>1. 2 \in {1, 2, 4} /\ 2 - 1 = 1
    OBVIOUS
  <2>2. QED  BY <1>1, <1>2, <2>1, StoreOperands
<1>4. (AL + 1) \div 2 \in DATA
  BY <1>3
<1>5. /\ b \in Int /\ 0 <= b /\ b < HALF
      /\ (x \div BYTE^0) % BYTE = b % BYTE /\ (x \div BYTE^1) % BYTE = b \div BYTE
  BY <1>3, SourceBytes, Zenon
<1>6. \A a \in Addresses : ByteOf(m, a) = IF a = AL THEN b % BYTE ELSE
                                          IF a = AL + 1 THEN b \div BYTE ELSE ByteOf(mem, a)
  <2> HIDE DEF b
  <2>1. \A a \in Addresses : ByteOf(STORE_HALFWORD(mem, AL, b), a) =
                               IF a = AL THEN b % BYTE ELSE
                               IF a = AL + 1 THEN b \div BYTE ELSE ByteOf(mem, a)
    BY <1>3, <1>4, <1>5, HalfStored
  <2>2. QED  BY <2>1, Zenon DEF b
<1> HIDE DEF m, b, x
<1>7. ASSUME NEW a \in Addresses
      PROVE  ByteOf(m, a) = IF a \in AL .. AL + 2 - 1
                              THEN (x \div BYTE^(a - AL)) % BYTE ELSE ByteOf(mem, a)
  <2>1. a \in Int
    BY AddressesAreIntegers
  <2>2. a \in AL .. AL + 2 - 1 <=> a = AL \/ a = AL + 1
    BY <1>3, <2>1
  <2>3. (a = AL => a - AL = 0) /\ (a = AL + 1 => a - AL = 1 /\ a # AL)
    BY <1>3, <2>1
  <2>4. QED  BY <1>5, <1>6, <2>2, <2>3, Zenon
<1>8. 2 \in {1, 2, 4}
  OBVIOUS
<1>9. QED  BY <1>1, <1>2, <1>7, <1>8, StoreMatch DEF x

LEMMA StoreWordMatch ==
  ASSUME TypeOK, Len(program) < HALF, OP_SW
  PROVE  Oracle!Next
<1> DEFINE b == Dest[2] % HALF
           c == RSHA(Dest, 2 * BYTEBITS)[2] % HALF
           t == AL + 2
           f == STORE_HALFWORD(mem, AL, b)
           m == STORE_HALFWORD(f, t, c)
           x == Full(Dest)
<1>1. status = "run" /\ InImage(4) /\ I.op = "sw"
  BY DEF OP_SW, Dispatch, Insn, I, Encode
<1>2. I.op \in StoreOps /\ Oracle!Width(I.op) = 4
  BY <1>1 DEF StoreOps, Oracle!Width
<1>3. /\ Dest \in RegVal /\ AL \in Word /\ AL \in Int /\ mem \in Memory /\ AL \div 2 \in DATA
      /\ \A k \in 0 .. 3 : (AL + k) \div 2 \in DATA /\ AL + k \in Int
  <2>1. 4 \in {1, 2, 4} /\ 4 - 1 = 3
    OBVIOUS
  <2>2. QED  BY <1>1, <1>2, <2>1, StoreOperands
<1>4. /\ (AL + 1) \div 2 \in DATA /\ t \div 2 \in DATA /\ (AL + 3) \div 2 \in DATA /\ t + 1 = AL + 3
  BY <1>3
<1>5. t \in Word /\ t \in Int /\ ADDAL(AL, 2) = t
  <2> DEFINE s == AL
  <2>1. s \in Int /\ 0 <= s /\ s < 2 * HALF
    BY <1>3, HalvedCell DEF Word
  <2>2. WORD = 4 * HALF /\ HALF \in Int /\ HALF >= 16
    BY ProgramBound, Sizes
  <2> HIDE DEF s
  <2>3. s + 2 \in Word /\ s + 2 \in Int /\ ADDAL(s, 2) = s + 2
    BY <2>1, <2>2 DEF Word, ADDAL
  <2>4. QED  BY <2>3 DEF s
<1>6. STORE(m)
  BY <1>5, Zenon DEF OP_SW
<1>7. /\ b \in Int /\ 0 <= b /\ b < HALF /\ c \in Int /\ 0 <= c /\ c < HALF
      /\ (x \div BYTE^0) % BYTE = b % BYTE /\ (x \div BYTE^1) % BYTE = b \div BYTE
      /\ (x \div BYTE^2) % BYTE = c % BYTE /\ (x \div BYTE^3) % BYTE = c \div BYTE
  BY <1>3, SourceBytes, Zenon
<1> HIDE DEF b, c, x, t
<1>14. b \in Int /\ 0 <= b /\ b < HALF
  BY <1>7, Zenon
<1>15. c \in Int /\ 0 <= c /\ c < HALF
  BY <1>7, Zenon
<1>16. AL \in Word /\ AL \in Int /\ mem \in Memory /\ AL \div 2 \in DATA /\ (AL + 1) \div 2 \in DATA
  BY <1>3, <1>4, Zenon
<1>17. AL \in Int /\ t = AL + 2
  BY <1>3, Zenon DEF t
<1>8. f \in Memory /\ \A a \in Addresses : ByteOf(f, a) = IF a = AL THEN b % BYTE ELSE
                                             IF a = AL + 1 THEN b \div BYTE ELSE ByteOf(mem, a)
  BY <1>14, <1>16, HalfStored
<1> HIDE DEF f
<1>9. (t + 1) \div 2 \in DATA
  BY <1>4, Zenon
<1>10. \A a \in Addresses : ByteOf(m, a) = IF a = t THEN c % BYTE ELSE
                                           IF a = t + 1 THEN c \div BYTE ELSE ByteOf(f, a)
  <2>1. f \in Memory
    BY <1>8, Zenon
  <2>2. t \div 2 \in DATA
    BY <1>4, Zenon
  <2>3. QED  BY <1>5, <1>9, <1>15, <2>1, <2>2, HalfStored
<1> HIDE DEF m
<1>11. ASSUME NEW a \in Addresses
       PROVE  ByteOf(m, a) = IF a \in AL .. AL + 4 - 1
                               THEN (x \div BYTE^(a - AL)) % BYTE ELSE ByteOf(mem, a)
  <2>1. a \in Int
    BY AddressesAreIntegers
  <2>2. a \in AL .. AL + 4 - 1 <=> a = AL \/ a = AL + 1 \/ a = t \/ a = t + 1
    BY <1>17, <2>1
  <2>3. /\ a = AL => a - AL = 0 /\ a # t /\ a # t + 1
        /\ a = AL + 1 => a - AL = 1 /\ a # AL /\ a # t /\ a # t + 1
        /\ a = t => a - AL = 2
        /\ a = t + 1 => a - AL = 3 /\ a # t
    BY <1>17, <2>1
  <2>4. CASE a = AL
    BY <1>7, <1>8, <1>10, <2>2, <2>3, <2>4, Zenon
  <2>5. CASE a = AL + 1
    BY <1>7, <1>8, <1>10, <2>2, <2>3, <2>5, Zenon
  <2>6. CASE a = t
    BY <1>7, <1>10, <2>2, <2>3, <2>6, Zenon
  <2>7. CASE a = t + 1
    BY <1>7, <1>10, <2>2, <2>3, <2>7, Zenon
  <2>8. CASE a \notin AL .. AL + 4 - 1
    BY <1>8, <1>10, <2>2, <2>8, Zenon
  <2>9. QED  BY <2>2, <2>4, <2>5, <2>6, <2>7, <2>8, Zenon
<1>12. 4 \in {1, 2, 4}
  OBVIOUS
<1>13. QED  BY <1>1, <1>2, <1>6, <1>11, <1>12, StoreMatch DEF x

(* An access outside the image is the reference emulator's exception. *)
LEMMA OutOfImageMatch ==
  ASSUME TypeOK, OutOfImage
  PROVE  Oracle!Next
<1>1. status = "run" /\ status' = "undefined"
      /\ UNCHANGED <<program, reg, pc, mem, input, output>>
  BY DEF OutOfImage, Dispatch
<1>2. PICK width \in {1, 2, 4} :
        /\ I.op \in LoadOps \cup StoreOps /\ Oracle!Width(I.op) = width /\ ~InImage(width)
  <2>1. Insn.op = I.op
    BY DEF Insn, I, Encode
  <2>2. CASE I.op \in {"lb", "lbu", "sb"} /\ ~InImage(1)
    <3>1. Oracle!Width(I.op) = 1 /\ I.op \in LoadOps \cup StoreOps
      BY <2>2 DEF Oracle!Width, LoadOps, StoreOps
    <3>2. QED  BY <2>2, <3>1
  <2>3. CASE I.op \in {"lh", "lhu", "sh"} /\ ~InImage(2)
    <3>1. Oracle!Width(I.op) = 2 /\ I.op \in LoadOps \cup StoreOps
      BY <2>3 DEF Oracle!Width, LoadOps, StoreOps
    <3>2. QED  BY <2>3, <3>1
  <2>4. CASE I.op \in {"lw", "sw"} /\ ~InImage(4)
    <3>1. Oracle!Width(I.op) = 4 /\ I.op \in LoadOps \cup StoreOps
      BY <2>4 DEF Oracle!Width, LoadOps, StoreOps
    <3>2. QED  BY <2>4, <3>1
  <2>5. QED  BY <2>1, <2>2, <2>3, <2>4, Zenon DEF OutOfImage, Dispatch
<1>3. Oracle!Insn = I
  BY OracleInsn
<1>4. ~Oracle!InImage(Oracle!Address, Oracle!Width(Oracle!Insn.op))
  <2>1. ~Oracle!InImage(Oracle!Address, width)
    BY <1>2, AddressMatch
  <2>2. QED  BY <1>2, <1>3, <2>1, Zenon
<1>5. Oracle!At(Oracle!LoadOps \cup Oracle!StoreOps)
  BY <1>1, <1>2, <1>3, OracleSets DEF Oracle!At
<1>6. Oracle!Raise
  BY <1>1 DEF Oracle!Raise
<1>7. Oracle!OutOfImage
  BY <1>4, <1>5, <1>6, Zenon DEF Oracle!OutOfImage
<1>8. QED  BY <1>7, Zenon DEF Oracle!Next

LEMMA MemoryMatch ==
  ASSUME TypeOK, Len(program) < HALF, MemoryOps
  PROVE  Oracle!Next
  BY LoadByteMatch, LoadHalfMatch, LoadWordMatch, StoreByteMatch, StoreHalfMatch, StoreWordMatch,
     OutOfImageMatch, Zenon DEF MemoryOps

(* The system call the two emulators see in a7. *)
LEMMA CallNumber ==
  ASSUME TypeOK, reg[A7][2] \in 0 .. 4 => reg[A7][1] = 0, NEW n \in 0 .. 4
  PROVE  Oracle!Signed(Full(reg[A7])) = n <=> reg[A7][2] = n
<1> DEFINE h == reg[A7][1]
           l == reg[A7][2]
           x == Full(reg[A7])
           s == Oracle!Signed(x)
<1>1. reg[A7] \in RegVal /\ reg[A7] \in Word \X Word
  <2>1. reg[A7] \in RegVal
    BY RegsAssumption, RegOK DEF Regs
  <2>2. QED  BY <2>1, RegValPair
<1>2. /\ x \in Int /\ 0 <= x /\ x < XMOD /\ h \in Int /\ 0 <= h /\ l \in Int /\ 0 <= l /\ l < WORD
      /\ WORD \in Int /\ XMOD \in Int /\ WORD >= 64 /\ XMOD >= 256 /\ XMOD % 2 = 0
  <2>1. x \in Int /\ 0 <= x /\ x < XMOD
    BY <1>1, RegFull
  <2>2. h \in Int /\ 0 <= h /\ l \in Int /\ 0 <= l /\ l < WORD
    BY <1>1, WordInt
  <2>3. WORD \in Int /\ XMOD \in Int /\ WORD >= 64 /\ XMOD >= 256 /\ XMOD % 2 = 0
    BY Widths, Sizes, SMT
  <2>4. QED  BY <2>1, <2>2, <2>3
<1>3. s = IF x >= XMOD \div 2 THEN x - XMOD ELSE x
  BY <1>2, SignedValue, Zenon DEF SignedOf
<1>4. x = h * WORD + l /\ (h = 0 => x = l)
  <2>1. x = h * WORD + l
    BY Zenon DEF Full
  <2> HIDE DEF h, l, x
  <2>2. h = 0 => x = l
    <3>1. h = 0 => x = 0 * WORD + l
      BY <2>1, Zenon
    <3>2. QED  BY <1>2, <3>1
  <2>3. QED  BY <2>1, <2>2
<1>5. x < 5 => x = l
  <2> HIDE DEF h, l, x
  <2>1. h > 0 => h * WORD >= WORD
    BY <1>2, SMT
  <2> DEFINE p == h * WORD
  <2>2. p \in Int
    BY <1>2
  <2>3. x = p + l /\ (h > 0 => p >= WORD)
    BY <1>4, <2>1
  <2> HIDE DEF p
  <2>4. QED  BY <1>2, <1>4, <2>2, <2>3
<1>6. l \in 0 .. 4 => h = 0
  OBVIOUS
<1> HIDE DEF h, l, x, s
<1>7. s = n <=> l = n
  BY <1>2, <1>3, <1>4, <1>5, <1>6
<1>8. QED  BY <1>7 DEF s, x, l

LEMMA CallMatch ==
  ASSUME TypeOK, reg[A7][2] \in 0 .. 4 => reg[A7][1] = 0, NEW n \in 0 .. 4
  PROVE  Syscall(n) <=> Oracle!Syscall(n)
<1>1. Oracle!Insn = I /\ Insn.op = I.op
  BY OracleInsn DEF Insn, I, Encode
<1>2. A7 \in Regs
  BY RegsAssumption DEF Regs
<1>3. (status = "run" /\ I.op = "ecall") <=> Oracle!At({"ecall"})
  BY <1>1 DEF Oracle!At, TypeOK
<1>4. Values[A7] = Full(reg[A7])
  BY <1>2, Zenon DEF Values
<1>5. QED  BY <1>1, <1>3, <1>4, CallNumber, Zenon DEF Syscall, Dispatch, Oracle!Syscall, Values

LEMMA CharWrite ==
  ASSUME TypeOK, NEW c \in Int, 0 <= c, c < BYTE, reg' = [reg EXCEPT ![A0] = <<0, c>>]
  PROVE  Oracle!Write(A0, c)
<1>1. A0 \in Regs /\ A0 # 0
  BY RegsAssumption DEF Regs
<1>2. c % XMOD = c
  <2>1. XMOD \in Int /\ XMOD > 0 /\ BYTE <= XMOD /\ BYTE \in Int
    BY Widths, Sizes, SMT
  <2>2. c < XMOD
    BY <2>1
  <2>3. QED  BY <2>1, <2>2, ModSmall, Zenon
<1>3. Full(<<0, c>>) = c
  BY Sizes DEF Full
<1>4. \A r \in Regs : reg'[r] = IF r = 0 THEN reg[0] ELSE IF r = A0 THEN <<0, c>> ELSE reg[r]
  BY <1>1 DEF TypeOK, RegFile
<1>5. QED  BY <1>1, <1>2, <1>3, <1>4, WriteMatch

LEMMA GetcharMatch ==
  ASSUME TypeOK, Len(program) < HALF, reg[A7][2] \in 0 .. 4 => reg[A7][1] = 0,
         Channel(A0) = 0, ECALL_GETCHAR
  PROVE  Oracle!Next
<1>1. Oracle!Syscall(0) /\ status = "run"
  <2>1. 0 \in 0 .. 4
    OBVIOUS
  <2>2. QED  BY <2>1, CallMatch DEF ECALL_GETCHAR, Syscall, Dispatch
<1> DEFINE s == input[0]
<1>3. s \in Seq(Char) /\ 0 \in DOMAIN input
  BY BootsAssumption DEF TypeOK, Channels
<1>4. s # <<>> /\ reg' = [reg EXCEPT ![A0] = <<0, Head(s) % BYTE>>] /\ input'[0] = Tail(s)
      /\ NEXT_INSTRUCTION /\ program' = program /\ mem' = mem /\ output' = output
  <2>1. /\ s # <<>> /\ reg' = [reg EXCEPT ![A0] = <<0, Head(s) % BYTE>>]
        /\ input' = [input EXCEPT ![0] = Tail(@)]
        /\ NEXT_INSTRUCTION /\ program' = program /\ mem' = mem /\ output' = output
    BY Zenon DEF ECALL_GETCHAR
  <2>2. input'[0] = Tail(s)
    BY <1>3, <2>1, Zenon
  <2>3. QED  BY <2>1, <2>2, Zenon
<1>5. Head(s) \in Int /\ 0 <= Head(s) /\ Head(s) < BYTE
  <2>1. s \in Seq(Char) /\ s # <<>>
    BY <1>3, <1>4, Zenon
  <2> HIDE DEF s
  <2>2. Head(s) \in Char /\ BYTE \in Int
    BY <2>1, Sizes
  <2>3. QED  BY <2>2 DEF Char
<1> DEFINE c == Head(s)
<1>6. c % BYTE = c
  <2>1. BYTE \in Int /\ BYTE > 0 /\ c \in Int
    BY <1>5, Sizes
  <2> HIDE DEF c
  <2>2. c < BYTE /\ 0 <= c
    BY <1>5 DEF c
  <2>3. QED  BY <2>1, <2>2, ModSmall, Zenon
<1>7. Oracle!Write(A0, c)
  <2>1. reg' = [reg EXCEPT ![A0] = <<0, c>>]
    BY <1>4, <1>6, Zenon
  <2> HIDE DEF c
  <2>2. c \in Int /\ 0 <= c /\ c < BYTE
    BY <1>5, Zenon DEF c
  <2>3. QED  BY <2>1, <2>2, CharWrite
<1>8. Oracle!Goto(2 * pc + 4)
  BY <1>1, <1>4, GotoNext
<1>9. Bytes' = Bytes /\ Printed' = Printed
  BY <1>4, Zenon DEF Bytes, Printed
<1>10. Oracle!Getc
  BY <1>1, <1>4, <1>7, <1>8, <1>9, Zenon DEF Oracle!Getc, Bytes, Printed
<1>11. QED  BY <1>10, Zenon DEF Oracle!Next

LEMMA PutcharMatch ==
  ASSUME TypeOK, Len(program) < HALF, reg[A7][2] \in 0 .. 4 => reg[A7][1] = 0, ECALL_PUTCHAR
  PROVE  Oracle!Next
<1> DEFINE x == Full(reg[A0])
           l == reg[A0][2]
           e == <<Channel(A1), l % BYTE>>
<1>1. Oracle!Syscall(1) /\ status = "run"
  <2>1. 1 \in 0 .. 4
    OBVIOUS
  <2>2. QED  BY <2>1, CallMatch DEF ECALL_PUTCHAR, Syscall, Dispatch
<1>2. output' = Append(output, e) /\ NEXT_INSTRUCTION
      /\ UNCHANGED <<program, reg, mem, input>>
  BY DEF ECALL_PUTCHAR
<1>3. x % BYTE = l % BYTE
  <2>1. reg[A0] \in RegVal
    BY RegsAssumption, RegOK DEF Regs
  <2>2. (x \div BYTE^0) % BYTE = l % BYTE
    BY <2>1, SourceBytes, Zenon
  <2>3. x \in Int
    BY <2>1, RegFull
  <2>4. x \div BYTE^0 = x
    <3> HIDE DEF x
    <3>1. x \div 1 = x
      BY <2>3
    <3>2. QED  BY <3>1, BytePowers, Zenon
  <2>5. QED  BY <2>2, <2>4, Zenon
<1>4. Printed' = Append(Printed, e[2])
  <2> HIDE DEF e
  <2>1. output \in Seq(Channels \X Char) /\ output' = Append(output, e)
    BY <1>2 DEF TypeOK
  <2> DEFINE n == Len(output)
  <2>2. n \in Nat /\ DOMAIN output = 1 .. n /\ DOMAIN output' = 1 .. n + 1
    BY <2>1
  <2>3. \A k \in 1 .. n + 1 : output'[k] = IF k = n + 1 THEN e ELSE output[k]
    BY <2>1
  <2>4. Printed \in Seq(Char) /\ Len(Printed) = n /\ \A k \in 1 .. n : Printed[k] = output[k][2]
    BY <2>1, <2>2 DEF Printed
  <2>5. Printed' = [k \in 1 .. n + 1 |-> output'[k][2]]
    <3>1. Printed' = [k \in DOMAIN output' |-> output'[k][2]]
      BY Zenon DEF Printed
    <3>2. QED  BY <2>2, <3>1
  <2>6. Append(Printed, e[2]) = [k \in 1 .. n + 1 |-> IF k = n + 1 THEN e[2] ELSE Printed[k]]
    BY <2>2, <2>4
  <2>7. \A k \in 1 .. n + 1 : output'[k][2] = IF k = n + 1 THEN e[2] ELSE Printed[k]
    <3>1. \A k \in 1 .. n + 1 : k # n + 1 => k \in 1 .. n
      BY <2>2
    <3>2. QED  BY <2>3, <2>4, <3>1, Zenon
  <2>8. QED  BY <2>5, <2>6, <2>7, Zenon
<1>5. Printed' = Append(Printed, Values[A0] % Oracle!BYTE)
  <2>1. A0 \in Regs
    BY RegsAssumption DEF Regs
  <2>2. Values[A0] = x
    BY <2>1, Zenon DEF Values
  <2>3. e[2] = x % BYTE
    BY <1>3
  <2>4. QED  BY <1>4, <2>2, <2>3, OracleSizes, Zenon
<1>6. Oracle!Goto(2 * pc + 4)
  BY <1>1, <1>2, GotoNext
<1>7. Bytes' = Bytes /\ Values' = Values /\ program' = program /\ input'[0] = input[0]
  BY <1>2, Zenon DEF Bytes, Values
<1>8. Oracle!Putc
  BY <1>1, <1>5, <1>6, <1>7, Zenon DEF Oracle!Putc, Bytes, Values, Printed
<1>9. QED  BY <1>8, Zenon DEF Oracle!Next

LEMMA ExitMatch ==
  ASSUME TypeOK, reg[A7][2] \in 0 .. 4 => reg[A7][1] = 0, ECALL_EXIT
  PROVE  Oracle!Next
<1>1. Oracle!Syscall(2)
  <2>1. 2 \in 0 .. 4
    OBVIOUS
  <2>2. QED  BY <2>1, CallMatch DEF ECALL_EXIT
<1>2. status' = "stopped" /\ UNCHANGED <<program, reg, pc, mem, input, output>>
  BY DEF ECALL_EXIT
<1>3. Oracle!Exit
  BY <1>1, <1>2 DEF Oracle!Exit
<1>4. QED  BY <1>3, Zenon DEF Oracle!Next

LEMMA TimeMatch ==
  ASSUME TypeOK, Len(program) < HALF, CLOCK = {0}, reg[A7][2] \in 0 .. 4 => reg[A7][1] = 0,
         ECALL_TIME
  PROVE  Oracle!Next
<1>1. Oracle!Syscall(4) /\ status = "run"
  <2>1. 4 \in 0 .. 4
    OBVIOUS
  <2>2. QED  BY <2>1, CallMatch DEF ECALL_TIME, Syscall, Dispatch
<1>2. reg' = [reg EXCEPT ![A0] = <<0, 0>>] /\ NEXT_INSTRUCTION
      /\ UNCHANGED <<program, mem, input, output>>
  BY DEF ECALL_TIME
<1>3. Oracle!Write(A0, 0)
  <2>1. 0 \in Int /\ 0 <= 0 /\ 0 < BYTE
    BY Sizes
  <2>2. QED  BY <1>2, <2>1, CharWrite
<1>4. Oracle!Goto(2 * pc + 4)
  BY <1>1, <1>2, GotoNext
<1>5. Bytes' = Bytes /\ input'[0] = input[0] /\ Printed' = Printed /\ program' = program
  BY <1>2, Zenon DEF Bytes, Printed
<1>6. Oracle!Time
  BY <1>1, <1>3, <1>4, <1>5, Zenon DEF Oracle!Time, Bytes, Printed
<1>7. QED  BY <1>6, Zenon DEF Oracle!Next

(* Four bytes at a time and two, over the same stretch of memory. *)
LEMMA ClearedBytes ==
  ASSUME NEW a \in Int, NEW b \in Int, 0 <= a, a < b, a % 2 = 0, (b - a) % 4 \in {2, 3}, NEW y \in Int
  PROVE  /\ (\E x \in a .. b - 1, k \in 0 .. 3 : (x - a) % 4 = 0 /\ y = x + k)
              <=> a <= y /\ y <= 2 * (b \div 2) + 1
         /\ a <= y /\ y <= 2 * (b \div 2) + 1 <=> a \div 2 <= y \div 2 /\ y \div 2 <= b \div 2
         /\ a \div 2 <= b \div 2
<1> DEFINE q == (b - a) \div 4
<1>1. q \in Int /\ (b = a + 4 * q + 2 \/ b = a + 4 * q + 3) /\ 2 * (b \div 2) + 1 = a + 4 * q + 3
  OBVIOUS
<1> HIDE DEF q
<1>2. ASSUME NEW x \in a .. b - 1, NEW k \in 0 .. 3, (x - a) % 4 = 0, y = x + k
      PROVE  a <= y /\ y <= a + 4 * q + 3
  <2> DEFINE j == (x - a) \div 4
  <2>1. x = a + 4 * j /\ j \in Int
    BY <1>2
  <2> HIDE DEF j
  <2>2. j <= q
    BY <1>1, <2>1
  <2>3. QED  BY <1>1, <1>2, <2>1, <2>2
<1>3. ASSUME a <= y, y <= a + 4 * q + 3
      PROVE  \E x \in a .. b - 1, k \in 0 .. 3 : (x - a) % 4 = 0 /\ y = x + k
  <2> DEFINE j == (y - a) \div 4
             x == a + 4 * j
             k == (y - a) % 4
  <2>1. j \in Int /\ k \in 0 .. 3 /\ y = x + k /\ 0 <= j
    BY <1>3
  <2>2. (x - a) % 4 = 0
    <3> HIDE DEF j
    <3>1. QED  BY <2>1
  <2> HIDE DEF j, k
  <2>3. j <= q
    BY <1>1, <1>3, <2>1
  <2>4. x \in a .. b - 1
    BY <1>1, <2>1, <2>3
  <2> HIDE DEF x
  <2>5. QED  BY <2>1, <2>2, <2>4
<1>4. a <= y /\ y <= 2 * (b \div 2) + 1 <=> a \div 2 <= y \div 2 /\ y \div 2 <= b \div 2
  OBVIOUS
<1>5. (\E x \in a .. b - 1, k \in 0 .. 3 : (x - a) % 4 = 0 /\ y = x + k)
        <=> a <= y /\ y <= a + 4 * q + 3
  BY <1>2, <1>3, Zenon
<1>6. a \div 2 <= b \div 2
  OBVIOUS
<1>7. QED  BY <1>1, <1>4, <1>5, <1>6, Zenon

LEMMA ClearedWords ==
  ASSUME TypeOK, ClearComparable
  PROVE  /\ MC_START <= MC_END /\ MC_START \in Int /\ MC_END \in Int
         /\ \A y \in Int : y \in Oracle!Cleared <=> y \div 2 \in MC_START .. MC_END
         /\ Oracle!Cleared \subseteq Int
<1> DEFINE a == Full(reg[A0])
           b == Full(reg[A1])
           C == {x + k : x \in {z \in a .. b - 1 : (z - a) % 4 = 0}, k \in 0 .. 3}
<1>1. A0 \in Regs /\ A1 \in Regs /\ reg[A0] \in RegVal /\ reg[A1] \in RegVal
  BY RegsAssumption, RegOK DEF Regs
<1>2. a \in Int /\ 0 <= a /\ b \in Int /\ 0 <= b
  BY <1>1, RegFull
<1>3. a < b /\ b < WORD \div 2 /\ a % 2 = 0 /\ (b - a) % 4 \in {2, 3}
  BY DEF ClearComparable
<1>4. Oracle!Cleared = C
  <2>1. Values[A0] = a /\ Values[A1] = b
    BY <1>1, Zenon DEF Values
  <2> HIDE DEF a, b
  <2>2. QED  BY <2>1 DEF Oracle!Cleared, Values
<1>5. MC_START = a \div 2 /\ MC_END = b \div 2
  <2>1. ASSUME NEW r \in RegVal, Full(r) < WORD \div 2
        PROVE  RSHAL(r[2], 1) = Full(r) \div 2
    <3>1. r \in Word \X Word /\ Full(r) \in Int /\ 0 <= Full(r)
      BY RegValPair, RegFull
    <3>2. r[2] = Full(r) % WORD /\ r[2] \in Word
      BY <3>1, FullInjective, SMT
    <3>3. WORD \in Int /\ WORD > 0 /\ Full(r) < WORD
      BY <2>1, <3>1, Sizes
    <3>4. r[2] = Full(r)
      BY <3>1, <3>2, <3>3, ModSmall, Zenon
    <3>5. RSHAL(r[2], 1) = r[2] \div 2^1
      <4>1. 1 \in 0 .. 36
        OBVIOUS
      <4>2. QED  BY <2>1, <3>2, <3>4, <4>1, RshalType
    <3>6. 2^1 = 2
      BY SMT
    <3>7. QED  BY <3>4, <3>5, <3>6, Zenon
  <2>2. a < WORD \div 2
    <3>1. WORD \in Int
      BY Sizes
    <3> HIDE DEF a, b
    <3>2. QED  BY <1>2, <1>3, <3>1
  <2>3. QED  BY <1>1, <1>3, <2>1, <2>2, Zenon DEF MC_START, MC_END
<1> HIDE DEF a, b
<1>6. C \subseteq Int
  BY <1>2
<1>7. ASSUME NEW y \in Int
      PROVE  y \in C <=> y \div 2 \in a \div 2 .. b \div 2
  <2>1. y \in C <=> \E x \in a .. b - 1, k \in 0 .. 3 : (x - a) % 4 = 0 /\ y = x + k
    OBVIOUS
  <2>2. y \in C <=> a \div 2 <= y \div 2 /\ y \div 2 <= b \div 2
    <3> HIDE DEF C
    <3>1. (\E x \in a .. b - 1, k \in 0 .. 3 : (x - a) % 4 = 0 /\ y = x + k)
            <=> a <= y /\ y <= 2 * (b \div 2) + 1
      BY <1>2, <1>3, ClearedBytes
    <3>2. a <= y /\ y <= 2 * (b \div 2) + 1 <=> a \div 2 <= y \div 2 /\ y \div 2 <= b \div 2
      BY <1>2, <1>3
    <3>3. QED  BY <2>1, <3>1, <3>2, Zenon
  <2> HIDE DEF C
  <2>3. a \div 2 \in Int /\ b \div 2 \in Int /\ y \div 2 \in Int
    BY <1>2
  <2>4. QED  BY <2>2, <2>3
<1>8. a \div 2 <= b \div 2 /\ a \div 2 \in Int /\ b \div 2 \in Int
  BY <1>2, <1>3
<1>9. \A y \in Int : y \in Oracle!Cleared <=> y \div 2 \in MC_START .. MC_END
  <2> HIDE DEF C
  <2>1. ASSUME NEW y \in Int
        PROVE  y \in Oracle!Cleared <=> y \div 2 \in MC_START .. MC_END
    <3>1. y \in C <=> y \div 2 \in a \div 2 .. b \div 2
      BY <1>7
    <3>2. QED  BY <1>4, <1>5, <3>1
  <2>2. QED  BY <2>1
<1>10. MC_START <= MC_END /\ MC_START \in Int /\ MC_END \in Int
  BY <1>5, <1>8, Zenon
<1> HIDE DEF C
<1>11. QED  BY <1>4, <1>6, <1>9, <1>10

LEMMA MemclearMatch ==
  ASSUME TypeOK, Len(program) < HALF, reg[A7][2] \in 0 .. 4 => reg[A7][1] = 0,
         reg[A7][2] = 2 => STOPKEY,
         Dispatch("ecall") /\ reg[A7][2] = 3 => ClearComparable, ECALL_MEMCLEAR
  PROVE  Oracle!Next
<1>1. Syscall(3)
  BY DEF ECALL_MEMCLEAR, MemClearCalled, Syscall
<1>2. Oracle!Syscall(3) /\ status = "run" /\ ClearComparable
  <2>1. 3 \in 0 .. 4
    OBVIOUS
  <2>2. QED  BY <1>1, <2>1, CallMatch DEF Syscall, Dispatch
<1>3. /\ MC_START \in Int /\ MC_END \in Int
      /\ \A y \in Int : y \in Oracle!Cleared <=> y \div 2 \in MC_START .. MC_END
      /\ Oracle!Cleared \subseteq Int
  BY <1>2, ClearedWords
<1> DEFINE m == [w \in DATA |-> IF w \in MC_START .. MC_END THEN 0 ELSE mem[w]]
<1>4. mem' = m /\ NEXT_INSTRUCTION /\ UNCHANGED <<program, reg, input, output>>
      /\ MC_START .. MC_END \subseteq DATA
  BY DEF ECALL_MEMCLEAR
<1>5. Oracle!Cleared \subseteq Addresses
  <2>1. ASSUME NEW y \in Oracle!Cleared
        PROVE  y \in Addresses
    <3>1. y \in Int
      BY <1>3
    <3>2. y \div 2 \in MC_START .. MC_END
      BY <1>3, <3>1, Zenon
    <3>3. y \div 2 \in DATA
      BY <1>4, <3>2, Zenon
    <3>4. QED  BY <3>1, <3>3, AddressHalves, Zenon
  <2>2. QED  BY <2>1
<1>6. m \in Memory
  <2>1. HALF \in Int /\ HALF > 0 /\ mem \in Memory
    BY Sizes DEF TypeOK
  <2>2. \A w \in DATA : mem[w] \in 0 .. HALF - 1 /\ 0 \in 0 .. HALF - 1
    BY <2>1 DEF Memory
  <2>3. QED  BY <2>2 DEF Memory
<1>7. ASSUME NEW a \in Addresses
      PROVE  ByteOf(m, a) = IF a \in Oracle!Cleared THEN 0 ELSE Bytes[a]
  <2>1. a \in Int
    BY AddressesAreIntegers
  <2>2. a \div 2 \in DATA
    BY <2>1, AddressHalves, Zenon
  <2>3. Bytes[a] = ByteOf(mem, a)
    BY BytesOfMemory, Zenon
  <2>4. CASE a \in Oracle!Cleared
    <3>1. a \div 2 \in MC_START .. MC_END
      BY <1>3, <2>1, <2>4, Zenon
    <3>2. m[a \div 2] = 0
      BY <2>2, <3>1, Zenon
    <3> HIDE DEF m
    <3>3. /\ a % 2 = 0 => ByteOf(m, a) = m[a \div 2] % BYTE
          /\ a % 2 = 1 => ByteOf(m, a) = m[a \div 2] \div BYTE
      BY <1>6, <2>1, <2>2, ByteOfHalves
    <3>4. 0 % BYTE = 0 /\ 0 \div BYTE = 0
      BY Sizes
    <3>5. a % 2 = 0 \/ a % 2 = 1
      BY <2>1
    <3>6. QED  BY <2>4, <3>2, <3>3, <3>4, <3>5, Zenon
  <2>5. CASE a \notin Oracle!Cleared
    <3>1. ~(a \div 2 \in MC_START .. MC_END)
      BY <1>3, <2>1, <2>5, Zenon
    <3>2. m[a \div 2] = mem[a \div 2]
      BY <2>2, <3>1, Zenon
    <3> HIDE DEF m
    <3>3. ByteOf(m, a) = ByteOf(mem, a)
      BY <3>2, Zenon DEF ByteOf
    <3>4. QED  BY <2>3, <2>5, <3>3, Zenon
  <2>6. QED  BY <2>4, <2>5, Zenon
<1>8. Bytes' = [a \in Oracle!ByteAddresses |-> IF a \in Oracle!Cleared THEN 0 ELSE Bytes[a]]
  <2>1. Bytes' = [a \in Addresses |-> ByteOf(m, a)]
    <3> HIDE DEF m
    <3>1. QED  BY <1>4, Zenon DEF Bytes, Addresses, ByteOf
  <2>2. Oracle!ByteAddresses = Addresses
    BY Zenon DEF Oracle!ByteAddresses, Addresses
  <2> HIDE DEF m
  <2>3. QED  BY <1>7, <2>1, <2>2, Zenon
<1>9. Oracle!Goto(2 * pc + 4)
  BY <1>2, <1>4, GotoNext
<1>10. Values' = Values /\ Printed' = Printed /\ program' = program /\ input'[0] = input[0]
  BY <1>4, Zenon DEF Values, Printed
<1>11. Oracle!Cleared \subseteq Oracle!ByteAddresses
  BY <1>5, Zenon DEF Oracle!ByteAddresses, Addresses
<1>12. Oracle!MemClear
  BY <1>2, <1>8, <1>9, <1>10, <1>11, Zenon DEF Oracle!MemClear, Bytes, Values, Printed
<1>13. QED  BY <1>12, Zenon DEF Oracle!Next

LEMMA BadSyscallMatch ==
  ASSUME TypeOK, reg[A7][2] \in 0 .. 4 => reg[A7][1] = 0, reg[A7][2] = 2 => STOPKEY,
         Dispatch("ecall") /\ reg[A7][2] = 3 => ClearComparable, BadSyscall
  PROVE  Oracle!Next
<1>1. status' = "undefined" /\ UNCHANGED <<program, reg, pc, mem, input, output>>
  BY DEF BadSyscall
<1>2. Oracle!Raise
  BY <1>1 DEF Oracle!Raise
<1>3. CASE Dispatch("ecall") /\ reg[A7][2] \notin 0 .. 4
  <2>1. Oracle!At({"ecall"})
    <3>1. Oracle!Insn = I /\ Insn.op = I.op
      BY OracleInsn DEF Insn, I, Encode
    <3>2. QED  BY <1>3, <3>1 DEF Oracle!At, Dispatch
  <2>2. Oracle!Signed(Values[A7]) \notin 0 .. 4
    <3>1. A7 \in Regs
      BY RegsAssumption DEF Regs
    <3>2. Values[A7] = Full(reg[A7])
      BY <3>1, Zenon DEF Values
    <3>3. \A n \in 0 .. 4 : Oracle!Signed(Full(reg[A7])) = n <=> reg[A7][2] = n
      BY CallNumber
    <3>4. QED  BY <1>3, <3>2, <3>3, Zenon
  <2>3. Oracle!BadSyscall
    BY <1>2, <2>1, <2>2, Zenon DEF Oracle!BadSyscall, Values
  <2>4. QED  BY <2>3, Zenon DEF Oracle!Next
<1>4. CASE MemClearCalled /\ ~(MC_START <= MC_END /\ MC_START .. MC_END \subseteq DATA)
  <2>1. Syscall(3)
    BY <1>4 DEF MemClearCalled, Syscall
  <2>2. Oracle!Syscall(3) /\ ClearComparable
    <3>1. 3 \in 0 .. 4
      OBVIOUS
    <3>2. QED  BY <2>1, <3>1, CallMatch DEF Syscall
  <2>3. /\ MC_START <= MC_END /\ MC_START \in Int /\ MC_END \in Int
        /\ \A y \in Int : y \in Oracle!Cleared <=> y \div 2 \in MC_START .. MC_END
    BY <2>2, ClearedWords
  <2>4. PICK w \in MC_START .. MC_END : w \notin DATA
    BY <1>4, <2>3
  <2> DEFINE y == 2 * w
  <2>5. y \in Int /\ y \div 2 = w
    BY <2>3
  <2> HIDE DEF y
  <2>6. y \in Oracle!Cleared /\ y \notin Addresses
    BY <2>3, <2>4, <2>5, AddressHalves, Zenon
  <2>7. ~(Oracle!Cleared \subseteq Oracle!ByteAddresses)
    <3>1. Oracle!ByteAddresses = Addresses
      BY Zenon DEF Oracle!ByteAddresses, Addresses
    <3>2. QED  BY <2>6, <3>1, Zenon
  <2>8. Oracle!At({"ecall"})
    BY <2>2, Zenon DEF Oracle!Syscall
  <2>9. Oracle!BadSyscall
    BY <1>2, <2>2, <2>7, <2>8, Zenon DEF Oracle!BadSyscall
  <2>10. QED  BY <2>9, Zenon DEF Oracle!Next
<1>5. QED  BY <1>3, <1>4, Zenon DEF BadSyscall

LEMMA SyscallsMatch ==
  ASSUME TypeOK, Len(program) < HALF, CallComparable, Syscalls
  PROVE  Oracle!Next
<1>1. Dispatch("ecall")
  BY DEF Syscalls, ECALL_GETCHAR, ECALL_PUTCHAR, ECALL_EXIT, ECALL_MEMCLEAR, ECALL_TIME,
         BadSyscall, MemClearCalled, Syscall
<1>2. /\ reg[A7][2] \in 0 .. 4 => reg[A7][1] = 0
      /\ reg[A7][2] = 0 => Channel(A0) = 0
      /\ reg[A7][2] = 2 => STOPKEY
      /\ Dispatch("ecall") /\ reg[A7][2] = 3 => ClearComparable
      /\ reg[A7][2] = 4 => CLOCK = {0}
  BY <1>1, Zenon DEF CallComparable
<1>3. (ECALL_GETCHAR => Channel(A0) = 0) /\ (ECALL_TIME => CLOCK = {0})
  BY <1>2, Zenon DEF ECALL_GETCHAR, ECALL_TIME, Syscall
<1>4. QED  BY <1>2, <1>3, GetcharMatch, PutcharMatch, ExitMatch, MemclearMatch, TimeMatch,
              BadSyscallMatch, Zenon DEF Syscalls

-----------------------------------------------------------------------------
(* 10-multiply: products of halves *)

LEMMA ModProduct ==
  ASSUME NEW u \in Int, NEW v \in Int, NEW d \in Int, d > 0
  PROVE  (u * v) % d = ((u % d) * (v % d)) % d
<1> DEFINE p == u % d
           q == v % d
           a == u \div d
           b == v \div d
           k == a * q + b * p + d * (a * b)
           w == p * q
<1>1. p \in Int /\ q \in Int /\ a \in Int /\ b \in Int
  BY RemainderRange, Zenon
<1>2. u = p + d * a /\ v = q + d * b
  BY Remainder
<1> HIDE DEF p, q, a, b
<1>3. u * v = w + d * k
  BY <1>1, <1>2, SMT
<1>4. w \in Int /\ k \in Int
  BY <1>1, SMT
<1> HIDE DEF w, k
<1>5. (w + d * k) % d = w % d
  BY <1>4, ModShift, Zenon
<1>6. QED  BY <1>3, <1>5, Zenon DEF w, p, q

(* The halves of a register, the three ways the assembly takes them. *)
LEMMA HalvesOfRegister ==
  ASSUME NEW r \in RegVal
  PROVE  LET x == Full(r)
         IN  /\ x \in Int /\ 0 <= x /\ x < XMOD
             /\ LowerHalf(r) = x % HALF
             /\ x % HALF \in Int /\ 0 <= x % HALF /\ x % HALF < HALF
             /\ RSHA(r, 2 * BYTEBITS)[2] % HALF = x \div HALF
             /\ ADDAL(LSHAL(r[1], 2), RSHA(<<0, r[2]>>, 2 * BYTEBITS)[2]) = x \div HALF
             /\ x \div HALF \in Int /\ 0 <= x \div HALF /\ x \div HALF < HALF
             /\ x = (x % HALF) + HALF * (x \div HALF)
<1> DEFINE x == Full(r)
           h == x \div HALF
           g == x % HALF
           u == RSHA(r, 2 * BYTEBITS)
           b == <<0, r[2]>>
           t == RSHA(b, 2 * BYTEBITS)
           c == r[2] \div HALF
<1>1. x \in Int /\ 0 <= x /\ x < XMOD
  BY RegFull
<1>2. /\ HALF \in Int /\ HALF > 0 /\ WORD = 4 * HALF /\ WORD \in Int /\ XMOD = HALF * HALF
      /\ HALF = 4 * HIMOD /\ HIMOD \in Int /\ HIMOD > 0
  BY Sizes
<1>3. /\ r \in Word \X Word /\ r[2] \in Word /\ r[1] \in Int /\ 0 <= r[1] /\ r[1] < HIMOD
      /\ r[2] \in Int /\ 0 <= r[2] /\ r[2] < WORD
  <2>1. r \in Word \X Word /\ r[2] \in Word /\ r[1] \in 0 .. HIMOD - 1
    BY RegValPair
  <2>2. QED  BY <1>2, <2>1, WordInt
<1>4. g = r[2] % HALF /\ h = c + 4 * r[1] /\ c \in Word /\ c < 4
  BY HalfDigits, Zenon
<1>5. 2 * BYTEBITS \in 0 .. XLEN - 1 /\ 2^(2 * BYTEBITS) = HALF
  BY Widths, Exponents
<1>6. Full(u) = h /\ u \in RegVal
  BY <1>5, ShiftRightValue, Zenon
<1>7. b \in RegVal /\ Full(b) = r[2]
  <2>1. 0 \in 0 .. HIMOD - 1
    BY <1>2
  <2>2. Full(b) = 0 * WORD + r[2]
    BY Zenon DEF Full
  <2>3. QED  BY <1>2, <1>3, <2>1, <2>2 DEF RegVal
<1>8. Full(t) = c /\ t \in RegVal
  <2> HIDE DEF b
  <2>1. Full(t) = Full(b) \div HALF /\ t \in RegVal
    BY <1>5, <1>7, ShiftRightValue, Zenon
  <2>2. QED  BY <1>7, <2>1, Zenon
<1> HIDE DEF x, h, g, u, b, t, c
<1>9. h \in Int /\ 0 <= h /\ h < HALF
  BY <1>1, <1>2, QuotientRange, Zenon DEF h
<1>10. g \in Int /\ 0 <= g /\ g < HALF
  BY <1>1, <1>2, RemainderRange, Zenon DEF g
<1>11. u[2] % HALF = h
  <2>1. u \in Word \X Word
    BY <1>6, RegValPair
  <2>2. u[2] = h % WORD
    BY <1>6, <2>1, FullInjective, Zenon
  <2>3. h < WORD
    BY <1>2, <1>9
  <2>4. h % WORD = h /\ h % HALF = h
    BY <1>2, <1>9, <2>3, ModSmall, Zenon
  <2>5. QED  BY <2>2, <2>4, Zenon
<1>12. c \in Int /\ 0 <= c
  BY <1>4, WordInt
<1>13. t[2] = c
  <2>1. t \in Word \X Word
    BY <1>8, RegValPair
  <2>2. t[2] = c % WORD
    BY <1>8, <2>1, FullInjective, Zenon
  <2>3. c < WORD
    BY <1>4, <1>12, Sizes, WordInt
  <2>4. c % WORD = c
    BY <1>2, <1>12, <2>3, ModSmall, Zenon
  <2>5. QED  BY <2>2, <2>4, Zenon
<1>14. LSHAL(r[1], 2) = 4 * r[1]
  <2>1. 2^2 = 4
    BY SMT
  <2>2. r[1] * 2^2 = 4 * r[1] /\ r[1] * 2^2 < WORD
    BY <1>2, <1>3, <2>1
  <2>3. 2 \in 0 .. WBITS /\ r[1] \in Word
    BY <1>3, Widths
  <2>4. QED  BY <2>2, <2>3, LshalValue
<1>15. ADDAL(LSHAL(r[1], 2), t[2]) = h
  <2>1. 4 * r[1] + c < WORD - 1
    BY <1>2, <1>3, <1>4, <1>12
  <2>2. QED  BY <1>3, <1>4, <1>12, <1>13, <1>14, <2>1 DEF ADDAL
<1>16. x = g + HALF * h
  <2>1. x % HALF = x - HALF * (x \div HALF)
    BY <1>1, <1>2, Remainder, Zenon
  <2> DEFINE p == HALF * h
  <2>2. p \in Int /\ g = x - p
    BY <1>2, <1>9, <2>1 DEF g, h
  <2> HIDE DEF p
  <2>3. x = g + p
    BY <1>1, <1>10, <2>2
  <2>4. QED  BY <2>3 DEF p
<1>17. LowerHalf(r) = g
  BY <1>4, Zenon DEF LowerHalf
<1>18. QED  BY <1>1, <1>9, <1>10, <1>11, <1>15, <1>16, <1>17, Zenon DEF x, h, g, u, b, t

LEMMA HalfProduct ==
  ASSUME NEW a \in Int, 0 <= a, a < HALF, NEW b \in Int, 0 <= b, b < HALF
  PROVE  /\ Full(MULAL(a, b)) = a * b /\ MULAL(a, b) \in Word \X Word /\ MULAL(a, b) \in Int \X Int
         /\ a * b \in Int /\ 0 <= a * b /\ a * b < XMOD
<1>1. Full(MULAL(a, b)) = a * b /\ MULAL(a, b) \in Word \X Word
      /\ a * b \in Int /\ 0 <= a * b /\ a * b < XMOD
  BY FullOfMulal
<1> DEFINE p == MULAL(a, b)
<1>2. p \in Int \X Int
  <2>1. p \in Word \X Word
    BY <1>1, Zenon
  <2> HIDE DEF p
  <2>2. QED  BY <2>1, PairInt
<1>3. QED  BY <1>1, <1>2, Zenon

(* The middle of the product: shifted up, without what came around. *)
LEMMA MiddleUp ==
  ASSUME NEW a \in Word \X Word, Full(a) < 2 * XMOD
  PROVE  LET m == LSHA(a, 2 * BYTEBITS)
             t == <<m[1], m[2] - (m[2] % HALF)>>
         IN  t \in Int \X Int /\ Full(t) = (HALF * Full(a)) % AMOD
<1> DEFINE m == LSHA(a, 2 * BYTEBITS)
           z == Full(a)
           l == m[2]
           r == l % HALF
           v == 16 * HALF
           e == z % v
           f == z \div v
           w == m[1] * WORD
           t == <<m[1], l - r>>
<1>1. /\ HALF \in Int /\ HALF > 0 /\ WORD \in Int /\ WORD > 0 /\ WORD = HALF * 4 /\ 4 \in Int /\ 4 > 0
      /\ XMOD = HALF * HALF /\ XMOD \in Int
  BY Sizes
<1>2. m \in Word \X Word /\ v \in Int /\ v > 0 /\ HALF * v = AMOD /\ Full(m) = e * HALF + f
  BY ShiftHalf, Zenon
<1>3. z \in Int /\ 0 <= z /\ z < 2 * XMOD
  BY FullRange
<1> HIDE DEF m, z
<1>4. m[1] \in Int /\ l \in Int /\ Full(m) \in Int
  BY <1>2, WordInt, FullRange
<1>5. f \in Int /\ 0 <= f /\ f < HALF
  <2>1. v * HALF = 16 * XMOD /\ 2 * XMOD < 16 * XMOD
    BY <1>1, SMT
  <2> HIDE DEF v
  <2>2. z < v * HALF
    BY <1>1, <1>3, <2>1
  <2>3. QED  BY <1>1, <1>2, <1>3, <2>2, QuotientRange, Zenon
<1> HIDE DEF v
<1>6. e \in Int
  BY <1>2, <1>3, RemainderRange, Zenon
<1> HIDE DEF e, f, l
<1>7. Full(m) % HALF = f
  <2>1. Full(m) = HALF * e + f
    BY <1>1, <1>2, <1>5, <1>6
  <2>2. QED  BY <1>1, <1>4, <1>5, <1>6, <2>1, Quotient, SMT
<1>8. Full(m) % HALF = r
  <2>1. l = Full(m) % WORD
    BY <1>2, FullInjective, Zenon DEF l
  <2>2. (Full(m) % (HALF * 4)) % HALF = Full(m) % HALF
    BY <1>1, <1>4, ModMultiple, Zenon
  <2>3. QED  BY <1>1, <2>1, <2>2, Zenon
<1>9. Full(m) = w + l /\ w \in Int
  BY <1>1, <1>4 DEF Full, l
<1>10. r = f
  BY <1>7, <1>8, Zenon
<1>11. Full(t) = w + (l - r)
  BY Zenon DEF Full
<1> HIDE DEF w, r
<1>12. Full(t) = HALF * e
  <2> DEFINE p == HALF * e
  <2>1. e * HALF = p /\ p \in Int
    BY <1>1, <1>6
  <2>2. Full(m) = p + f
    BY <1>2, <2>1, Zenon
  <2> HIDE DEF p, t
  <2>3. Full(t) = p
    BY <1>4, <1>5, <1>9, <1>10, <1>11, <2>1, <2>2
  <2>4. QED  BY <2>3 DEF p
<1>13. (HALF * z) % (HALF * v) = HALF * e
  <2>1. HALF \in Int /\ HALF > 0
    BY <1>1, Zenon
  <2>2. v \in Int /\ v > 0
    BY <1>2, Zenon
  <2>3. z \in Int
    BY <1>3, Zenon
  <2>4. QED  BY <2>1, <2>2, <2>3, Scale, Zenon DEF e
<1>14. t \in Int \X Int
  BY <1>4, <1>5, <1>10
<1>15. QED  BY <1>2, <1>12, <1>13, <1>14, Zenon DEF t, l, r, m, z

(* The product of two registers from the products of their halves. *)
LEMMA ProductOfHalves ==
  ASSUME NEW r \in RegVal, NEW s \in RegVal
  PROVE  LET x == Full(r)
             y == Full(s)
             a == x % HALF
             b == x \div HALF
             c == y % HALF
             d == y \div HALF
         IN  /\ x \in Int /\ 0 <= x /\ x < XMOD /\ y \in Int /\ 0 <= y /\ y < XMOD
             /\ x * y = a * c + HALF * (b * c + a * d) + XMOD * (b * d)
             /\ a * c \in Int /\ 0 <= a * c /\ a * c < XMOD
             /\ a * d \in Int /\ 0 <= a * d /\ a * d < XMOD
             /\ b * c \in Int /\ 0 <= b * c /\ b * c < XMOD
             /\ b * d \in Int /\ 0 <= b * d /\ b * d < XMOD
<1> DEFINE x == Full(r)
           y == Full(s)
           a == x % HALF
           b == x \div HALF
           c == y % HALF
           d == y \div HALF
<1>1. HALF \in Int /\ XMOD = HALF * HALF
  BY Sizes
<1>2. /\ x \in Int /\ 0 <= x /\ x < XMOD /\ x = a + HALF * b
      /\ a \in Int /\ 0 <= a /\ a < HALF /\ b \in Int /\ 0 <= b /\ b < HALF
  BY HalvesOfRegister, Zenon
<1>3. /\ y \in Int /\ 0 <= y /\ y < XMOD /\ y = c + HALF * d
      /\ c \in Int /\ 0 <= c /\ c < HALF /\ d \in Int /\ 0 <= d /\ d < HALF
  BY HalvesOfRegister, Zenon
<1> HIDE DEF x, y, a, b, c, d
<1>4. /\ a * c \in Int /\ 0 <= a * c /\ a * c < XMOD
      /\ a * d \in Int /\ 0 <= a * d /\ a * d < XMOD
      /\ b * c \in Int /\ 0 <= b * c /\ b * c < XMOD
      /\ b * d \in Int /\ 0 <= b * d /\ b * d < XMOD
  BY <1>2, <1>3, HalfProduct, Zenon
<1>5. (a + HALF * b) * (c + HALF * d) =
        a * c + HALF * (b * c + a * d) + (HALF * HALF) * (b * d)
  BY <1>1, <1>2, <1>3, SMT
<1>6. x * y = a * c + HALF * (b * c + a * d) + XMOD * (b * d)
  BY <1>1, <1>2, <1>3, <1>5, Zenon
<1>7. QED  BY <1>2, <1>3, <1>4, <1>6, Zenon DEF x, y, a, b, c, d

LEMMA MulMatch ==
  ASSUME TypeOK, Len(program) < HALF, OP_MUL
  PROVE  Oracle!Next
<1> DEFINE u == Oracle!V1
           v == Oracle!V2
           x == Full(Src1)
           y == Full(Src2)
           a == x % HALF
           b == x \div HALF
           c == y % HALF
           d == y \div HALF
           ll == MULAL(a, c)
           lh == MULAL(a, d)
           hl == MULAL(b, c)
           s == Plus(hl, lh)
           m == LSHA(s, 2 * BYTEBITS)
           t == <<m[1], m[2] - (m[2] % HALF)>>
           p == a * c
           z == b * c + a * d
           k == b * d
<1>1. status = "run" /\ I.op = "mul"
  BY DEF OP_MUL, Dispatch, Insn, I, Encode
<1>2. I.op \in ROps /\ I.op \notin UpperOps \cup BranchOps \cup StoreOps
  BY <1>1 DEF ROps, UpperOps, BranchOps, StoreOps
<1>3. u \in Int /\ u % XMOD = x /\ Src1 \in RegVal /\ Insn.dest = I.rd
  BY <1>2, FirstOperand
<1>4. v \in Int /\ v % XMOD = y /\ Src2 \in RegVal
  BY <1>2, SecondOperand
<1>5. /\ LowerHalf(Src1) = a /\ RSHA(Src1, 2 * BYTEBITS)[2] % HALF = b
      /\ a \in Int /\ 0 <= a /\ a < HALF /\ b \in Int /\ 0 <= b /\ b < HALF
  BY <1>3, HalvesOfRegister, Zenon
<1>6. /\ LowerHalf(Src2) = c /\ RSHA(Src2, 2 * BYTEBITS)[2] % HALF = d
      /\ c \in Int /\ 0 <= c /\ c < HALF /\ d \in Int /\ 0 <= d /\ d < HALF
  BY <1>4, HalvesOfRegister, Zenon
<1>7. STORE_RESULT(Plus(ll, t))
  BY <1>5, <1>6, Zenon DEF OP_MUL
<1>8. /\ x * y = p + HALF * z + XMOD * k
      /\ p \in Int /\ 0 <= p /\ k \in Int /\ x \in Int /\ y \in Int
      /\ a * d \in Int /\ 0 <= a * d /\ a * d < XMOD
      /\ b * c \in Int /\ 0 <= b * c /\ b * c < XMOD
  BY <1>3, <1>4, ProductOfHalves, Zenon
<1> HIDE DEF u, v, x, y, a, b, c, d
<1>9. XMOD \in Int /\ XMOD > 0 /\ HALF \in Int /\ AMOD \in Int /\ AMOD > 0 /\ AMOD = 16 * XMOD
  BY Sizes
<1>10. z \in Int /\ 0 <= z /\ z < 2 * XMOD
  <2> DEFINE e == a * d
             f == b * c
  <2>1. e \in Int /\ 0 <= e /\ e < XMOD /\ f \in Int /\ 0 <= f /\ f < XMOD /\ z = f + e
    BY <1>8
  <2> HIDE DEF e, f, z
  <2>2. QED  BY <1>9, <2>1
<1>11. Full(ll) = p /\ ll \in Int \X Int
  BY <1>5, <1>6, HalfProduct, Zenon
<1>12. Full(lh) = a * d /\ lh \in Int \X Int
  BY <1>5, <1>6, HalfProduct, Zenon
<1>13. Full(hl) = b * c /\ hl \in Int \X Int
  BY <1>5, <1>6, HalfProduct, Zenon
<1> HIDE DEF ll, lh, hl
<1>14. Full(s) = z /\ s \in Word \X Word
  <2>1. Full(s) = z % AMOD /\ s \in Word \X Word
    BY <1>12, <1>13, FullOfPlus
  <2> HIDE DEF z
  <2>2. z < AMOD
    BY <1>9, <1>10
  <2>3. z % AMOD = z
    BY <1>9, <1>10, <2>2, ModSmall, Zenon
  <2>4. QED  BY <2>1, <2>3, Zenon
<1> HIDE DEF s, p, z, k
<1>15. t \in Int \X Int /\ Full(t) = (HALF * z) % AMOD
  BY <1>10, <1>14, MiddleUp, Zenon
<1> HIDE DEF t
<1> DEFINE w == Plus(ll, t)
           g == HALF * z
<1>16. Full(w) = (p + (g % AMOD)) % AMOD /\ w \in Word \X Word
  BY <1>11, <1>15, FullOfPlus, Zenon
<1>17. g \in Int /\ x * y = p + g + XMOD * k
  BY <1>8, <1>9, <1>10, SMT
<1> HIDE DEF w, g
<1>18. g % AMOD \in Int
  BY <1>9, <1>17, RemainderRange, Zenon
<1>19. Full(w) % XMOD = (p + g) % XMOD
  <2> DEFINE j == g % AMOD
  <2>1. Full(w) % XMOD = (p + j) % XMOD
    <3>1. p + j \in Int
      <4>1. p \in Int /\ j \in Int
        BY <1>8, <1>18, Zenon
      <4> HIDE DEF j
      <4>2. QED  BY <4>1
    <3>2. ((p + j) % AMOD) % XMOD = (p + j) % XMOD
      BY <3>1, ModAccumulator, Zenon
    <3>3. QED  BY <1>16, <3>2, Zenon
  <2>2. j % XMOD = g % XMOD
    BY <1>17, ModAccumulator, Zenon
  <2>3. j \in Int /\ p \in Int
    BY <1>8, <1>18
  <2> HIDE DEF j
  <2>4. XMOD \in Int /\ XMOD > 0
    BY <1>9, Zenon
  <2>5. g \in Int
    BY <1>17, Zenon
  <2>6. (p + j) % XMOD = ((p % XMOD) + (j % XMOD)) % XMOD
    BY <2>3, <2>4, ModSum, Zenon
  <2>7. (p + g) % XMOD = ((p % XMOD) + (g % XMOD)) % XMOD
    BY <2>3, <2>4, <2>5, ModSum, Zenon
  <2>8. QED  BY <2>1, <2>2, <2>6, <2>7, Zenon
<1>20. (x * y) % XMOD = (p + g) % XMOD
  <2> DEFINE j == p + g
  <2>1. j \in Int /\ k \in Int
    BY <1>8, <1>17
  <2> HIDE DEF j
  <2>2. XMOD \in Int /\ XMOD > 0
    BY <1>9, Zenon
  <2>3. (j + XMOD * k) % XMOD = j % XMOD
    BY <2>1, <2>2, ModShift, Zenon
  <2>4. QED  BY <1>17, <2>3, Zenon DEF j
<1>21. (u * v) % XMOD = (x * y) % XMOD
  BY <1>3, <1>4, <1>9, ModProduct, Zenon
<1>22. Full(w) % XMOD = (u * v) % XMOD
  BY <1>19, <1>20, <1>21, Zenon
<1>23. w \in Int \X Word /\ u * v \in Int
  <2>1. w \in Int \X Word
    BY <1>16, PairInt
  <2>2. u * v \in Int
    BY <1>3, <1>4, SMT
  <2>3. QED  BY <2>1, <2>2
<1> DEFINE o == u * v
<1>24. STORE_RESULT(w)
  BY <1>7 DEF w
<1> HIDE DEF o
<1>25. Result(o)
  BY <1>1, <1>3, <1>22, <1>23, <1>24, ResultOfStore DEF o
<1>26. Oracle!Compute(I.op, u, v) = o
  BY <1>1 DEF Oracle!Compute, o
<1>27. QED  BY <1>1, <1>2, <1>25, <1>26, RTypeMatch DEF u, v

LEMMA CarryOut ==
  ASSUME NEW p \in Word \X Word
  PROVE  LET c == <<0, RSHA(<<0, p[1]>>, WBITS - 4)[2]>>
         IN  c \in Int \X Int /\ Full(c) = Full(p) \div XMOD
<1> DEFINE x == Full(p)
           h == p[1]
           a == <<0, h>>
           n == WBITS - 4
           u == RSHA(a, n)
           k == h \div HIMOD
           c == <<0, u[2]>>
<1>1. /\ WORD \in Int /\ WORD > 1 /\ HIMOD \in Int /\ HIMOD > 0 /\ AMOD = WORD * WORD
      /\ XMOD = HIMOD * WORD /\ XMOD \in Int /\ XMOD > 0
  BY Sizes
<1>2. x \in Int /\ h = x \div WORD /\ h \in Word /\ h \in Int /\ 0 <= h /\ h < WORD
  <2>1. h = x \div WORD
    BY FullInjective, Zenon
  <2>2. x \in Int
    BY FullRange
  <2>3. h \in Word
    OBVIOUS
  <2> HIDE DEF h, x
  <2>4. h \in Int /\ 0 <= h /\ h < WORD
    BY <2>3, WordInt
  <2>5. QED  BY <2>1, <2>2, <2>3, <2>4
<1> HIDE DEF x, h
<1>3. a \in Word \X Word /\ Full(a) = h
  <2>1. Full(a) = 0 * WORD + h
    BY Zenon DEF Full
  <2>2. QED  BY <1>1, <1>2, <2>1, ZeroIsWord
<1>4. n \in 0 .. 36 /\ n \in Int /\ 0 <= n /\ n <= 36 /\ 2^n = HIMOD
  <2>1. n \in 0 .. 36 /\ n \in Int /\ 0 <= n /\ n <= 36
    BY Widths
  <2> DEFINE w == 2^n
  <2>2. w \in Int
    BY <2>1, PowerInt, Zenon
  <2>3. WORD * w = XMOD
    BY Exponents, Zenon
  <2> HIDE DEF w
  <2>4. WORD * w + 0 = WORD * HIMOD + 0
    BY <1>1, <2>2, <2>3, SMT
  <2>5. WORD > 0 /\ 0 \in Int /\ 0 <= 0 /\ 0 < WORD
    BY <1>1
  <2>6. w = HIMOD
    BY <1>1, <2>2, <2>4, <2>5, DivisionUnique, SMT
  <2>7. QED  BY <2>1, <2>6 DEF w
<1>5. 2 * h < AMOD
  <2>1. 2 * WORD <= AMOD
    BY <1>1, Widths, SMT
  <2>2. QED  BY <1>1, <1>2, <2>1, Sizes
<1> HIDE DEF a, n
<1>6. Full(u) = k /\ u \in Word \X Word
  BY <1>3, <1>4, <1>5, FullOfRsha, RshaType
<1> HIDE DEF u
<1>7. u[2] = k
  <2>1. u[2] = k % WORD
    BY <1>6, FullInjective, Zenon
  <2>2. k \in Int /\ 0 <= k
    BY <1>1, <1>2
  <2>3. k < WORD
    BY <1>1, <1>2, Widths, SMT
  <2> HIDE DEF k
  <2>4. k % WORD = k
    BY <1>1, <2>2, <2>3, ModSmall, Zenon
  <2>5. QED  BY <2>1, <2>4, Zenon
<1>8. k = x \div XMOD
  <2>1. WORD \in Int /\ WORD > 0 /\ HIMOD \in Int /\ HIMOD > 0
    BY <1>1
  <2>2. (x \div WORD) \div HIMOD = x \div (WORD * HIMOD)
    BY <1>2, <2>1, NestedQuotient, Zenon
  <2>3. WORD * HIMOD = XMOD
    BY <1>1
  <2>4. QED  BY <1>2, <2>2, <2>3, Zenon
<1>9. k \in Int
  BY <1>1, <1>2
<1> HIDE DEF k
<1>10. Full(c) = k /\ c \in Int \X Int
  <2>1. Full(c) = 0 * WORD + k
    BY <1>7, Zenon DEF Full
  <2>2. QED  BY <1>1, <1>7, <1>9, <2>1
<1>11. QED  BY <1>8, <1>10, Zenon DEF c, u, a, n, h, x

LEMMA Mask14Value ==
  ASSUME NEW a \in Word \X Word
  PROVE  /\ Mask14(a) \in Int \X Int /\ Mask14(a) \in Int \X Word
         /\ Full(Mask14(a)) = Full(a) % XMOD
<1>1. a \in Int \X Word /\ a[1] \in Int /\ a[2] \in Word
  BY PairInt, WordInt
<1>2. Full(<<a[1] % HIMOD, a[2]>>) = Full(a) % XMOD
  BY <1>1, FullOfMask
<1>3. a[1] % HIMOD \in Int /\ a[2] \in Int
  <2>1. HIMOD \in Int /\ HIMOD > 0
    BY Sizes
  <2>2. a[1] % HIMOD \in Int
    BY <1>1, <2>1, RemainderRange, Zenon
  <2>3. QED  BY <1>1, <2>2, WordInt
<1>4. QED  BY <1>1, <1>2, <1>3 DEF Mask14

LEMMA HighPart ==
  ASSUME NEW a \in Word \X Word, Full(a) < XMOD
  PROVE  /\ RSHA(a, 2 * BYTEBITS) \in Int \X Int
         /\ Full(RSHA(a, 2 * BYTEBITS)) = Full(a) \div HALF
<1> DEFINE n == 2 * BYTEBITS
<1>1. n \in 0 .. 36 /\ n \in Int /\ 0 <= n /\ n <= 36 /\ 2^n = HALF
  BY Widths, Exponents
<1>2. 2 * Full(a) < AMOD
  <2>1. Full(a) \in Int /\ AMOD = 16 * XMOD /\ XMOD \in Int /\ 0 <= Full(a)
    BY FullRange, Sizes
  <2>2. QED  BY <2>1
<1> HIDE DEF n
<1>3. Full(RSHA(a, n)) = Full(a) \div HALF /\ RSHA(a, n) \in Word \X Word
  BY <1>1, <1>2, FullOfRsha, RshaType
<1>4. RSHA(a, n) \in Int \X Int
  BY <1>3, PairInt
<1>5. QED  BY <1>3, <1>4, Zenon DEF n

LEMMA LowPart ==
  ASSUME NEW a \in Word \X Word
  PROVE  LET u == LSHA(<<0, a[2] % HALF>>, 2 * BYTEBITS)
         IN  u \in Int \X Int /\ Full(u) = HALF * (Full(a) % HALF)
<1> DEFINE x == Full(a)
           l == a[2]
           g == l % HALF
           u == LSHA(<<0, g>>, 2 * BYTEBITS)
<1>1. HALF \in Int /\ HALF > 0 /\ WORD = HALF * 4 /\ 4 \in Int /\ 4 > 0
  BY Sizes
<1>2. x \in Int /\ l = x % WORD
  <2>1. l = x % WORD
    BY FullInjective, Zenon
  <2>2. x \in Int
    BY FullRange
  <2>3. QED  BY <2>1, <2>2
<1> HIDE DEF x
<1>3. g = x % HALF
  <2>1. (x % (HALF * 4)) % HALF = x % HALF
    BY <1>1, <1>2, ModMultiple, Zenon
  <2>2. QED  BY <1>1, <1>2, <2>1, Zenon
<1>4. g \in Int /\ 0 <= g /\ g < HALF
  <2>1. HALF \in Int /\ HALF > 0 /\ l \in Int
    BY <1>1, WordInt
  <2> HIDE DEF l
  <2>2. QED  BY <2>1, RemainderRange, Zenon
<1> HIDE DEF g
<1>5. Full(u) = HALF * g /\ u \in Word \X Word
  BY <1>4, ShiftUp, Zenon
<1> HIDE DEF u
<1>6. u \in Int \X Int
  BY <1>5, PairInt
<1>7. QED  BY <1>3, <1>5, <1>6, Zenon DEF u, g, l, x

(* The upper half of a sum of digit products, from the carries out of the     *)
(* lower one.                                                                *)
LEMMA UpperDigits ==
  ASSUME NEW ll \in Int, NEW lh \in Int, NEW hl \in Int, NEW hh \in Int, NEW e1, NEW e2,
         e1 = ll + HALF * (lh % HALF),
         e2 = (e1 % XMOD) + HALF * (hl % HALF)
  PROVE  (ll + HALF * (hl + lh) + XMOD * hh) \div XMOD
           = ((((lh \div HALF) + hh) + (hl \div HALF)) + (e1 \div XMOD)) + (e2 \div XMOD)
<1> DEFINE a == lh \div HALF
           b == lh % HALF
           c == hl \div HALF
           d == hl % HALF
           p == HALF * b
           q == HALF * d
           c1 == e1 \div XMOD
           f1 == e1 % XMOD
           c2 == e2 \div XMOD
           f2 == e2 % XMOD
           n == ll + HALF * (hl + lh) + XMOD * hh
           k == (((a + hh) + c) + c1) + c2
<1>1. HALF \in Int /\ HALF > 0
  BY Sizes
<1>2. XMOD \in Int /\ XMOD > 0
  BY Sizes
<1>3. XMOD = HALF * HALF
  BY Sizes
<1>4. a \in Int /\ b \in Int /\ c \in Int /\ d \in Int
  BY <1>1, RemainderRange, Zenon
<1>5. lh = HALF * a + b
  <2>1. lh % HALF = lh - HALF * (lh \div HALF)
    BY <1>1, Remainder, Zenon
  <2> DEFINE s == HALF * a
  <2>2. s \in Int
    BY <1>1, <1>4, SMT
  <2>3. b = lh - s
    BY <2>1
  <2> HIDE DEF s, a, b
  <2>4. lh = s + b
    BY <1>4, <2>2, <2>3
  <2>5. QED  BY <2>4 DEF s
<1>6. hl = HALF * c + d
  <2>1. hl % HALF = hl - HALF * (hl \div HALF)
    BY <1>1, Remainder, Zenon
  <2> DEFINE s == HALF * c
  <2>2. s \in Int
    BY <1>1, <1>4, SMT
  <2>3. d = hl - s
    BY <2>1
  <2> HIDE DEF s, c, d
  <2>4. hl = s + d
    BY <1>4, <2>2, <2>3
  <2>5. QED  BY <2>4 DEF s
<1> HIDE DEF a, b, c, d
<1>7. p \in Int /\ q \in Int
  BY <1>1, <1>4, SMT
<1>8. HALF * (hl + lh) = XMOD * (a + c) + p + q
  BY <1>1, <1>3, <1>4, <1>5, <1>6, SMT
<1>a. e1 = ll + p
  BY Zenon DEF p, b
<1>b. e2 = f1 + q
  BY Zenon DEF f1, q, d
<1> HIDE DEF p, q
<1>9. e1 \in Int
  BY <1>7, <1>a
<1>10. c1 \in Int /\ f1 \in Int /\ f1 = e1 - XMOD * c1
  BY <1>2, <1>9, RemainderRange, Remainder, Zenon
<1> HIDE DEF c1, f1
<1>11. e2 \in Int
  BY <1>7, <1>10, <1>b
<1>12. c2 \in Int /\ f2 \in Int /\ 0 <= f2 /\ f2 < XMOD /\ f2 = e2 - XMOD * c2
  BY <1>2, <1>11, RemainderRange, Remainder, Zenon
<1> HIDE DEF c2, f2
<1>13. k \in Int
  BY <1>4, <1>10, <1>12
<1>14. n = XMOD * k + f2
  <2>1. e1 = ll + p /\ e2 = f1 + q
    BY <1>a, <1>b, Zenon
  <2>2. XMOD * k = XMOD * (a + c) + XMOD * hh + XMOD * c1 + XMOD * c2
    BY <1>2, <1>4, <1>10, <1>12, SMT
  <2> DEFINE s == XMOD * (a + c)
             t == XMOD * hh
             v == XMOD * c1
             w == XMOD * c2
             g == HALF * (hl + lh)
             x == XMOD * k
  <2>3. s \in Int /\ t \in Int /\ v \in Int /\ w \in Int /\ g \in Int /\ x \in Int
    BY <1>1, <1>2, <1>4, <1>10, <1>12, <1>13, SMT
  <2>4. /\ n = ll + g + t /\ g = s + p + q /\ f1 = e1 - v /\ f2 = e2 - w /\ x = s + t + v + w
    BY <1>8, <1>10, <1>12, <2>2, Zenon
  <2> HIDE DEF s, t, v, w, g, x, n, k
  <2>5. n = x + f2
    BY <1>7, <1>10, <1>12, <2>1, <2>3, <2>4
  <2>6. QED  BY <2>5 DEF x
<1>15. n \in Int
  BY <1>2, <1>12, <1>13, <1>14, SMT
<1> HIDE DEF n, k
<1>16. n \div XMOD = k
  <2>1. f2 \in Int /\ 0 <= f2 /\ f2 < XMOD
    BY <1>12, Zenon
  <2>2. QED  BY <1>2, <1>13, <1>14, <1>15, <2>1, Quotient, SMT
<1>17. QED  BY <1>16, Zenon DEF n, k, a, b, c, d, p, q, c1, f1, c2

LEMMA AddTo ==
  ASSUME NEW k \in Int, NEW m \in Int, NEW d \in Int, d > 0
  PROVE  (k + (m % d)) % d = (m + k) % d
<1> DEFINE r == m % d
<1>1. r \in Int
  BY RemainderRange, Zenon
<1>2. (r + k) % d = (m + k) % d
  BY ModAdd, Zenon
<1> HIDE DEF r
<1>3. k + r = r + k
  BY <1>1
<1>4. QED  BY <1>2, <1>3, Zenon DEF r

LEMMA MaskedSum ==
  ASSUME NEW a \in Int \X Int, NEW b \in Int \X Int
  PROVE  /\ Mask14(Plus(a, b)) \in Int \X Int /\ Mask14(Plus(a, b)) \in Int \X Word
         /\ Full(Mask14(Plus(a, b))) = (Full(a) + Full(b)) % XMOD
<1> DEFINE s == Plus(a, b)
           x == Full(a)
           y == Full(b)
<1>1. Full(s) = (x + y) % AMOD /\ s \in Word \X Word
  BY FullOfPlus
<1>2. x + y \in Int
  <2>1. x \in Int /\ y \in Int
    BY FullInt
  <2> HIDE DEF x, y
  <2>2. QED  BY <2>1
<1> HIDE DEF s, x, y
<1>3. Mask14(s) \in Int \X Int /\ Mask14(s) \in Int \X Word /\ Full(Mask14(s)) = Full(s) % XMOD
  BY <1>1, Mask14Value
<1>4. ((x + y) % AMOD) % XMOD = (x + y) % XMOD
  BY <1>2, ModAccumulator, Zenon
<1>5. QED  BY <1>1, <1>3, <1>4, Zenon DEF s, x, y

LEMMA ScaledHalf ==
  ASSUME NEW x \in Int
  PROVE  HALF * (x % HALF) \in Int /\ 0 <= HALF * (x % HALF) /\ HALF * (x % HALF) < XMOD
<1> DEFINE g == x % HALF
<1>1. HALF \in Int /\ HALF > 0
  BY Sizes
<1>2. g \in Int /\ 0 <= g /\ g < HALF
  BY <1>1, RemainderRange, Zenon
<1> HIDE DEF g
<1>3. HALF * HALF = XMOD
  BY Sizes
<1>4. HALF * g \in Int /\ 0 <= HALF * g
  BY <1>1, <1>2, SMT
<1>5. HALF * g < HALF * HALF
  BY <1>1, <1>2, SMT
<1>6. QED  BY <1>3, <1>4, <1>5, Zenon DEF g

LEMMA ExactSum ==
  ASSUME NEW a \in Int \X Int, NEW b \in Int \X Int,
         0 <= Full(a), Full(a) < XMOD, 0 <= Full(b), Full(b) < XMOD
  PROVE  Full(Plus(a, b)) = Full(a) + Full(b) /\ Plus(a, b) \in Word \X Word
<1> DEFINE x == Full(a)
           y == Full(b)
<1>1. Full(Plus(a, b)) = (x + y) % AMOD /\ Plus(a, b) \in Word \X Word
  BY FullOfPlus
<1>2. x \in Int /\ y \in Int /\ 0 <= x /\ x < XMOD /\ 0 <= y /\ y < XMOD
  BY FullInt
<1> HIDE DEF x, y
<1> DEFINE z == x + y
<1>3. z \in Int /\ 0 <= z /\ z < AMOD /\ AMOD \in Int
  BY <1>2, Sizes
<1> HIDE DEF z
<1>4. z % AMOD = z
  BY <1>3, ModSmall, Zenon
<1>5. QED  BY <1>1, <1>4, Zenon DEF x, y, z

(* The shared code of the upper products computes the upper XLEN bits.       *)
LEMMA UpperProductValue ==
  ASSUME NEW r \in RegVal, NEW s \in RegVal
  PROVE  /\ UpperProduct(r, s) \in Int \X Int /\ UpperProduct(r, s) \in Int \X Word
         /\ Full(UpperProduct(r, s)) = ((Full(r) * Full(s)) \div XMOD) % XMOD
<1> DEFINE x == Full(r)
           y == Full(s)
           a == x % HALF
           b == x \div HALF
           c == y % HALF
           d == y \div HALF
           LL == MULAL(a, c)
           LH == MULAL(a, d)
           HL == MULAL(b, c)
           HH == MULAL(b, d)
           SLH == LSHA(<<0, LH[2] % HALF>>, 2 * BYTEBITS)
           SHL == LSHA(<<0, HL[2] % HALF>>, 2 * BYTEBITS)
           lo1 == Plus(LL, SLH)
           lo2 == Plus(Mask14(lo1), SHL)
           carry1 == <<0, RSHA(<<0, lo1[1]>>, WBITS - 4)[2]>>
           carry2 == <<0, RSHA(<<0, lo2[1]>>, WBITS - 4)[2]>>
           RLH == RSHA(LH, 2 * BYTEBITS)
           RHL == RSHA(HL, 2 * BYTEBITS)
           hi1 == Mask14(Plus(RLH, HH))
           hi2 == Mask14(Plus(RHL, hi1))
           hi3 == Mask14(Plus(carry1, hi2))
           hi4 == Mask14(Plus(carry2, hi3))
           ll == a * c
           lh == a * d
           hl == b * c
           hh == b * d
           p == HALF * (lh % HALF)
           q == HALF * (hl % HALF)
           e1 == ll + p
           e2 == (e1 % XMOD) + q
           c1 == e1 \div XMOD
           c2 == e2 \div XMOD
           i == lh \div HALF
           j == hl \div HALF
<1>1. /\ LowerHalf(r) = a /\ ADDAL(LSHAL(r[1], 2), RSHA(<<0, r[2]>>, 2 * BYTEBITS)[2]) = b
      /\ a \in Int /\ 0 <= a /\ a < HALF /\ b \in Int /\ 0 <= b /\ b < HALF
  BY HalvesOfRegister, Zenon
<1>2. /\ LowerHalf(s) = c /\ ADDAL(LSHAL(s[1], 2), RSHA(<<0, s[2]>>, 2 * BYTEBITS)[2]) = d
      /\ c \in Int /\ 0 <= c /\ c < HALF /\ d \in Int /\ 0 <= d /\ d < HALF
  BY HalvesOfRegister, Zenon
<1>3. UpperProduct(r, s) = hi4
  BY <1>1, <1>2, Zenon DEF UpperProduct
<1>4. /\ x * y = ll + HALF * (hl + lh) + XMOD * hh
      /\ ll \in Int /\ 0 <= ll /\ ll < XMOD /\ lh \in Int /\ 0 <= lh /\ lh < XMOD
      /\ hl \in Int /\ 0 <= hl /\ hl < XMOD /\ hh \in Int
  BY ProductOfHalves, Zenon
<1> HIDE DEF a, b, c, d, x, y
<1>5. LL \in Word \X Word /\ LL \in Int \X Int /\ Full(LL) = ll
  BY <1>1, <1>2, HalfProduct, Zenon
<1>6. LH \in Word \X Word /\ Full(LH) = lh
  BY <1>1, <1>2, HalfProduct, Zenon
<1>7. HL \in Word \X Word /\ Full(HL) = hl
  BY <1>1, <1>2, HalfProduct, Zenon
<1>8. HH \in Int \X Int /\ Full(HH) = hh
  BY <1>1, <1>2, HalfProduct, Zenon
<1> HIDE DEF LL, LH, HL, HH, ll, lh, hl, hh
<1>9. SLH \in Int \X Int /\ Full(SLH) = p
  BY <1>6, LowPart, Zenon
<1>10. SHL \in Int \X Int /\ Full(SHL) = q
  BY <1>7, LowPart, Zenon
<1>11. RLH \in Int \X Int /\ Full(RLH) = i
  BY <1>4, <1>6, HighPart, Zenon
<1>12. RHL \in Int \X Int /\ Full(RHL) = j
  BY <1>4, <1>7, HighPart, Zenon
<1> HIDE DEF SLH, SHL, RLH, RHL
<1>13. (x * y) \div XMOD = (((i + hh) + j) + c1) + c2
  <2>1. ll \in Int /\ lh \in Int /\ hl \in Int /\ hh \in Int
    BY <1>4, Zenon
  <2>2. x * y = ll + HALF * (hl + lh) + XMOD * hh
    BY <1>4, Zenon
  <2>3. e1 = ll + HALF * (lh % HALF) /\ e2 = (e1 % XMOD) + HALF * (hl % HALF)
    OBVIOUS
  <2> HIDE DEF e1, e2
  <2>5. (ll + HALF * (hl + lh) + XMOD * hh) \div XMOD = (((i + hh) + j) + c1) + c2
    BY <2>1, <2>3, UpperDigits, SMTT(30)
  <2>4. QED  BY <2>2, <2>5, Zenon
<1>14. XMOD \in Int /\ XMOD > 0 /\ HALF \in Int /\ HALF > 0
  BY Sizes
<1>15. p \in Int /\ 0 <= p /\ p < XMOD /\ q \in Int /\ 0 <= q /\ q < XMOD
  BY <1>4, ScaledHalf, Zenon
<1>16. i \in Int /\ j \in Int
  BY <1>4, <1>14, RemainderRange, Zenon
<1> HIDE DEF p, q, i, j
<1>17. Full(lo1) = e1 /\ lo1 \in Word \X Word
  BY <1>4, <1>5, <1>9, <1>15, ExactSum, Zenon
<1> HIDE DEF lo1
<1>18. e1 \in Int
  BY <1>4, <1>15
<1> DEFINE f1 == e1 % XMOD
<1>19. Mask14(lo1) \in Int \X Int /\ Full(Mask14(lo1)) = f1
  BY <1>17, Mask14Value, Zenon
<1>20. f1 \in Int /\ 0 <= f1 /\ f1 < XMOD
  <2> HIDE DEF e1
  <2>1. QED  BY <1>14, <1>18, RemainderRange, Zenon
<1>21. c1 \in Int
  <2> HIDE DEF e1
  <2>1. QED  BY <1>14, <1>18, RemainderRange, Zenon
<1>22. Full(carry1) = c1 /\ carry1 \in Int \X Int
  BY <1>17, CarryOut, Zenon
<1> DEFINE g2 == f1 + q
<1>23. e2 = g2
  OBVIOUS
<1>24. Full(lo2) = g2 /\ lo2 \in Word \X Word
  <2> HIDE DEF f1
  <2>1. QED  BY <1>10, <1>15, <1>19, <1>20, ExactSum, Zenon
<1> HIDE DEF lo2, f1, e2
<1>25. Full(carry2) = c2 /\ carry2 \in Int \X Int
  BY <1>23, <1>24, CarryOut, Zenon
<1>26. c2 \in Int
  <2>1. e2 \in Int
    BY <1>15, <1>20, <1>23
  <2>2. QED  BY <1>14, <2>1, RemainderRange, Zenon
<1> HIDE DEF carry1, carry2, c1, c2
<1> DEFINE k1 == i + hh
           k2 == k1 + j
           k3 == k2 + c1
           k4 == k3 + c2
<1>27. hi1 \in Int \X Int /\ Full(hi1) = k1 % XMOD
  BY <1>8, <1>11, MaskedSum
<1>28. k1 \in Int /\ k2 \in Int /\ k3 \in Int /\ k4 \in Int
  BY <1>4, <1>16, <1>21, <1>26
<1> HIDE DEF hi1, k1
<1>29. hi2 \in Int \X Int /\ Full(hi2) = k2 % XMOD
  <2>1. RHL \in Int \X Int /\ Full(RHL) = j
    BY <1>12, Zenon
  <2>2. hi1 \in Int \X Int /\ Full(hi1) = k1 % XMOD
    BY <1>27, Zenon
  <2>3. hi2 \in Int \X Int /\ Full(hi2) = (Full(RHL) + Full(hi1)) % XMOD
    BY <2>1, <2>2, MaskedSum, Zenon
  <2>4. XMOD \in Int /\ XMOD > 0
    BY <1>14, Zenon
  <2>5. j \in Int /\ k1 \in Int
    BY <1>16, <1>28, Zenon
  <2>6. (j + (k1 % XMOD)) % XMOD = (k1 + j) % XMOD
    BY <2>4, <2>5, AddTo, Zenon
  <2>7. QED  BY <2>1, <2>2, <2>3, <2>6, Zenon
<1> HIDE DEF hi2, k2
<1>30. hi3 \in Int \X Int /\ Full(hi3) = k3 % XMOD
  <2>1. carry1 \in Int \X Int /\ Full(carry1) = c1
    BY <1>22, Zenon
  <2>2. hi2 \in Int \X Int /\ Full(hi2) = k2 % XMOD
    BY <1>29, Zenon
  <2>3. hi3 \in Int \X Int /\ Full(hi3) = (Full(carry1) + Full(hi2)) % XMOD
    BY <2>1, <2>2, MaskedSum, Zenon
  <2>4. XMOD \in Int /\ XMOD > 0
    BY <1>14, Zenon
  <2>5. c1 \in Int /\ k2 \in Int
    BY <1>21, <1>28, Zenon
  <2>6. (c1 + (k2 % XMOD)) % XMOD = (k2 + c1) % XMOD
    BY <2>4, <2>5, AddTo, Zenon
  <2>7. QED  BY <2>1, <2>2, <2>3, <2>6, Zenon
<1> HIDE DEF hi3, k3
<1>31. hi4 \in Int \X Int /\ hi4 \in Int \X Word /\ Full(hi4) = k4 % XMOD
  <2>1. carry2 \in Int \X Int /\ Full(carry2) = c2
    BY <1>25, Zenon
  <2>2. hi3 \in Int \X Int /\ Full(hi3) = k3 % XMOD
    BY <1>30, Zenon
  <2>3. hi4 \in Int \X Int /\ hi4 \in Int \X Word /\ Full(hi4) = (Full(carry2) + Full(hi3)) % XMOD
    BY <2>1, <2>2, MaskedSum, Zenon
  <2>4. XMOD \in Int /\ XMOD > 0
    BY <1>14, Zenon
  <2>5. c2 \in Int /\ k3 \in Int
    BY <1>26, <1>28, Zenon
  <2>6. (c2 + (k3 % XMOD)) % XMOD = (k3 + c2) % XMOD
    BY <2>4, <2>5, AddTo, Zenon
  <2>7. QED  BY <2>1, <2>2, <2>3, <2>6, Zenon
<1>32. (x * y) \div XMOD = k4
  BY <1>13, Zenon DEF k1, k2, k3
<1> HIDE DEF hi4, k4
<1>33. QED  BY <1>3, <1>31, <1>32, Zenon DEF x, y

(* An operand read as negative takes the other one off the upper product.    *)
LEMMA SignedTimes ==
  ASSUME NEW x \in Int, NEW y \in Int
  PROVE  (SignedOf(x) * y) \div XMOD
           = ((x * y) \div XMOD) - (IF x >= XMOD \div 2 THEN y ELSE 0)
<1>1. XMOD \in Int /\ XMOD > 0
  BY Sizes
<1> DEFINE n == x * y
           q == n \div XMOD
           m == -y
<1>2. n \in Int /\ m \in Int
  BY SMT
<1>3. CASE x >= XMOD \div 2
  <2>1. SignedOf(x) = x - XMOD
    BY <1>3, Zenon DEF SignedOf
  <2>2. (x - XMOD) * y = n + XMOD * m
    BY <1>1, SMT
  <2> HIDE DEF n, m
  <2>3. (n + XMOD * m) \div XMOD = q + m
    BY <1>1, <1>2, ModShift, Zenon
  <2>4. q \in Int
    BY <1>1, <1>2, RemainderRange, Zenon
  <2> HIDE DEF q
  <2>5. q + m = q - y
    BY <1>2, <2>4 DEF m
  <2>6. QED  BY <1>3, <2>1, <2>2, <2>3, <2>5, Zenon DEF n, q
<1>4. CASE ~(x >= XMOD \div 2)
  <2>1. SignedOf(x) = x
    BY <1>4, Zenon DEF SignedOf
  <2> HIDE DEF n
  <2>2. q \in Int
    BY <1>1, <1>2, RemainderRange, Zenon
  <2> HIDE DEF q
  <2>3. q - 0 = q
    BY <2>2
  <2>4. QED  BY <1>4, <2>1, <2>3, Zenon DEF n, q
<1>5. QED  BY <1>3, <1>4, Zenon

LEMMA TakenOff ==
  ASSUME NEW a \in Int \X Int, NEW b \in Int \X Int, NEW h \in Int, NEW w \in Int,
         Full(a) % XMOD = h % XMOD, Full(b) % XMOD = w % XMOD
  PROVE  /\ SUBA(a, b) \in Int \X Int /\ SUBA(a, b) \in Int \X Word
         /\ Full(SUBA(a, b)) % XMOD = (h - w) % XMOD
<1> DEFINE s == SUBA(a, b)
           x == Full(a)
           y == Full(b)
<1>1. XMOD \in Int /\ XMOD > 0
  BY Sizes
<1>2. Full(s) = (x - y) % AMOD /\ s \in Word \X Word
  BY FullOfSuba, SubaType
<1>3. x \in Int /\ y \in Int
  BY FullInt, Zenon
<1>4. x % XMOD = h % XMOD /\ y % XMOD = w % XMOD
  OBVIOUS
<1> HIDE DEF s, x, y
<1>5. x - y \in Int
  BY <1>3
<1>6. ((x - y) % AMOD) % XMOD = (x - y) % XMOD
  BY <1>5, ModAccumulator, Zenon
<1>7. (x - y) % XMOD = ((x % XMOD) - (y % XMOD)) % XMOD
  BY <1>1, <1>3, ModDifference, SMT
<1>8. (h - w) % XMOD = ((h % XMOD) - (w % XMOD)) % XMOD
  BY <1>1, ModDifference, Zenon
<1>9. s \in Int \X Int /\ s \in Int \X Word
  BY <1>2, PairInt
<1>10. QED  BY <1>2, <1>4, <1>6, <1>7, <1>8, <1>9, Zenon DEF s

(* Everything the handlers of the upper products have in common.             *)
LEMMA UpperOperands ==
  ASSUME TypeOK, I.op \in {"mulh", "mulhsu", "mulhu"}
  PROVE  LET x == Full(Src1)
             y == Full(Src2)
             h == (x * y) \div XMOD
             hi == UpperProduct(Src1, Src2)
         IN  /\ Insn.dest = I.rd
             /\ Oracle!V1 = SignedOf(x) /\ Oracle!V1 \in Int /\ Oracle!V1 % XMOD = x
             /\ Oracle!V2 = SignedOf(y) /\ Oracle!V2 \in Int /\ Oracle!V2 % XMOD = y
             /\ x \in Int /\ y \in Int /\ h \in Int /\ x % XMOD = x /\ y % XMOD = y
             /\ (SignBit(Src1) <=> x >= XMOD \div 2) /\ (SignBit(Src2) <=> y >= XMOD \div 2)
             /\ Src1 \in Int \X Int /\ Src2 \in Int \X Int
             /\ hi \in Int \X Int /\ hi \in Int \X Word /\ Full(hi) % XMOD = h % XMOD
<1> DEFINE x == Full(Src1)
           y == Full(Src2)
           n == x * y
           h == n \div XMOD
           hi == UpperProduct(Src1, Src2)
<1>1. I.op \in ROps /\ I.op \notin UpperOps \cup BranchOps \cup StoreOps
  BY DEF ROps, UpperOps, BranchOps, StoreOps
<1>2. /\ Insn.dest = I.rd /\ Src1 \in RegVal
      /\ Oracle!V1 = SignedOf(x) /\ Oracle!V1 \in Int /\ Oracle!V1 % XMOD = x
  BY <1>1, FirstOperand
<1>3. Src2 \in RegVal /\ Oracle!V2 = SignedOf(y) /\ Oracle!V2 \in Int /\ Oracle!V2 % XMOD = y
  BY <1>1, SecondOperand
<1>4. x \in Int /\ 0 <= x /\ x < XMOD /\ y \in Int /\ 0 <= y /\ y < XMOD
  BY <1>2, <1>3, RegFull, Zenon
<1>5. (SignBit(Src1) <=> x >= XMOD \div 2) /\ (SignBit(Src2) <=> y >= XMOD \div 2)
  BY <1>2, <1>3, SignBitValue, Zenon
<1>7. hi \in Int \X Int /\ hi \in Int \X Word /\ Full(hi) = h % XMOD
  BY <1>2, <1>3, UpperProductValue, Zenon
<1>8. Src1 \in Int \X Int /\ Src2 \in Int \X Int
  BY <1>2, <1>3, RegValPair, Zenon
<1> HIDE DEF x, y, hi
<1>9. XMOD \in Int /\ XMOD > 0
  BY Sizes
<1>10. n \in Int
  BY <1>4, SMT
<1> HIDE DEF n
<1>11. h \in Int
  BY <1>9, <1>10, RemainderRange, Zenon
<1>12. x % XMOD = x /\ y % XMOD = y
  BY <1>4, <1>9, ModSmall, Zenon
<1> HIDE DEF h
<1> DEFINE g == h % XMOD
<1>13. g \in Int /\ 0 <= g /\ g < XMOD
  BY <1>9, <1>11, RemainderRange, Zenon
<1> HIDE DEF g
<1>14. g % XMOD = g
  BY <1>9, <1>13, ModSmall, Zenon
<1>15. Full(hi) % XMOD = h % XMOD
  BY <1>7, <1>14, Zenon DEF g
<1>17. QED  BY <1>2, <1>3, <1>4, <1>7, <1>8, <1>11, <1>12, <1>15, <1>5, Zenon DEF x, y, n, h, hi

LEMMA MulhuMatch ==
  ASSUME TypeOK, Len(program) < HALF, OP_MULHU
  PROVE  Oracle!Next
<1> DEFINE u == Oracle!V1
           v == Oracle!V2
           x == Full(Src1)
           y == Full(Src2)
           h == (x * y) \div XMOD
           hi == UpperProduct(Src1, Src2)
<1>1. status = "run" /\ I.op = "mulhu" /\ STORE_RESULT(hi)
  BY DEF OP_MULHU, Dispatch, Insn, I, Encode
<1>2. /\ Insn.dest = I.rd /\ u % XMOD = x /\ v % XMOD = y /\ h \in Int
      /\ hi \in Int \X Word /\ Full(hi) % XMOD = h % XMOD
  BY <1>1, UpperOperands, Zenon
<1>3. Oracle!Compute(I.op, u, v) = h
  <2>1. Oracle!Compute(I.op, u, v) = (Oracle!Mask(u) * Oracle!Mask(v)) \div Oracle!MODULUS
    BY <1>1 DEF Oracle!Compute
  <2>2. Oracle!Mask(u) = x /\ Oracle!Mask(v) = y /\ Oracle!MODULUS = XMOD
    BY <1>2, OracleMask, OracleSizes, Zenon
  <2>3. QED  BY <2>1, <2>2, Zenon
<1> HIDE DEF u, v, x, y, h, hi
<1>4. Result(h)
  BY <1>1, <1>2, ResultOfStore
<1>5. I.op \in ROps
  BY <1>1 DEF ROps
<1>6. QED  BY <1>1, <1>3, <1>4, <1>5, RTypeMatch, Zenon DEF u, v

LEMMA MulhsuMatch ==
  ASSUME TypeOK, Len(program) < HALF, OP_MULHSU
  PROVE  Oracle!Next
<1> DEFINE u == Oracle!V1
           v == Oracle!V2
           x == Full(Src1)
           y == Full(Src2)
           h == (x * y) \div XMOD
           hi == UpperProduct(Src1, Src2)
           a == IF SignBit(Src1) THEN SUBA(hi, Src2) ELSE hi
           g == (u * y) \div XMOD
<1>1. status = "run" /\ I.op = "mulhsu" /\ STORE_RESULT(a)
  BY DEF OP_MULHSU, Dispatch, Insn, I, Encode
<1>2. /\ Insn.dest = I.rd /\ u = SignedOf(x) /\ u \in Int /\ v % XMOD = y /\ h \in Int
      /\ x \in Int /\ y \in Int /\ y % XMOD = y
      /\ (SignBit(Src1) <=> x >= XMOD \div 2) /\ Src2 \in Int \X Int
      /\ hi \in Int \X Int /\ hi \in Int \X Word /\ Full(hi) % XMOD = h % XMOD
  BY <1>1, UpperOperands, Zenon
<1>3. Oracle!Compute(I.op, u, v) = g
  <2>1. Oracle!Compute(I.op, u, v) = (u * Oracle!Mask(v)) \div Oracle!MODULUS
    BY <1>1 DEF Oracle!Compute
  <2>2. Oracle!Mask(v) = y /\ Oracle!MODULUS = XMOD
    BY <1>2, OracleMask, OracleSizes, Zenon
  <2>3. QED  BY <2>1, <2>2, Zenon
<1>4. Full(Src2) % XMOD = y % XMOD
  OBVIOUS
<1> HIDE DEF u, v, x, y, hi
<1>5. g = h - (IF x >= XMOD \div 2 THEN y ELSE 0)
  BY <1>2, SignedTimes, Zenon
<1> HIDE DEF h, g
<1>6. a \in Int \X Word /\ Full(a) % XMOD = g % XMOD /\ g \in Int
  <2>1. CASE x >= XMOD \div 2
    <3>1. a = SUBA(hi, Src2) /\ g = h - y
      BY <1>2, <1>5, <2>1, Zenon
    <3>2a. /\ hi \in Int \X Int /\ Src2 \in Int \X Int /\ h \in Int /\ y \in Int
           /\ Full(hi) % XMOD = h % XMOD /\ Full(Src2) % XMOD = y % XMOD
      BY <1>2, <1>4, Zenon
    <3>2. SUBA(hi, Src2) \in Int \X Word /\ Full(SUBA(hi, Src2)) % XMOD = (h - y) % XMOD
      BY <3>2a, TakenOff, SMT
    <3>3. h - y \in Int
      BY <1>2
    <3>4. QED  BY <3>1, <3>2, <3>3, Zenon
  <2>2. CASE ~(x >= XMOD \div 2)
    <3>1. a = hi /\ g = h - 0
      BY <1>2, <1>5, <2>2, Zenon
    <3>2. h - 0 = h
      BY <1>2
    <3>3. QED  BY <1>2, <3>1, <3>2, Zenon
  <2>3. QED  BY <2>1, <2>2, Zenon
<1> HIDE DEF a
<1>7. Result(g)
  BY <1>1, <1>2, <1>6, ResultOfStore
<1>8. I.op \in ROps
  BY <1>1 DEF ROps
<1>9. QED  BY <1>1, <1>3, <1>7, <1>8, RTypeMatch, Zenon DEF u, v

LEMMA MulhMatch ==
  ASSUME TypeOK, Len(program) < HALF, OP_MULH
  PROVE  Oracle!Next
<1> DEFINE u == Oracle!V1
           v == Oracle!V2
           x == Full(Src1)
           y == Full(Src2)
           h == (x * y) \div XMOD
           k == (x * v) \div XMOD
           hi == UpperProduct(Src1, Src2)
           a == IF SignBit(Src1)
                  THEN IF SignBit(Src2) THEN SUBA(SUBA(hi, Src1), Src2) ELSE SUBA(hi, Src2)
                  ELSE IF SignBit(Src2) THEN SUBA(hi, Src1) ELSE hi
           g == (u * v) \div XMOD
           negX == x >= XMOD \div 2
           negY == y >= XMOD \div 2
<1>1. status = "run" /\ I.op = "mulh" /\ STORE_RESULT(a)
  BY DEF OP_MULH, Dispatch, Insn, I, Encode
<1>2. /\ Insn.dest = I.rd /\ u = SignedOf(x) /\ u \in Int /\ v = SignedOf(y) /\ v \in Int
      /\ v % XMOD = y /\ h \in Int
      /\ x \in Int /\ y \in Int /\ y % XMOD = y /\ x % XMOD = x
      /\ (SignBit(Src1) <=> negX) /\ (SignBit(Src2) <=> negY)
      /\ Src1 \in Int \X Int /\ Src2 \in Int \X Int
      /\ hi \in Int \X Int /\ hi \in Int \X Word /\ Full(hi) % XMOD = h % XMOD
  BY <1>1, UpperOperands, Zenon
<1>3. Oracle!Compute(I.op, u, v) = g
  <2>1. Oracle!Compute(I.op, u, v) = (u * v) \div Oracle!MODULUS
    BY <1>1 DEF Oracle!Compute
  <2>2. QED  BY <2>1, OracleSizes, Zenon
<1>4. Full(Src1) % XMOD = x % XMOD /\ Full(Src2) % XMOD = y % XMOD /\ Full(Src2) % XMOD = v % XMOD
  BY <1>2, Zenon
<1> HIDE DEF u, v, x, y, hi
<1>5. g = k - (IF negX THEN v ELSE 0)
  BY <1>2, SignedTimes, Zenon
<1>6. k = h - (IF negY THEN x ELSE 0)
  <2>1. (v * x) \div XMOD = ((y * x) \div XMOD) - (IF negY THEN x ELSE 0)
    BY <1>2, SignedTimes, Zenon
  <2>2. v * x = x * v /\ y * x = x * y
    BY <1>2, SMT
  <2>3. QED  BY <2>1, <2>2, Zenon
<1> HIDE DEF h, g, k, negX, negY
<1>7. a \in Int \X Word /\ Full(a) % XMOD = g % XMOD /\ g \in Int
  <2>1. CASE negX /\ negY
    <3>1. a = SUBA(SUBA(hi, Src1), Src2) /\ g = k - v /\ k = h - x
      BY <1>2, <1>5, <1>6, <2>1, Zenon
    <3>2a. /\ hi \in Int \X Int /\ Src1 \in Int \X Int /\ h \in Int /\ x \in Int
           /\ Full(hi) % XMOD = h % XMOD /\ Full(Src1) % XMOD = x % XMOD
      BY <1>2, <1>4, Zenon
    <3>2. SUBA(hi, Src1) \in Int \X Int /\ Full(SUBA(hi, Src1)) % XMOD = (h - x) % XMOD
      BY <3>2a, TakenOff, SMT
    <3> DEFINE b == SUBA(hi, Src1)
    <3> HIDE DEF b
    <3>3a. h \in Int /\ x \in Int /\ v \in Int /\ k = h - x
      BY <1>2, <3>1, Zenon
    <3>3. k \in Int /\ k - v \in Int
      BY <3>3a
    <3>4. b \in Int \X Int /\ Full(b) % XMOD = k % XMOD
      BY <3>1, <3>2, Zenon DEF b
    <3>4a. /\ b \in Int \X Int /\ Src2 \in Int \X Int /\ k \in Int /\ v \in Int
           /\ Full(b) % XMOD = k % XMOD /\ Full(Src2) % XMOD = v % XMOD
      BY <1>2, <1>4, <3>3, <3>4, Zenon
    <3>5. SUBA(b, Src2) \in Int \X Word /\ Full(SUBA(b, Src2)) % XMOD = (k - v) % XMOD
      BY <3>4a, TakenOff, SMT
    <3>6. QED  BY <3>1, <3>3, <3>5, Zenon DEF b
  <2>2. CASE negX /\ ~negY
    <3>1. a = SUBA(hi, Src2) /\ g = k - v /\ k = h - 0
      BY <1>2, <1>5, <1>6, <2>2, Zenon
    <3>2. h - 0 = h /\ h - v \in Int
      BY <1>2
    <3>2a. /\ hi \in Int \X Int /\ Src2 \in Int \X Int /\ h \in Int /\ v \in Int
           /\ Full(hi) % XMOD = h % XMOD /\ Full(Src2) % XMOD = v % XMOD
      BY <1>2, <1>4, Zenon
    <3>3. SUBA(hi, Src2) \in Int \X Word /\ Full(SUBA(hi, Src2)) % XMOD = (h - v) % XMOD
      BY <3>2a, TakenOff, SMT
    <3>4. QED  BY <3>1, <3>2, <3>3, Zenon
  <2>3. CASE ~negX /\ negY
    <3>1. a = SUBA(hi, Src1) /\ g = k - 0 /\ k = h - x
      BY <1>2, <1>5, <1>6, <2>3, Zenon
    <3>2. k - 0 = k /\ h - x \in Int
      BY <1>2, <3>1
    <3>2a. /\ hi \in Int \X Int /\ Src1 \in Int \X Int /\ h \in Int /\ x \in Int
           /\ Full(hi) % XMOD = h % XMOD /\ Full(Src1) % XMOD = x % XMOD
      BY <1>2, <1>4, Zenon
    <3>3. SUBA(hi, Src1) \in Int \X Word /\ Full(SUBA(hi, Src1)) % XMOD = (h - x) % XMOD
      BY <3>2a, TakenOff, SMT
    <3>4. QED  BY <3>1, <3>2, <3>3, Zenon
  <2>4. CASE ~negX /\ ~negY
    <3>1. a = hi /\ g = k - 0 /\ k = h - 0
      BY <1>2, <1>5, <1>6, <2>4, Zenon
    <3>2. k - 0 = k /\ h - 0 = h
      BY <1>2, <3>1
    <3>3. QED  BY <1>2, <3>1, <3>2, Zenon
  <2>5. QED  BY <2>1, <2>2, <2>3, <2>4, Zenon
<1> HIDE DEF a
<1>8. Result(g)
  BY <1>1, <1>2, <1>7, ResultOfStore
<1>9. I.op \in ROps
  BY <1>1 DEF ROps
<1>10. QED  BY <1>1, <1>3, <1>8, <1>9, RTypeMatch, Zenon DEF u, v

LEMMA MultiplyMatch ==
  ASSUME TypeOK, Len(program) < HALF, Multiply
  PROVE  Oracle!Next
  BY MulMatch, MulhMatch, MulhsuMatch, MulhuMatch, Zenon DEF Multiply

-----------------------------------------------------------------------------
(* The programs never change, and the boots are comparable. *)

ProgramComparable ==
  /\ Len(program) < HALF
  /\ \A k \in DOMAIN program :
       /\ program[k].op \in BranchOps \cup {"jal"} => program[k].imm % 2 = 0
       /\ program[k].op = "auipc" => program[k].imm < WORD

LEMMA ProgramFixed ==
  ASSUME [Next]_vars
  PROVE  program' = program
<1>1. CASE UNCHANGED vars
  BY <1>1 DEF vars
<1>2. CASE Next
  <2>1. CASE Arithmetic
    BY <2>1, Zenon DEF Arithmetic, OP_ADD, OP_SUB, OP_ADDI, STORE_RESULT
  <2>2. CASE Bitwise36
    BY <2>2, Zenon DEF Bitwise36, OP_AND, OP_OR, OP_XOR, OP_ANDI, OP_ORI, OP_XORI,
       STORE_RESULT_PREMASKED
  <2>3. CASE Shifts
    BY <2>3, Zenon DEF Shifts, OP_SLL, OP_SLLI, OP_SRL, OP_SRLI, OP_SRA, OP_SRAI, STORE_RESULT,
       STORE_RESULT_PREMASKED
  <2>4. CASE MemoryOps
    BY <2>4, Zenon DEF MemoryOps, OP_LBU, OP_LB, OP_LHU, OP_LH, OP_LW, OP_SB, OP_SH, OP_SW,
       OutOfImage, STORE_RESULT_LOWER, STORE_RESULT_PREMASKED, STORE
  <2>5. CASE Compares
    BY <2>5, Zenon DEF Compares, OP_SLT, OP_SLTU, OP_SLTI, OP_SLTIU, STORE_BOOL,
       STORE_RESULT_LOWER
  <2>6. CASE Branches
    BY <2>6, Zenon DEF Branches, OP_BEQ, OP_BNE, OP_BLT, OP_BGE, OP_BLTU, OP_BGEU, BranchIf
  <2>7. CASE Jumps
    BY <2>7, Zenon DEF Jumps, OP_JAL, OP_JALR, OP_LUI, OP_AUIPC, STORE_RESULT,
       STORE_RESULT_PREMASKED
  <2>8. CASE Multiply
    BY <2>8, Zenon DEF Multiply, OP_MUL, OP_MULH, OP_MULHSU, OP_MULHU, STORE_RESULT
  <2>9. CASE Syscalls
    BY <2>9, Zenon DEF Syscalls, ECALL_GETCHAR, ECALL_PUTCHAR, ECALL_EXIT, ECALL_MEMCLEAR,
       ECALL_TIME, BadSyscall
  <2>10. QED  BY <1>2, <2>1, <2>2, <2>3, <2>4, <2>5, <2>6, <2>7, <2>8, <2>9, Zenon DEF Next
<1>3. QED  BY <1>1, <1>2

LEMMA BootComparable ==
  ASSUME Init, ComparablePrograms
  PROVE  ProgramComparable
  BY Zenon DEF Init, ComparablePrograms, ProgramComparable

LEMMA StepComparable ==
  ASSUME ProgramComparable, [Next]_vars
  PROVE  ProgramComparable'
<1>1. program' = program
  BY ProgramFixed
<1>2. QED  BY <1>1, Zenon DEF ProgramComparable

(* The boots are initial states of the reference emulator. *)
LEMMA InitMatch ==
  ASSUME Init
  PROVE  Oracle!Init
<1>1. PICK b \in BOOTS : program = b.program /\ reg = b.reg /\ mem = b.mem /\ input = b.input
  BY DEF Init
<1>2. /\ program \in Seq(Instruction) \ {<<>>} /\ reg \in RegFile /\ mem \in Memory
      /\ input \in [Channels -> Seq(Char)] /\ pc = 0 /\ status = "run" /\ output = <<>>
  BY <1>1, BootsAssumption DEF Init
<1>3. Oracle!Instruction = Instruction
  BY OracleSizes, OracleSets, Zenon DEF Oracle!Instruction, Instruction, Oracle!Ops, Ops,
     Oracle!UpperOps, UpperOps, Oracle!Imms, Imms, Oracle!Imm12, Imm12, Oracle!Upper, Upper,
     Oracle!Offset, Offset
<1>4. Values \in [Oracle!Regs -> 0 .. Oracle!MODULUS - 1] /\ Values[0] = 0
  <2>1. ASSUME NEW r \in Regs
        PROVE  Full(reg[r]) \in 0 .. XMOD - 1
    <3>1. Full(reg[r]) \in Int /\ 0 <= Full(reg[r]) /\ Full(reg[r]) < XMOD
      BY <1>2, RegFull DEF RegFile
    <3>2. XMOD \in Int
      BY Sizes
    <3> DEFINE x == Full(reg[r])
    <3> HIDE DEF x
    <3>3. x \in 0 .. XMOD - 1
      BY <3>1, <3>2 DEF x
    <3>4. QED  BY <3>3 DEF x
  <2>2. reg[0] = Zero /\ 0 \in Regs
    BY <1>2, RegsSmall DEF RegFile
  <2>3. Full(Zero) = 0
    BY Sizes DEF Full, Zero
  <2>4. QED  BY <2>1, <2>2, <2>3, OracleSizes DEF Values
<1>5. Bytes \in [Oracle!ByteAddresses -> 0 .. Oracle!BYTE - 1]
  <2>1. ASSUME NEW a \in Addresses
        PROVE  (mem[a \div 2] \div BYTE^(a % 2)) % BYTE \in 0 .. BYTE - 1
    <3>0. a \in Int
      BY AddressesAreIntegers, Zenon
    <3>1. a \div 2 \in DATA /\ a % 2 \in {0, 1}
      <4>1. a \div 2 \in DATA
        BY <3>0, AddressHalves, Zenon
      <4>2. a % 2 \in {0, 1}
        BY <3>0
      <4>3. QED  BY <4>1, <4>2
    <3>2. mem[a \div 2] \in Int
      BY <1>2, <3>1 DEF Memory
    <3>3. BYTE^(a % 2) \in Int /\ BYTE^(a % 2) > 0 /\ BYTE \in Int /\ BYTE > 0
      BY <3>1, BytePowers, Sizes
    <3> DEFINE m == mem[a \div 2]
               p == BYTE^(a % 2)
               n == m \div p
    <3> HIDE DEF m, p
    <3>4. n \in Int
      BY <3>2, <3>3, RemainderRange, Zenon DEF m, p
    <3> HIDE DEF n
    <3> DEFINE g == n % BYTE
    <3>5. g \in Int /\ 0 <= g /\ g < BYTE
      BY <3>3, <3>4, RemainderRange, Zenon
    <3> HIDE DEF g
    <3>6. g \in 0 .. BYTE - 1
      BY <3>3, <3>5
    <3>7. QED  BY <3>6, Zenon DEF g, n, m, p
  <2>2. Oracle!ByteAddresses = Addresses
    BY DEF Oracle!ByteAddresses, Addresses
  <2>3. QED  BY <2>1, <2>2, OracleSizes, Zenon DEF Bytes, Addresses
<1>6. input[0] \in Seq(0 .. Oracle!BYTE - 1)
  <2>1. 0 \in Channels
    BY BootsAssumption DEF Channels
  <2>2. QED  BY <1>2, <2>1, OracleSizes DEF Char
<1>7. 2 * pc = 0 /\ Printed = <<>>
  BY <1>2 DEF Printed
<1>8. QED  BY <1>2, <1>3, <1>4, <1>5, <1>6, <1>7, Zenon DEF Oracle!Init, Values, Bytes, Printed

(* Every step of the UNIVAC program is a step of the reference emulator. *)
LEMMA StepMatch ==
  ASSUME TypeOK, ProgramComparable, CallComparable, Next
  PROVE  Oracle!Next
<1>1. Len(program) < HALF
  BY Zenon DEF ProgramComparable
<1>2. /\ I.op \in BranchOps \cup {"jal"} => I.imm % 2 = 0
      /\ I.op = "auipc" => I.imm < WORD
  <2>1. pc \in Int /\ 0 <= pc /\ pc \div 2 < Len(program) /\ program \in Seq(Instruction)
    BY WordBound DEF TypeOK, InProgram
  <2>2. pc \div 2 + 1 \in DOMAIN program
    BY <2>1
  <2>3. QED  BY <2>2, Zenon DEF ProgramComparable, I
<1>3. CASE Arithmetic
  BY <1>1, <1>3, AddMatch, SubMatch, AddiMatch, Zenon DEF Arithmetic
<1>4. CASE Bitwise36
  BY <1>1, <1>4, LogicalMatch, LogicalImmediateMatch, Zenon DEF Bitwise36
<1>5. CASE Shifts
  BY <1>1, <1>5, ShiftMatch, ShiftImmediateMatch, Zenon DEF Shifts
<1>6. CASE MemoryOps
  BY <1>1, <1>6, MemoryMatch, Zenon
<1>7. CASE Compares
  BY <1>1, <1>7, CompareMatch, CompareImmediateMatch, Zenon DEF Compares
<1>8. CASE Branches
  BY <1>1, <1>2, <1>8, BranchesMatch, Zenon
<1>9. CASE Jumps
  BY <1>1, <1>2, <1>9, JumpsMatch, Zenon
<1>10. CASE Multiply
  BY <1>1, <1>10, MultiplyMatch, Zenon
<1>11. CASE Syscalls
  BY <1>1, <1>11, SyscallsMatch, Zenon
<1>12. QED
  BY <1>3, <1>4, <1>5, <1>6, <1>7, <1>8, <1>9, <1>10, <1>11, Zenon DEF Next

LEMMA StutterMatch ==
  ASSUME UNCHANGED vars
  PROVE  UNCHANGED Oracle!vars
  BY Zenon DEF vars, Oracle!vars

(* ImplementsOracle for programs and system calls on which the two emulators  *)
(* can agree: whatever the fetch loop and the handlers of riscv-emu do to the *)
(* registers, the memory, pc, the input and the output, the reference         *)
(* emulator tools/lib/emu.ml may do, step by step, for every width of the     *)
(* machine, program, operand and memory image.                               *)
THEOREM EmulatorImplementsOracle ==
  ASSUME ComparablePrograms
  PROVE  Spec /\ []CallComparable => ImplementsOracle
<1>1. Init => Oracle!Init
  BY InitMatch
<1>2. Init => ProgramComparable
  BY BootComparable
<1>3. ProgramComparable /\ [Next]_vars => ProgramComparable'
  BY StepComparable
<1>4. TypeOK /\ ProgramComparable /\ CallComparable /\ [Next]_vars => [Oracle!Next]_(Oracle!vars)
  BY StepMatch, StutterMatch
<1>5. Spec => []TypeOK
  BY RegisterInvariant
<1>6. QED  BY <1>1, <1>2, <1>3, <1>4, <1>5, PTL DEF Spec, ImplementsOracle, Oracle!Spec
=============================================================================
