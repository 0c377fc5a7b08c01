------------------------------ MODULE RiscvEmu ------------------------------
(***************************************************************************)
(* The RISC-V emulator in UNIVAC 1219 assembly (asm/riscv-emu).  A step is   *)
(* one pass of the fetch loop: fetch and decode at PC_OFFSET, the handler    *)
(* the opcode table jumps to, and the common routine the handler ends in    *)
(* (STORE_RESULT..., NEXT_INSTRUCTION or BRANCH_TAKE).  A register is the    *)
(* pair <<REG_i_HI, REG_i_LO>>; words of the tape are Encode of the program. *)
(* The handlers keep the assembly's own data path, 36-bit accumulator        *)
(* arithmetic on 14+18-bit register halves; registers are named by number.   *)
(***************************************************************************)
EXTENDS Rv32, Sequences

CONSTANTS DATA,      \* offsets of the data words of RISCV_PROGRAM
          BOOTS,     \* the states a run starts from: program, reg, mem, input
          NCHAN,     \* number of input/output channels (64)
          CLOCK,     \* the words the real-time clock cell 13 may hold
          STOPKEY    \* whether console stop key 5 is set

Memory == [DATA -> 0 .. HALF - 1]
Channels == 0 .. NCHAN - 1
Char == 0 .. BYTE - 1
RegFile == {f \in [Regs -> RegVal] : f[0] = Zero}

ASSUME BootsAssumption ==
  /\ DATA \subseteq 0 .. HALF - 1
  /\ NCHAN \in {1, 2, 4, 8, 16, 32, 64}
  /\ CLOCK \subseteq Word
  /\ STOPKEY \in BOOLEAN
  /\ \A b \in BOOTS : /\ b.program \in Seq(Instruction) \ {<<>>}
                      /\ b.reg \in RegFile
                      /\ b.mem \in Memory
                      /\ b.input \in [Channels -> Seq(Char)]

VARIABLES program, reg, pc, mem, status, input, output

vars == <<program, reg, pc, mem, status, input, output>>

(* FETCH_LOOP: the encoded instruction at PC_OFFSET. *)
Insn == Encode(program[pc \div 2 + 1])
Dispatch(op) == status = "run" /\ Insn.op = op

Src1 == reg[Insn.src1]
Src2 == reg[Insn.word2 \div 2]        \* word2 holds twice the register number
Dest == reg[Insn.dest]                \* source operand of stores and branches
Imm  == <<SignWord(Insn.word2), Insn.word2>>

(* Fetch the word pair at offset w.  Outside the program the machine would   *)
(* execute whatever is there: its behaviour is no longer described.          *)
InProgram(w) == w % 2 = 0 /\ w \div 2 < Len(program)
FetchAt(w) == IF InProgram(w) THEN pc' = w /\ status' = "run"
                              ELSE pc' = pc /\ status' = "undefined"

NEXT_INSTRUCTION == FetchAt(ADDAL(pc, 2))
BRANCH_TAKE      == FetchAt(ADDAL(Insn.word2, pc))

(* Mutant: the upper word is stored without the 14-bit mask. *)
STORE_RESULT_NoMask(a) ==
  /\ reg' = IF Insn.dest = 0 THEN reg ELSE [reg EXCEPT ![Insn.dest] = a]
  /\ NEXT_INSTRUCTION
  /\ UNCHANGED <<program, mem, input, output>>

STORE_RESULT(a) ==
  /\ reg' = IF Insn.dest = 0 THEN reg
            ELSE [reg EXCEPT ![Insn.dest] = <<a[1] % HIMOD, a[2]>>]
  /\ NEXT_INSTRUCTION
  /\ UNCHANGED <<program, mem, input, output>>

(* Writes x0 like any other register, then clears it. *)
STORE_RESULT_PREMASKED(a) ==
  /\ reg' = [reg EXCEPT ![Insn.dest] = a, ![0] = Zero]
  /\ NEXT_INSTRUCTION
  /\ UNCHANGED <<program, mem, input, output>>

STORE_RESULT_LOWER(al) ==
  /\ reg' = [reg EXCEPT ![Insn.dest] = <<0, al>>, ![0][2] = 0]
  /\ NEXT_INSTRUCTION
  /\ UNCHANGED <<program, mem, input, output>>

STORE_BOOL(b) == STORE_RESULT_LOWER(IF b THEN 1 ELSE 0)    \* STORE_TRUE, STORE_FALSE

(* Mutant: the 1 that ADDA adds is not taken off again. *)
Plus_Uncompensated(a, b) == ADDA(a, b)

Plus(a, b) == SUBA(ADDA(a, b), One)

-----------------------------------------------------------------------------
(* 03-arithmetic *)

OP_ADD  == Dispatch("add")  /\ STORE_RESULT(Plus(Src1, Src2))
OP_SUB  == Dispatch("sub")  /\ STORE_RESULT(SUBA(Src1, Src2))
OP_ADDI == Dispatch("addi") /\ STORE_RESULT(ADDA(Imm, Src1))

(* 04-bitwise: the upper word of a negative immediate is the 14-bit mask. *)

Bitwise(Op(_, _), a, b) == <<Op(a[1], b[1]), Op(a[2], b[2])>>
Imm14 == <<IF Neg(Insn.word2) THEN HIMOD - 1 ELSE 0, Insn.word2>>

OP_AND == Dispatch("and") /\ STORE_RESULT_PREMASKED(Bitwise(SLCL, Src2, Src1))
OP_OR  == Dispatch("or")  /\ STORE_RESULT_PREMASKED(Bitwise(SLSET, Src2, Src1))
OP_XOR == Dispatch("xor") /\ STORE_RESULT_PREMASKED(Bitwise(SLCP, Src2, Src1))

OP_ANDI == Dispatch("andi") /\ STORE_RESULT_PREMASKED(Bitwise(SLCL, Src1, Imm14))
OP_ORI  == Dispatch("ori")  /\ STORE_RESULT_PREMASKED(Bitwise(SLSET, Src1, Imm14))
OP_XORI == Dispatch("xori") /\ STORE_RESULT_PREMASKED(Bitwise(SLCP, Src1, Imm14))

(* 05-shifts: LSHA is circular, the masks drop what came around. *)

ShiftMask(n, a) ==
  LET above == IF n > WBITS THEN 2^(n - WBITS) ELSE 1
      low   == IF n < WBITS THEN a[2] - (a[2] % 2^n) ELSE 0
      high  == a[1] % HIMOD
  IN  <<high - (high % above), low>>
Shamt == Src2[2] % XLEN

OP_SLL  == Dispatch("sll")  /\ STORE_RESULT_PREMASKED(ShiftMask(Shamt, LSHA(Src1, Shamt)))
OP_SLLI == Dispatch("slli") /\ STORE_RESULT_PREMASKED(
                                 ShiftMask(Insn.word2, LSHA(Src1, Insn.word2)))
OP_SRL  == Dispatch("srl")  /\ STORE_RESULT_PREMASKED(RSHA(Src1, Shamt))
OP_SRLI == Dispatch("srli") /\ STORE_RESULT_PREMASKED(RSHA(Src1, Insn.word2))
OP_SRA  == Dispatch("sra")  /\ STORE_RESULT(RSHA(LSHA(Src1, 4), Shamt + 4))
OP_SRAI == Dispatch("srai") /\ STORE_RESULT(RSHA(LSHA(Src1, 4), Insn.word2))

-----------------------------------------------------------------------------
(* 06-memory *)

(* CALC_EFFECTIVE_ADDRESS leaves a 36-bit sum, of which AL is used. *)
EffectiveAddress == Plus(Imm, Src1)
AL == EffectiveAddress[2]

(* The access stays in the data image. *)
InImage(width) ==
  /\ EffectiveAddress[1] % HIMOD = 0
  /\ \A k \in 0 .. width - 1 : (AL + k) \div 2 \in DATA

LOAD_BYTE_UNSIGNED(al) ==
  LET word == mem[RSHAL(al, 1)]
  IN  IF al % 2 = 0 THEN word % BYTE ELSE RSHAL(word, BYTEBITS) % BYTE

LOAD_HALFWORD(al) ==
  IF al % 2 = 0
    THEN mem[RSHAL(al, 1)]
    ELSE SLSET(LSHAL(LOAD_BYTE_UNSIGNED(ADDAL(al, 1)), BYTEBITS), LOAD_BYTE_UNSIGNED(al))

STORE_BYTE(m, al, byte) ==
  LET w == RSHAL(al, 1)
  IN  [m EXCEPT ![w] = IF al % 2 = 0
                         THEN SLSET(((@ \div BYTE) % BYTE) * BYTE, byte)
                         ELSE SLSET(@ % BYTE, LSHAL(byte, BYTEBITS))]

STORE_HALFWORD(m, al, half) ==
  IF al % 2 = 0
    THEN [m EXCEPT ![RSHAL(al, 1)] = half]
    ELSE STORE_BYTE(STORE_BYTE(m, al, half % BYTE),
                    ADDAL(al, 1), RSHAL(half, BYTEBITS) % BYTE)

(* A byte or halfword with its sign bit set is extended by OR-ing ones above. *)
SignExtend(al, sign) ==
  IF BitSet(al, sign) THEN <<HIMOD - 1, SLSET(al, WORD - sign)>> ELSE <<0, al>>

OP_LBU == Dispatch("lbu") /\ InImage(1) /\ STORE_RESULT_LOWER(LOAD_BYTE_UNSIGNED(AL))
OP_LB  == Dispatch("lb")  /\ InImage(1) /\ STORE_RESULT_PREMASKED(
                               SignExtend(LOAD_BYTE_UNSIGNED(AL), BYTE \div 2))
OP_LHU == Dispatch("lhu") /\ InImage(2) /\ STORE_RESULT_LOWER(LOAD_HALFWORD(AL))
OP_LH  == Dispatch("lh")  /\ InImage(2) /\ STORE_RESULT_PREMASKED(
                               SignExtend(LOAD_HALFWORD(AL), HALF \div 2))

OP_LW ==
  /\ Dispatch("lw") /\ InImage(4)
  /\ LET lower == LOAD_HALFWORD(AL)
         upper == LSHA(<<0, LOAD_HALFWORD(ADDAL(AL, 2))>>, 2 * BYTEBITS)
     IN  STORE_RESULT_PREMASKED(<<upper[1], SLSET(upper[2], lower)>>)

STORE(m) ==
  /\ mem' = m
  /\ NEXT_INSTRUCTION
  /\ UNCHANGED <<program, reg, input, output>>

(* Mutant: the stored byte is not cut to its 8 bits. *)
OP_SB_Unmasked == Dispatch("sb") /\ InImage(1) /\ STORE(STORE_BYTE(mem, AL, Dest[2]))

OP_SB == Dispatch("sb") /\ InImage(1) /\ STORE(STORE_BYTE(mem, AL, Dest[2] % BYTE))
OP_SH == Dispatch("sh") /\ InImage(2) /\ STORE(STORE_HALFWORD(mem, AL, Dest[2] % HALF))
OP_SW ==
  /\ Dispatch("sw") /\ InImage(4)
  /\ LET upper == RSHA(Dest, 2 * BYTEBITS)[2] % HALF
     IN  STORE(STORE_HALFWORD(STORE_HALFWORD(mem, AL, Dest[2] % HALF), ADDAL(AL, 2), upper))

(* An access outside the image reads or overwrites the emulator itself. *)
OutOfImage ==
  /\ \/ \E op \in {"lb", "lbu", "sb"} : Dispatch(op) /\ ~InImage(1)
     \/ \E op \in {"lh", "lhu", "sh"} : Dispatch(op) /\ ~InImage(2)
     \/ \E op \in {"lw", "sw"} : Dispatch(op) /\ ~InImage(4)
  /\ status' = "undefined"
  /\ UNCHANGED <<program, reg, pc, mem, input, output>>

-----------------------------------------------------------------------------
(* 07-comparisons and 08-branches *)

SignBit(r) == BitSet(r[1], HIMOD \div 2)

(* Subtract only when the signs agree, so that bit 35 is the borrow. *)
signed_lt(a, b) ==
  IF SignBit(a) # SignBit(b) THEN SignBit(a) ELSE Neg(SUBA(a, b)[1])

(* Bit 34 is set first: it survives the subtraction unless a < b. *)
unsigned_lt(a, b) ==
  ~Neg(LSHA(SUBA(<<SLSET(a[1], HALF), a[2]>>, b), 1)[1])

OP_SLT   == Dispatch("slt")   /\ STORE_BOOL(signed_lt(Src1, Src2))
OP_SLTU  == Dispatch("sltu")  /\ STORE_BOOL(unsigned_lt(Src1, Src2))
OP_SLTI  == Dispatch("slti")  /\ STORE_BOOL(signed_lt(Src1, Imm14))
OP_SLTIU == Dispatch("sltiu") /\ STORE_BOOL(unsigned_lt(Src1, Imm14))

BranchIf(taken) ==
  /\ IF taken THEN BRANCH_TAKE ELSE NEXT_INSTRUCTION
  /\ UNCHANGED <<program, reg, mem, input, output>>

(* branch_eq compares word by word; a branch holds src1 in its dest field. *)
OP_BEQ  == Dispatch("beq")  /\ BranchIf(Dest[2] = Src1[2] /\ Dest[1] = Src1[1])
OP_BNE  == Dispatch("bne")  /\ BranchIf(Dest[2] # Src1[2] \/ Dest[1] # Src1[1])
OP_BLT  == Dispatch("blt")  /\ BranchIf(signed_lt(Dest, Src1))
OP_BGE  == Dispatch("bge")  /\ BranchIf(~signed_lt(Dest, Src1))
OP_BLTU == Dispatch("bltu") /\ BranchIf(unsigned_lt(Dest, Src1))
OP_BGEU == Dispatch("bgeu") /\ BranchIf(~unsigned_lt(Dest, Src1))

-----------------------------------------------------------------------------
(* 09-jumps *)

Link == <<0, LSHAL(ADDAL(pc, 2), 1)>>     \* the byte address of the next instruction

OP_JAL ==
  /\ Dispatch("jal")
  /\ reg' = IF Insn.dest = 0 THEN reg ELSE [reg EXCEPT ![Insn.dest] = Link]
  /\ BRANCH_TAKE
  /\ UNCHANGED <<program, mem, input, output>>

(* The target less 2 is left in PC_OFFSET for NEXT_INSTRUCTION to add 2 to. *)
OP_JALR ==
  /\ Dispatch("jalr")
  /\ reg' = [reg EXCEPT ![Insn.dest] = Link, ![0][2] = 0]
  /\ IF EffectiveAddress[1] % HIMOD = 0
       THEN FetchAt(ADDAL(ADDAL(RSHA(EffectiveAddress, 1)[2], MinusOnes(2)), 2))
       ELSE pc' = pc /\ status' = "undefined"
  /\ UNCHANGED <<program, mem, input, output>>

ImmUpper == RSHA(<<0, Insn.word2>>, WBITS - IMMBITS)[2]
ImmLower == LSHAL(Insn.word2, IMMBITS) - (LSHAL(Insn.word2, IMMBITS) % 2^IMMBITS)

(* Mutant: the src1 field is taken for a register field and ignored. *)
OP_LUI_NoTop == Dispatch("lui") /\ STORE_RESULT_PREMASKED(<<ImmUpper, ImmLower>>)

(* The src1 field holds the immediate's upper two bits. *)
OP_LUI ==
  /\ Dispatch("lui")
  /\ STORE_RESULT_PREMASKED(
       <<SLSET(ImmUpper, LSHAL(2 * Insn.src1, IMMBITS - 1) % HIMOD), ImmLower>>)

(* The upper two bits are not added. *)
OP_AUIPC ==
  /\ Dispatch("auipc")
  /\ STORE_RESULT(Plus(<<0, ADDAL(pc, pc)>>, <<ImmUpper, ImmLower>>))

-----------------------------------------------------------------------------
(* 10-multiply: schoolbook multiplication of 16-bit halves *)

LowerHalf(r) == r[2] % HALF

OP_MUL ==
  /\ Dispatch("mul")
  /\ LET UpperHalf(r) == RSHA(r, 2 * BYTEBITS)[2] % HALF
         ll  == MULAL(LowerHalf(Src1), LowerHalf(Src2))
         lh  == MULAL(LowerHalf(Src1), UpperHalf(Src2))
         hl  == MULAL(UpperHalf(Src1), LowerHalf(Src2))
         mid == LSHA(Plus(hl, lh), 2 * BYTEBITS)
     IN  STORE_RESULT(Plus(ll, <<mid[1], mid[2] - (mid[2] % HALF)>>))

Mask14(a) == <<a[1] % HIMOD, a[2]>>

(* The upper XLEN bits of the unsigned product, the code that OP_MULH,        *)
(* OP_MULHSU and OP_MULHU share: the low halves are summed for their carries. *)
UpperProduct(r, s) ==
  LET UpperHalf(x) == ADDAL(LSHAL(x[1], 2), RSHA(<<0, x[2]>>, 2 * BYTEBITS)[2])
      Shifted(a)   == LSHA(<<0, a[2] % HALF>>, 2 * BYTEBITS)
      ll == MULAL(LowerHalf(r), LowerHalf(s))
      lh == MULAL(LowerHalf(r), UpperHalf(s))
      hl == MULAL(UpperHalf(r), LowerHalf(s))
      hh == MULAL(UpperHalf(r), UpperHalf(s))
      lo1 == Plus(ll, Shifted(lh))
      lo2 == Plus(Mask14(lo1), Shifted(hl))
      carry1 == <<0, RSHA(<<0, lo1[1]>>, WBITS - 4)[2]>>
      carry2 == <<0, RSHA(<<0, lo2[1]>>, WBITS - 4)[2]>>
      hi1 == Mask14(Plus(RSHA(lh, 2 * BYTEBITS), hh))
      hi2 == Mask14(Plus(RSHA(hl, 2 * BYTEBITS), hi1))
      hi3 == Mask14(Plus(carry1, hi2))
  IN  Mask14(Plus(carry2, hi3))

(* A negative operand was read as 2^XLEN too much: take the other one off. *)
OP_MULH ==
  /\ Dispatch("mulh")
  /\ LET hi == UpperProduct(Src1, Src2)
     IN  STORE_RESULT(
           IF SignBit(Src1)
             THEN IF SignBit(Src2) THEN SUBA(SUBA(hi, Src1), Src2) ELSE SUBA(hi, Src2)
             ELSE IF SignBit(Src2) THEN SUBA(hi, Src1) ELSE hi)

OP_MULHSU ==
  /\ Dispatch("mulhsu")
  /\ LET hi == UpperProduct(Src1, Src2)
     IN  STORE_RESULT(IF SignBit(Src1) THEN SUBA(hi, Src2) ELSE hi)

OP_MULHU == Dispatch("mulhu") /\ STORE_RESULT(UpperProduct(Src1, Src2))

-----------------------------------------------------------------------------
(* 11-syscall: JPB through SYSCALL_TABLE, indexed by the lower word of a7. *)

Syscall(n) == Dispatch("ecall") /\ reg[A7][2] = n

Channel(r) == reg[r][2] % NCHAN

(* The program waits while the channel has no input. *)
ECALL_GETCHAR ==
  /\ Syscall(0)
  /\ LET c == Channel(A0)
     IN  /\ input[c] # <<>>
         /\ reg' = [reg EXCEPT ![A0] = <<0, Head(input[c]) % BYTE>>]
         /\ input' = [input EXCEPT ![c] = Tail(@)]
  /\ NEXT_INSTRUCTION
  /\ UNCHANGED <<program, mem, output>>

(* Mutant: the channel is taken from the register of the character. *)
ECALL_PUTCHAR_Swapped ==
  /\ Syscall(1)
  /\ output' = Append(output, <<Channel(A0), reg[A0][2] % BYTE>>)
  /\ NEXT_INSTRUCTION
  /\ UNCHANGED <<program, reg, mem, input>>

ECALL_PUTCHAR ==
  /\ Syscall(1)
  /\ output' = Append(output, <<Channel(A1), reg[A0][2] % BYTE>>)
  /\ NEXT_INSTRUCTION
  /\ UNCHANGED <<program, reg, mem, input>>

ECALL_EXIT ==
  /\ Syscall(2) /\ STOPKEY
  /\ status' = "stopped"
  /\ UNCHANGED <<program, reg, pc, mem, input, output>>

(* The words CLB clears before BSK finds B equal to MC_END. *)
MC_START == RSHAL(reg[A0][2], 1)
MC_END   == RSHAL(reg[A1][2], 1)

(* Without the stop key STOP 5 falls through into this handler. *)
MemClearCalled == Syscall(3) \/ (Syscall(2) /\ ~STOPKEY)

(* Mutant: B is incremented before the first word is cleared. *)
ECALL_MEMCLEAR_Late ==
  /\ MemClearCalled
  /\ MC_START <= MC_END /\ MC_START .. MC_END \subseteq DATA
  /\ mem' = [w \in DATA |-> IF w \in MC_START + 1 .. MC_END THEN 0 ELSE mem[w]]
  /\ NEXT_INSTRUCTION
  /\ UNCHANGED <<program, reg, input, output>>

ECALL_MEMCLEAR ==
  /\ MemClearCalled
  /\ MC_START <= MC_END /\ MC_START .. MC_END \subseteq DATA
  /\ mem' = [w \in DATA |-> IF w \in MC_START .. MC_END THEN 0 ELSE mem[w]]
  /\ NEXT_INSTRUCTION
  /\ UNCHANGED <<program, reg, input, output>>

ECALL_TIME ==
  /\ Syscall(4)
  /\ \E t \in CLOCK : reg' = [reg EXCEPT ![A0] = <<0, t>>]
  /\ NEXT_INSTRUCTION
  /\ UNCHANGED <<program, mem, input, output>>

(* A jump beyond the table, or a MEMCLEAR that runs out of the image. *)
BadSyscall ==
  /\ \/ Dispatch("ecall") /\ reg[A7][2] \notin 0 .. 4
     \/ MemClearCalled /\ ~(MC_START <= MC_END /\ MC_START .. MC_END \subseteq DATA)
  /\ status' = "undefined"
  /\ UNCHANGED <<program, reg, pc, mem, input, output>>

-----------------------------------------------------------------------------

(* MAIN clears PC_OFFSET. *)
Init ==
  /\ \E b \in BOOTS : program = b.program /\ reg = b.reg /\ mem = b.mem /\ input = b.input
  /\ pc = 0
  /\ status = "run"
  /\ output = <<>>

Arithmetic == OP_ADD \/ OP_SUB \/ OP_ADDI
Bitwise36  == OP_AND \/ OP_OR \/ OP_XOR \/ OP_ANDI \/ OP_ORI \/ OP_XORI
Shifts     == OP_SLL \/ OP_SLLI \/ OP_SRL \/ OP_SRLI \/ OP_SRA \/ OP_SRAI
MemoryOps  == OP_LBU \/ OP_LB \/ OP_LHU \/ OP_LH \/ OP_LW \/ OP_SB \/ OP_SH \/ OP_SW
              \/ OutOfImage
Compares   == OP_SLT \/ OP_SLTU \/ OP_SLTI \/ OP_SLTIU
Branches   == OP_BEQ \/ OP_BNE \/ OP_BLT \/ OP_BGE \/ OP_BLTU \/ OP_BGEU
Jumps      == OP_JAL \/ OP_JALR \/ OP_LUI \/ OP_AUIPC
Multiply   == OP_MUL \/ OP_MULH \/ OP_MULHSU \/ OP_MULHU
Syscalls   == ECALL_GETCHAR \/ ECALL_PUTCHAR \/ ECALL_EXIT \/ ECALL_MEMCLEAR
              \/ ECALL_TIME \/ BadSyscall

(* OPCODE_TABLE *)
Next == Arithmetic \/ Bitwise36 \/ Shifts \/ MemoryOps \/ Compares \/ Branches
        \/ Jumps \/ Multiply \/ Syscalls

Spec == Init /\ [][Next]_vars

-----------------------------------------------------------------------------
(* The register invariant of 01-common.univac:43: the upper four bits of     *)
(* every REG_i_HI are 0 and x0 is 0.  LHU, LH and LW, which do not mask what  *)
(* they read, need the same of memory: no data word exceeds 16 bits.          *)
TypeOK ==
  /\ program \in Seq(Instruction)
  /\ reg \in RegFile
  /\ mem \in Memory
  /\ pc \in Word /\ InProgram(pc)
  /\ status \in {"run", "stopped", "undefined"}
  /\ input \in [Channels -> Seq(Char)]
  /\ output \in Seq(Channels \X Char)
=============================================================================
