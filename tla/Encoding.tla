------------------------------ MODULE Encoding ------------------------------
(***************************************************************************)
(* An instruction on its way to the UNIVAC, at the width of the machine      *)
(* (BYTEBITS = 8): encode packs it into two words                            *)
(* (tools/lib/univac_encoding.ml), the loader masks them to 18 bits,         *)
(* FETCH_LOOP (asm/riscv-emu/02-decode.univac) takes them apart with shifts  *)
(* and masks, and decode turns them back into an instruction for a reader.   *)
(***************************************************************************)
EXTENDS Rv32, Sequences

CONSTANT Insn        \* the instructions to encode

DivOps == {"div", "divu", "rem", "remu"}

(* The registers that an instruction of each type of instruction.ml has.      *)
Fields(i) ==
  /\ i.op \in StoreOps \cup BranchOps \cup {"ecall"} => i.rd = 0
  /\ i.op \in UpperOps \cup {"jal", "ecall"} => i.rs1 = 0
  /\ i.op \notin ROps \cup DivOps \cup StoreOps \cup BranchOps => i.rs2 = 0

ASSUME InsnAssumption ==
  /\ BYTEBITS = 8 /\ NREGS = 32
  /\ Insn \subseteq Instruction \cup Insns(DivOps, Regs, Regs, Regs, {0})
  /\ \A i \in Insn : Fields(i)

VARIABLES insn,       \* the instruction
          stage,      \* "source", "tape", "fetched", "decoded"
          word1, word2,
          opcode,     \* the index into OPCODE_TABLE
          destOffset, src1Offset,          \* INSN_DEST_OFFSET, INSN_SRC1_OFFSET
          decoded

vars == <<insn, stage, word1, word2, opcode, destOffset, src1Offset, decoded>>

(* The opcode numbers of encode and decode ... *)
Opcodes ==
  <<"add", "sub", "slt", "sltu", "and", "or", "xor", "sll", "srl", "sra",
    "addi", "slti", "sltiu", "andi", "ori", "xori", "slli", "srli", "srai",
    "lb", "lh", "lw", "lbu", "lhu", "sb", "sh", "sw",
    "beq", "bne", "blt", "bge", "bltu", "bgeu", "jal", "jalr", "lui", "auipc", "ecall",
    "mul", "mulh", "mulhsu", "mulhu", "div", "divu", "rem", "remu">>

(* ... and the handlers in the order of the jump table. *)
OPCODE_TABLE ==
  <<"add", "sub", "slt", "sltu", "and", "or", "xor", "sll", "srl", "sra",
    "addi", "slti", "sltiu", "andi", "ori", "xori", "slli", "srli", "srai",
    "lb", "lh", "lw", "lbu", "lhu", "sb", "sh", "sw",
    "beq", "bne", "blt", "bge", "bltu", "bgeu", "jal", "jalr", "lui", "auipc", "ecall",
    "mul", "mulh", "mulhsu", "mulhu">>

Number(op) == (CHOOSE k \in DOMAIN Opcodes : Opcodes[k] = op) - 1

make_word1(reg1, reg2, number) ==
  (reg1 % 32) * 2^13 + (reg2 % 32) * 2^8 + (number % 256)

RSHA_BASE == 166080           \* 0o504300, the instruction RSHA 0

(* Mutant: the shift count of SRAI without the 4 that skips the unused bits. *)
Value_SraiCount(i) ==
  CASE i.op \in ROps \cup DivOps         -> i.rs2 * 2
    [] i.op = "addi"                     -> i.imm - 1
    [] i.op \in {"srli", "srai"}         -> i.imm + RSHA_BASE
    [] i.op \in BranchOps \cup {"jal"}   -> PcDelta(i.imm)
    [] i.op \in UpperOps                 -> i.imm % WORD
    [] OTHER                             -> i.imm

(* Word 2: of encode_rtype, encode_itype, ... *)
Value(i) ==
  CASE i.op \in ROps \cup DivOps         -> i.rs2 * 2
    [] i.op = "addi"                     -> i.imm - 1
    [] i.op = "srli"                     -> i.imm + RSHA_BASE
    [] i.op = "srai"                     -> ((i.imm + 4) % 64) + RSHA_BASE
    [] i.op \in BranchOps \cup {"jal"}   -> PcDelta(i.imm)
    [] i.op \in UpperOps                 -> i.imm % WORD
    [] OTHER                             -> i.imm

Init ==
  /\ insn \in Insn
  /\ stage = "source"
  /\ word1 = 0 /\ word2 = 0
  /\ opcode = 0 /\ destOffset = 0 /\ src1Offset = 0
  /\ decoded = insn

(* encode, and the masking of word 2 by encode_program. *)
Assemble_Tape ==
  /\ stage = "source"
  /\ word1' = make_word1(Reg1(insn), Reg2(insn), Number(insn.op))
  /\ word2' = Value(insn) % WORD
  /\ stage' = "tape"
  /\ UNCHANGED <<insn, opcode, destOffset, src1Offset, decoded>>

(* Mutant: the destination field is left above the src1 offset. *)
FETCH_LOOP_NoMask ==
  /\ stage = "tape"
  /\ opcode' = SLCL(word1, 255)
  /\ destOffset' = SLCL(LSHAL(word1, 6), 62)
  /\ src1Offset' = RSHAL(word1, 7)
  /\ stage' = "fetched"
  /\ UNCHANGED <<insn, word1, word2, decoded>>

FETCH_LOOP ==
  /\ stage = "tape"
  /\ opcode' = SLCL(word1, 255)
  /\ destOffset' = SLCL(LSHAL(word1, 6), 62)
  /\ src1Offset' = SLCL(RSHAL(word1, 7), 62)
  /\ stage' = "fetched"
  /\ UNCHANGED <<insn, word1, word2, decoded>>

SignExtend18(v) == IF Neg(v) THEN v - WORD ELSE v

(* ones_comp_pc_delta_to_twos_comp_offset *)
OffsetOf(delta) == 2 * (IF Neg(delta) THEN delta + 1 - WORD ELSE delta)

Decode(w1, w2) ==
  LET reg1 == (w1 \div 2^13) % 32
      reg2 == (w1 \div 2^8) % 32
      op   == Opcodes[(w1 % 256) + 1]
      I(rd, rs1, rs2, imm) == [op |-> op, rd |-> rd, rs1 |-> rs1, rs2 |-> rs2, imm |-> imm]
  IN  CASE op \in ROps \cup DivOps -> I(reg1, reg2, w2 \div 2, 0)
        [] op = "addi"             -> I(reg1, reg2, 0, SignExtend18(w2) + 1)
        [] op \in (IOps \ {"addi"}) \cup LoadOps -> I(reg1, reg2, 0, SignExtend18(w2))
        [] op = "slli"             -> I(reg1, reg2, 0, w2)
        [] op = "srli"             -> I(reg1, reg2, 0, w2 % 32)
        [] op = "srai"             -> I(reg1, reg2, 0, (w2 % 64) - 4)
        [] op \in StoreOps         -> I(0, reg2, reg1, SignExtend18(w2))
        [] op \in BranchOps        -> I(0, reg1, reg2, OffsetOf(w2))
        [] op = "jal"              -> I(reg1, 0, 0, OffsetOf(w2))
        [] op \in UpperOps         -> I(reg1, 0, 0, reg2 * WORD + w2)
        [] op = "ecall"            -> I(0, 0, 0, 0)

DecodeTape ==
  /\ stage = "tape"
  /\ decoded' = Decode(word1, word2)
  /\ stage' = "decoded"
  /\ UNCHANGED <<insn, word1, word2, opcode, destOffset, src1Offset>>

Next == Assemble_Tape \/ FETCH_LOOP \/ DecodeTape

Spec == Init /\ [][Next]_vars

-----------------------------------------------------------------------------

(* test_univac_encoding.ml: an instruction survives encoding and decoding;   *)
(* jump offsets lose their lowest bit.                                       *)
Aligned(i) ==
  IF i.op \in BranchOps \cup {"jal"} THEN [i EXCEPT !.imm = @ - (@ % 2)] ELSE i
RoundTrip == stage = "decoded" => decoded = Aligned(insn)

(* The jump table leads to the handler of the instruction, and FETCH_LOOP     *)
(* leaves it the register offsets and the operand word that Encode gives it  *)
(* (the count in the RSHA instruction, for immediate right shifts).           *)
FetchMeetsHandler ==
  stage = "fetched" /\ insn.op \notin DivOps =>
    LET e == Encode(insn)
    IN  /\ OPCODE_TABLE[opcode + 1] = e.op
        /\ destOffset = 2 * e.dest
        /\ src1Offset = 2 * e.src1
        /\ e.word2 = IF insn.op \in {"srli", "srai"} THEN word2 % 64 ELSE word2
=============================================================================
