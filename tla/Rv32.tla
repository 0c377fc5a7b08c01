-------------------------------- MODULE Rv32 --------------------------------
(***************************************************************************)
(* The RISC-V instructions of the emulators and their two-word encoding     *)
(* for the UNIVAC (tools/lib/instruction.ml, univac_encoding.ml).           *)
(* An instruction is a record of its name, its registers and its immediate; *)
(* fields an instruction does not have are 0.                               *)
(***************************************************************************)
EXTENDS Univac1219

CONSTANTS NREGS,          \* number of registers (32)
          A0, A1, A7      \* the registers of the system-call convention (10, 11, 17)

ASSUME RegsAssumption ==
  /\ NREGS \in 1 .. 32
  /\ {A0, A1, A7} \subseteq 1 .. NREGS - 1

Regs == 0 .. NREGS - 1

IMMBITS == IF BYTEBITS = 8 THEN 12 ELSE 4        \* width of an I-type immediate
Imm12   == -(2^(IMMBITS - 1)) .. 2^(IMMBITS - 1) - 1
Upper   == 0 .. 2^(XLEN - IMMBITS) - 1           \* LUI, AUIPC
Offset  == -(WORD \div 2) .. WORD \div 2 - 1     \* the range encode_jump accepts

ROps      == {"add", "sub", "slt", "sltu", "and", "or", "xor", "sll", "srl", "sra",
              "mul", "mulh", "mulhsu", "mulhu"}
IOps      == {"addi", "slti", "sltiu", "andi", "ori", "xori", "jalr"}
ShiftOps  == {"slli", "srli", "srai"}
LoadOps   == {"lb", "lh", "lw", "lbu", "lhu"}
StoreOps  == {"sb", "sh", "sw"}
BranchOps == {"beq", "bne", "blt", "bge", "bltu", "bgeu"}
UpperOps  == {"lui", "auipc"}

Ops == ROps \cup IOps \cup ShiftOps \cup LoadOps \cup StoreOps \cup BranchOps
       \cup {"jal", "ecall"} \cup UpperOps

Imms(op) ==
  IF op \in IOps \cup LoadOps \cup StoreOps THEN Imm12
  ELSE IF op \in ShiftOps THEN 0 .. XLEN - 1
  ELSE IF op \in BranchOps \cup {"jal"} THEN Offset
  ELSE IF op \in UpperOps THEN Upper
  ELSE {0}

Instruction ==
  {i \in [op : Ops, rd : Regs, rs1 : Regs, rs2 : Regs, imm : Int] : i.imm \in Imms(i.op)}

Insns(ops, rds, rs1s, rs2s, imms) ==
  [op : ops, rd : rds, rs1 : rs1s, rs2 : rs2s, imm : imms]

(* Mutant: a backward offset in two's complement. *)
PcDelta_TwosComplement(offset) == (offset \div 2) % WORD

(* A byte offset as a one's-complement count of UNIVAC words. *)
PcDelta(offset) ==
  LET delta == offset \div 2
  IN  IF delta < 0 THEN (delta - 1) % WORD ELSE delta

(* The register fields of word 1 ... *)
Reg1(i) == IF i.op \in StoreOps THEN i.rs2 ELSE IF i.op \in BranchOps THEN i.rs1 ELSE i.rd
Reg2(i) == IF i.op \in BranchOps THEN i.rs2
           ELSE IF i.op \in UpperOps THEN i.imm \div WORD ELSE i.rs1

(* ... and word 2 as its handler uses it: of an immediate right shift, which  *)
(* is encoded as an RSHA instruction, only the shift count.                   *)
Word2(i) ==
  IF i.op \in ROps THEN 2 * i.rs2
  ELSE IF i.op = "addi" THEN (i.imm - 1) % WORD
  ELSE IF i.op = "srai" THEN i.imm + 4
  ELSE IF i.op \in BranchOps \cup {"jal"} THEN PcDelta(i.imm)
  ELSE i.imm % WORD

Encode(i) == [op |-> i.op, dest |-> Reg1(i), src1 |-> Reg2(i), word2 |-> Word2(i)]
=============================================================================
