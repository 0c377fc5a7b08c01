--------------------------- MODULE EncodingProofs ---------------------------
(***************************************************************************)
(* Every instruction survives its way to the UNIVAC: the tool reads back     *)
(* what it wrote, and FETCH_LOOP finds the handler and its operands.         *)
(***************************************************************************)
EXTENDS Encoding, TLAPS

-----------------------------------------------------------------------------
(* The machine of the tape has 18-bit words and 32 registers. *)

LEMMA Sizes ==
  /\ BYTE = 256 /\ HALF = 65536 /\ WORD = 262144 /\ HIMOD = 16384
  /\ WBITS = 18 /\ XLEN = 32 /\ IMMBITS = 12
  /\ Regs = 0 .. 31
  /\ \A n \in Imm12 : n \in Int /\ n >= -2048 /\ n < 2048
  /\ \A n \in Upper : n \in Nat /\ n < 1048576
  /\ \A n \in Offset : n \in Int /\ n >= -131072 /\ n < 131072
<1>1. BYTEBITS = 8 /\ NREGS = 32
  BY InsnAssumption
<1>2. /\ BYTE = 256 /\ HALF = 65536 /\ WORD = 262144 /\ HIMOD = 16384
      /\ WBITS = 18 /\ XLEN = 32 /\ IMMBITS = 12
  BY <1>1 DEF BYTE, HALF, WORD, HIMOD, WBITS, XLEN, IMMBITS
<1>3. 2^(IMMBITS - 1) = 2048 /\ 2^(XLEN - IMMBITS) = 1048576
  BY <1>2
<1>4. Regs = 0 .. 31
  BY <1>1 DEF Regs
<1>5. /\ \A n \in Imm12 : n \in Int /\ n >= -2048 /\ n < 2048
      /\ \A n \in Upper : n \in Nat /\ n < 1048576
      /\ \A n \in Offset : n \in Int /\ n >= -131072 /\ n < 131072
  <2>1. /\ 2^(IMMBITS - 1) \in Int /\ 2^(XLEN - IMMBITS) \in Int /\ WORD \div 2 \in Int
    BY <1>2, <1>3
  <2>2. /\ \A n \in Imm12 : n \in Int /\ n >= -(2^(IMMBITS - 1)) /\ n < 2^(IMMBITS - 1)
        /\ \A n \in Upper : n \in Nat /\ n < 2^(XLEN - IMMBITS)
        /\ \A n \in Offset : n \in Int /\ n >= -(WORD \div 2) /\ n < WORD \div 2
    BY <2>1 DEF Imm12, Upper, Offset
  <2>3. QED
    BY <2>2, <1>2, <1>3
<1>6. QED
  BY <1>2, <1>4, <1>5

LEMMA SignOf ==
  ASSUME NEW w \in Nat
  PROVE  /\ Neg(w) <=> w >= 131072
         /\ SignExtend18(w) = IF w >= 131072 THEN w - 262144 ELSE w
         /\ OffsetOf(w) = 2 * (IF w >= 131072 THEN w + 1 - 262144 ELSE w)
<1>1. WORD = 262144 /\ WORD \div 2 = 131072
  BY Sizes, SMT
<1>2. Neg(w) <=> w >= 131072
  BY <1>1, SMT DEF Neg
<1>3. QED
  BY <1>1, <1>2, SMT DEF SignExtend18, OffsetOf

(* A word is the sum of its bits: each power of two adds one. *)
LEMMA LowBits ==
  ASSUME NEW w \in Nat
  PROVE  /\ w % 4 = (w % 2) + 2 * ((w \div 2) % 2)
         /\ w % 8 = (w % 4) + 4 * ((w \div 4) % 2)
         /\ w % 16 = (w % 8) + 8 * ((w \div 8) % 2)
         /\ w % 32 = (w % 16) + 16 * ((w \div 16) % 2)
         /\ w % 64 = (w % 32) + 32 * ((w \div 32) % 2)
         /\ w % 128 = (w % 64) + 64 * ((w \div 64) % 2)
         /\ w % 256 = (w % 128) + 128 * ((w \div 128) % 2)
  OBVIOUS

(* The masks of FETCH_LOOP keep the low bits of a word. *)
LEMMA Masks ==
  ASSUME NEW w \in Nat
  PROVE  /\ SLCL(w, 255) = w % 256
         /\ SLCL(w, 62) = (w % 64) - (w % 2)
<1> DEFINE b(k) == (w \div k) % 2
           m(k) == w % k
<1>1. /\ b(1) \in {0, 1} /\ b(2) \in {0, 1} /\ b(4) \in {0, 1} /\ b(8) \in {0, 1}
      /\ b(16) \in {0, 1} /\ b(32) \in {0, 1} /\ b(64) \in {0, 1} /\ b(128) \in {0, 1}
  OBVIOUS
<1>2. /\ b(1) = m(2) /\ m(4) = m(2) + 2 * b(2) /\ m(8) = m(4) + 4 * b(4)
      /\ m(16) = m(8) + 8 * b(8) /\ m(32) = m(16) + 16 * b(16)
      /\ m(64) = m(32) + 32 * b(32) /\ m(128) = m(64) + 64 * b(64)
      /\ m(256) = m(128) + 128 * b(128)
  BY LowBits
<1>3. \A k \in Nat \ {0} : BitSet(w, k) <=> b(k) = 1
  BY DEF BitSet
<1> HIDE DEF b, m
<1>4. SLCL(w, 255) = b(1) + 2 * b(2) + 4 * b(4) + 8 * b(8) + 16 * b(16) + 32 * b(32)
                     + 64 * b(64) + 128 * b(128)
  <2>1. /\ BitSet(255, 1) /\ BitSet(255, 2) /\ BitSet(255, 4) /\ BitSet(255, 8)
        /\ BitSet(255, 16) /\ BitSet(255, 32) /\ BitSet(255, 64) /\ BitSet(255, 128)
    BY DEF BitSet
  <2>2. /\ ~BitSet(255, 256) /\ ~BitSet(255, 512) /\ ~BitSet(255, 1024)
        /\ ~BitSet(255, 2048) /\ ~BitSet(255, 4096) /\ ~BitSet(255, 8192)
        /\ ~BitSet(255, 16384) /\ ~BitSet(255, 32768) /\ ~BitSet(255, 65536)
        /\ ~BitSet(255, 131072)
    BY DEF BitSet
  <2>3. QED
    BY <1>1, <1>3, <2>1, <2>2 DEF SLCL, Assemble
<1>5. SLCL(w, 62) = 2 * b(2) + 4 * b(4) + 8 * b(8) + 16 * b(16) + 32 * b(32)
  <2>1. /\ ~BitSet(62, 1) /\ BitSet(62, 2) /\ BitSet(62, 4) /\ BitSet(62, 8)
        /\ BitSet(62, 16) /\ BitSet(62, 32) /\ ~BitSet(62, 64) /\ ~BitSet(62, 128)
    BY DEF BitSet
  <2>2. /\ ~BitSet(62, 256) /\ ~BitSet(62, 512) /\ ~BitSet(62, 1024)
        /\ ~BitSet(62, 2048) /\ ~BitSet(62, 4096) /\ ~BitSet(62, 8192)
        /\ ~BitSet(62, 16384) /\ ~BitSet(62, 32768) /\ ~BitSet(62, 65536)
        /\ ~BitSet(62, 131072)
    BY DEF BitSet
  <2>3. QED
    BY <1>1, <1>3, <2>1, <2>2 DEF SLCL, Assemble
<1>6. SLCL(w, 255) = m(256) /\ SLCL(w, 62) = m(64) - m(2)
  BY <1>1, <1>2, <1>4, <1>5
<1>7. QED
  BY <1>6 DEF m

-----------------------------------------------------------------------------
(* Number gives an operation its place in both tables. *)

LEMMA OpcodesAt ==
  /\ Opcodes[1] = "add" /\ Opcodes[2] = "sub" /\ Opcodes[3] = "slt"
  /\ Opcodes[4] = "sltu" /\ Opcodes[5] = "and" /\ Opcodes[6] = "or"
  /\ Opcodes[7] = "xor" /\ Opcodes[8] = "sll" /\ Opcodes[9] = "srl"
  /\ Opcodes[10] = "sra" /\ Opcodes[11] = "addi" /\ Opcodes[12] = "slti"
  /\ Opcodes[13] = "sltiu" /\ Opcodes[14] = "andi" /\ Opcodes[15] = "ori"
  /\ Opcodes[16] = "xori" /\ Opcodes[17] = "slli" /\ Opcodes[18] = "srli"
  /\ Opcodes[19] = "srai" /\ Opcodes[20] = "lb" /\ Opcodes[21] = "lh"
  /\ Opcodes[22] = "lw" /\ Opcodes[23] = "lbu" /\ Opcodes[24] = "lhu"
  /\ Opcodes[25] = "sb" /\ Opcodes[26] = "sh" /\ Opcodes[27] = "sw"
  /\ Opcodes[28] = "beq" /\ Opcodes[29] = "bne" /\ Opcodes[30] = "blt"
  /\ Opcodes[31] = "bge" /\ Opcodes[32] = "bltu" /\ Opcodes[33] = "bgeu"
  /\ Opcodes[34] = "jal" /\ Opcodes[35] = "jalr" /\ Opcodes[36] = "lui"
  /\ Opcodes[37] = "auipc" /\ Opcodes[38] = "ecall" /\ Opcodes[39] = "mul"
  /\ Opcodes[40] = "mulh" /\ Opcodes[41] = "mulhsu" /\ Opcodes[42] = "mulhu"
  /\ Opcodes[43] = "div" /\ Opcodes[44] = "divu" /\ Opcodes[45] = "rem"
  /\ Opcodes[46] = "remu"
  BY SMT DEF Opcodes

LEMMA HandlersAt ==
  /\ OPCODE_TABLE[1] = "add" /\ OPCODE_TABLE[2] = "sub" /\ OPCODE_TABLE[3] = "slt"
  /\ OPCODE_TABLE[4] = "sltu" /\ OPCODE_TABLE[5] = "and" /\ OPCODE_TABLE[6] = "or"
  /\ OPCODE_TABLE[7] = "xor" /\ OPCODE_TABLE[8] = "sll" /\ OPCODE_TABLE[9] = "srl"
  /\ OPCODE_TABLE[10] = "sra" /\ OPCODE_TABLE[11] = "addi" /\ OPCODE_TABLE[12] = "slti"
  /\ OPCODE_TABLE[13] = "sltiu" /\ OPCODE_TABLE[14] = "andi" /\ OPCODE_TABLE[15] = "ori"
  /\ OPCODE_TABLE[16] = "xori" /\ OPCODE_TABLE[17] = "slli" /\ OPCODE_TABLE[18] = "srli"
  /\ OPCODE_TABLE[19] = "srai" /\ OPCODE_TABLE[20] = "lb" /\ OPCODE_TABLE[21] = "lh"
  /\ OPCODE_TABLE[22] = "lw" /\ OPCODE_TABLE[23] = "lbu" /\ OPCODE_TABLE[24] = "lhu"
  /\ OPCODE_TABLE[25] = "sb" /\ OPCODE_TABLE[26] = "sh" /\ OPCODE_TABLE[27] = "sw"
  /\ OPCODE_TABLE[28] = "beq" /\ OPCODE_TABLE[29] = "bne" /\ OPCODE_TABLE[30] = "blt"
  /\ OPCODE_TABLE[31] = "bge" /\ OPCODE_TABLE[32] = "bltu" /\ OPCODE_TABLE[33] = "bgeu"
  /\ OPCODE_TABLE[34] = "jal" /\ OPCODE_TABLE[35] = "jalr" /\ OPCODE_TABLE[36] = "lui"
  /\ OPCODE_TABLE[37] = "auipc" /\ OPCODE_TABLE[38] = "ecall" /\ OPCODE_TABLE[39] = "mul"
  /\ OPCODE_TABLE[40] = "mulh" /\ OPCODE_TABLE[41] = "mulhsu" /\ OPCODE_TABLE[42] = "mulhu"
  BY SMT DEF OPCODE_TABLE

LEMMA Numbered ==
  ASSUME NEW op \in Ops \cup DivOps
  PROVE  /\ Number(op) \in 0 .. 45
         /\ Opcodes[Number(op) + 1] = op
         /\ op \notin DivOps => OPCODE_TABLE[Number(op) + 1] = op
<1>1. DOMAIN Opcodes = 1 .. 46
  BY SMT DEF Opcodes
<1>2. \E k \in 1 .. 46 : Opcodes[k] = op
  BY OpcodesAt, SMT
     DEF Ops, DivOps, ROps, IOps, ShiftOps, LoadOps, StoreOps, BranchOps, UpperOps
<1> DEFINE c == CHOOSE k \in DOMAIN Opcodes : Opcodes[k] = op
<1>3. c \in 1 .. 46 /\ Opcodes[c] = op
  BY <1>1, <1>2
<1>4. Number(op) = c - 1
  BY DEF Number
<1> HIDE DEF c
<1>5. Number(op) \in 0 .. 45 /\ Number(op) + 1 = c
  BY <1>3, <1>4
<1>6. \A k \in 43 .. 46 : Opcodes[k] \in DivOps
  BY OpcodesAt, SMT DEF DivOps
<1>7. \A k \in 1 .. 42 : OPCODE_TABLE[k] = Opcodes[k]
  BY OpcodesAt, HandlersAt, SMT
<1>8. QED
  BY <1>3, <1>5, <1>6, <1>7

-----------------------------------------------------------------------------
(* The first word: the tool takes it apart with divisions, FETCH_LOOP with   *)
(* shifts that leave twice the register numbers.                            *)
LEMMA FirstWord ==
  ASSUME NEW r1 \in Nat, NEW r2 \in Nat, NEW n \in Nat, r1 < 32, r2 < 32, n < 46,
         NEW w
  PROVE  w = make_word1(r1, r2, n) =>
         /\ (w \div 2^13) % 32 = r1 /\ (w \div 2^8) % 32 = r2 /\ w % 256 = n
         /\ SLCL(w, 255) = n
         /\ SLCL(LSHAL(w, 6), 62) = 2 * r1
         /\ SLCL(RSHAL(w, 7), 62) = 2 * r2
<1>0. SUFFICES ASSUME w = make_word1(r1, r2, n)
               PROVE  /\ (w \div 2^13) % 32 = r1 /\ (w \div 2^8) % 32 = r2 /\ w % 256 = n
                      /\ SLCL(w, 255) = n
                      /\ SLCL(LSHAL(w, 6), 62) = 2 * r1
                      /\ SLCL(RSHAL(w, 7), 62) = 2 * r2
  OBVIOUS
<1>1. w = r1 * 8192 + r2 * 256 + n
  BY <1>0, SMT DEF make_word1
<1>2. w \in Nat /\ w < 262144 /\ w % 256 = n
  BY <1>1, SMT
<1>3. (w \div 8192) % 32 = r1 /\ (w \div 256) % 32 = r2
  BY <1>1, SMT
<1>4. LSHAL(w, 6) = ((w % 4096) * 64 + w \div 4096) % 262144
  BY Sizes DEF LSHAL
<1>5. w \div 4096 = 2 * r1 + r2 \div 16
  BY <1>1, SMT
<1>6. /\ LSHAL(w, 6) \in Nat
      /\ LSHAL(w, 6) % 64 = 2 * r1 + r2 \div 16
      /\ LSHAL(w, 6) % 2 = r2 \div 16
  BY <1>2, <1>4, <1>5
<1>7. RSHAL(w, 7) = ((w - (IF w >= 131072 THEN 262144 ELSE 0)) \div 128) % 262144
  BY Sizes DEF RSHAL, Neg
<1>8. w \div 128 = 64 * r1 + 2 * r2 + n \div 128 /\ n \div 128 = 0
  BY <1>1, SMT
<1>9. /\ RSHAL(w, 7) \in Nat
      /\ RSHAL(w, 7) % 64 = 2 * r2
      /\ RSHAL(w, 7) % 2 = 0
  <2>1. (w - 262144) \div 128 = w \div 128 - 2048
    BY <1>2
  <2>2. RSHAL(w, 7) = (64 * r1 + 2 * r2 - (IF w >= 131072 THEN 2048 ELSE 0)) % 262144
    BY <1>2, <1>7, <1>8, <2>1
  <2>3. QED
    BY <2>2
<1>10. SLCL(LSHAL(w, 6), 62) = 2 * r1
  <2>1. r2 \div 16 \in Int
    OBVIOUS
  <2>2. SLCL(LSHAL(w, 6), 62) = (LSHAL(w, 6) % 64) - (LSHAL(w, 6) % 2)
    BY <1>6, Masks
  <2>3. QED
    BY <1>6, <2>1, <2>2, SMT
<1>11. SLCL(RSHAL(w, 7), 62) = 2 * r2
  <2>1. SLCL(RSHAL(w, 7), 62) = (RSHAL(w, 7) % 64) - (RSHAL(w, 7) % 2)
    BY <1>9, Masks
  <2>2. QED
    BY <1>9, <2>1, SMT
<1>12. SLCL(w, 255) = n
  <2>1. w \in Nat
    BY <1>2
  <2>2. SLCL(w, 255) = w % 256
    BY <2>1, Masks
  <2>3. w % 256 = n
    BY <1>2
  <2>4. QED
    BY <2>2, <2>3, SMT
<1>13. (w \div 2^13) % 32 = r1 /\ (w \div 2^8) % 32 = r2
  <2>1. 2^13 = 8192 /\ 2^8 = 256
    BY SMT
  <2>2. QED
    BY <1>3, <2>1
<1>14. w % 256 = n
  BY <1>2
<1>15. QED
  BY <1>10, <1>11, <1>12, <1>13, <1>14

(* An instruction is a record; its register fields fit five bits.           *)
LEMMA InsnFacts ==
  ASSUME NEW i \in Insn
  PROVE  /\ i = [op |-> i.op, rd |-> i.rd, rs1 |-> i.rs1, rs2 |-> i.rs2, imm |-> i.imm]
         /\ i.op \in Ops \cup DivOps
         /\ i.rd \in 0 .. 31 /\ i.rs1 \in 0 .. 31 /\ i.rs2 \in 0 .. 31
         /\ i.imm \in Imms(i.op) /\ i.imm \in Int
         /\ Fields(i)
         /\ Reg1(i) \in 0 .. 31 /\ Reg2(i) \in 0 .. 31
<1>1. i \in Instruction \cup Insns(DivOps, Regs, Regs, Regs, {0}) /\ Fields(i)
  BY InsnAssumption
<1>2. CASE i \in Instruction
  <2>1. /\ i \in [op : Ops, rd : Regs, rs1 : Regs, rs2 : Regs, imm : Int]
        /\ i.imm \in Imms(i.op)
    BY <1>2 DEF Instruction
  <2>2. /\ i = [op |-> i.op, rd |-> i.rd, rs1 |-> i.rs1, rs2 |-> i.rs2, imm |-> i.imm]
        /\ i.op \in Ops /\ i.rd \in 0 .. 31 /\ i.rs1 \in 0 .. 31 /\ i.rs2 \in 0 .. 31
        /\ i.imm \in Int
    BY <2>1, Sizes
  <2>3. i.op \in UpperOps => i.imm \in Upper
    BY <2>1 DEF Imms, UpperOps, IOps, LoadOps, StoreOps, ShiftOps, BranchOps
  <2>4. i.op \in UpperOps => i.imm \div WORD \in 0 .. 31
    BY <2>3, Sizes
  <2>5. QED
    BY <1>1, <2>1, <2>2, <2>4 DEF Reg1, Reg2
<1>3. CASE i \in Insns(DivOps, Regs, Regs, Regs, {0})
  <2>1. /\ i = [op |-> i.op, rd |-> i.rd, rs1 |-> i.rs1, rs2 |-> i.rs2, imm |-> i.imm]
        /\ i.op \in DivOps /\ i.rd \in 0 .. 31 /\ i.rs1 \in 0 .. 31 /\ i.rs2 \in 0 .. 31
        /\ i.imm = 0
    BY <1>3, Sizes DEF Insns
  <2>2. i.op \notin UpperOps \cup StoreOps \cup BranchOps
    BY <2>1 DEF DivOps, UpperOps, StoreOps, BranchOps
  <2>3. Imms(i.op) = {0}
    BY <2>1 DEF Imms, DivOps, UpperOps, IOps, LoadOps, StoreOps, ShiftOps, BranchOps
  <2>4. QED
    BY <1>1, <2>1, <2>2, <2>3 DEF Reg1, Reg2
<1>4. QED
  BY <1>1, <1>2, <1>3

-----------------------------------------------------------------------------
(* The second word, kind by kind of immediate. *)

LEMMA Immediates ==
  ASSUME NEW i \in Insn
  PROVE  /\ i.op \in IOps \cup LoadOps \cup StoreOps => i.imm >= -2048 /\ i.imm < 2048
         /\ i.op \in ShiftOps => i.imm \in 0 .. 31
         /\ i.op \in BranchOps \cup {"jal"} => i.imm >= -131072 /\ i.imm < 131072
         /\ i.op \in UpperOps => i.imm \in Nat /\ i.imm < 1048576
         /\ i.op \in ROps \cup DivOps \cup {"ecall"} => i.imm = 0
<1>1. i.imm \in Imms(i.op) /\ XLEN = 32
  BY InsnFacts, Sizes
<1>2. i.op \in IOps \cup LoadOps \cup StoreOps => i.imm >= -2048 /\ i.imm < 2048
  BY <1>1, Sizes DEF Imms
<1>3. i.op \in ShiftOps => i.imm \in 0 .. 31
  BY <1>1 DEF Imms, IOps, ShiftOps, LoadOps, StoreOps
<1>4. i.op \in BranchOps \cup {"jal"} => i.imm \in Offset
  BY <1>1 DEF Imms, IOps, ShiftOps, LoadOps, StoreOps, BranchOps
<1>5. i.op \in UpperOps => i.imm \in Upper
  BY <1>1 DEF Imms, IOps, ShiftOps, LoadOps, StoreOps, BranchOps, UpperOps
<1>6. i.op \in ROps \cup DivOps \cup {"ecall"} => i.imm = 0
  <2>1. i.op \in ROps \cup DivOps \cup {"ecall"} => Imms(i.op) = {0}
    BY DEF Imms, IOps, ShiftOps, LoadOps, StoreOps, BranchOps, UpperOps, ROps, DivOps
  <2>2. QED
    BY <1>1, <2>1
<1>7. QED
  BY <1>2, <1>3, <1>4, <1>5, <1>6, Sizes

LEMMA Values ==
  ASSUME NEW i \in Insn
  PROVE  /\ i.op \in ROps \cup DivOps => Value(i) = i.rs2 * 2
         /\ i.op = "addi" => Value(i) = i.imm - 1
         /\ i.op \in (IOps \ {"addi"}) \cup LoadOps \cup StoreOps => Value(i) = i.imm
         /\ i.op = "slli" => Value(i) = i.imm
         /\ i.op = "srli" => Value(i) = i.imm + 166080
         /\ i.op = "srai" => Value(i) = ((i.imm + 4) % 64) + 166080
         /\ i.op \in BranchOps \cup {"jal"} => Value(i) = PcDelta(i.imm)
         /\ i.op \in UpperOps => Value(i) = i.imm % 262144
<1> USE DEF IOps, ShiftOps, LoadOps, StoreOps, BranchOps, UpperOps, ROps, DivOps
<1>1. i.op \in ROps \cup DivOps => Value(i) = i.rs2 * 2
  BY DEF Value
<1>2. i.op = "addi" => Value(i) = i.imm - 1
  BY DEF Value
<1>3. i.op \in (IOps \ {"addi"}) \cup LoadOps \cup StoreOps => Value(i) = i.imm
  BY DEF Value
<1>4. /\ i.op = "slli" => Value(i) = i.imm
      /\ i.op = "srli" => Value(i) = i.imm + 166080
      /\ i.op = "srai" => Value(i) = ((i.imm + 4) % 64) + 166080
  BY DEF Value, RSHA_BASE
<1>5. i.op \in BranchOps \cup {"jal"} => Value(i) = PcDelta(i.imm)
  BY DEF Value
<1>6. i.op \in UpperOps => Value(i) = i.imm % 262144
  BY Sizes DEF Value
<1>7. QED
  BY <1>1, <1>2, <1>3, <1>4, <1>5, <1>6

(* A signed number of 18 bits is read back from its word ... *)
LEMMA ReadBack ==
  ASSUME NEW v \in Int, v >= -131072, v < 131072
  PROVE  SignExtend18(v % 262144) = v
<1>1. v % 262144 \in Nat /\ v % 262144 = IF v < 0 THEN v + 262144 ELSE v
  BY SMT
<1>2. QED
  BY <1>1, SignOf, SMT

(* ... and an offset, but for its lowest bit, from its one's-complement count. *)
LEMMA ReadBackOffset ==
  ASSUME NEW v \in Int, v >= -131072, v < 131072
  PROVE  OffsetOf(PcDelta(v) % 262144) = v - (v % 2)
<1>1. PcDelta(v) = IF v < 0 THEN v \div 2 - 1 + 262144 ELSE v \div 2
  <2>1. PcDelta(v) = IF v \div 2 < 0 THEN (v \div 2 - 1) % 262144 ELSE v \div 2
    BY Sizes, SMT DEF PcDelta
  <2>2. QED
    BY <2>1, SMT
<1>2. /\ PcDelta(v) \in Nat /\ PcDelta(v) % 262144 = PcDelta(v)
      /\ PcDelta(v) >= 131072 <=> v < 0
  BY <1>1, SMT
<1>3. QED
  BY <1>1, <1>2, SignOf, SMT

(* What decode makes of the second word. *)
LEMMA SecondWord ==
  ASSUME NEW i \in Insn, NEW w, w = Value(i) % WORD
  PROVE  /\ i.op \in ROps \cup DivOps => w \div 2 = i.rs2
         /\ i.op = "addi" => SignExtend18(w) + 1 = i.imm
         /\ i.op \in (IOps \ {"addi"}) \cup LoadOps \cup StoreOps => SignExtend18(w) = i.imm
         /\ i.op = "slli" => w = i.imm
         /\ i.op = "srli" => w % 32 = i.imm
         /\ i.op = "srai" => (w % 64) - 4 = i.imm
         /\ i.op \in BranchOps \cup {"jal"} => OffsetOf(w) = i.imm - (i.imm % 2)
         /\ i.op \in UpperOps => w = i.imm % 262144
<1>1. i.rs2 \in 0 .. 31 /\ i.imm \in Int /\ w = Value(i) % 262144
  BY InsnFacts, Sizes
<1>2. ASSUME i.op \in ROps \cup DivOps
      PROVE  w \div 2 = i.rs2
  BY <1>1, <1>2, Values
<1>3. ASSUME i.op = "addi"
      PROVE  SignExtend18(w) + 1 = i.imm
  <2> DEFINE v == i.imm - 1
  <2>1. Value(i) = v /\ i.imm >= -2048 /\ i.imm < 2048
    BY <1>3, Values, Immediates DEF IOps
  <2>2. v \in Int /\ v >= -131072 /\ v < 131072 /\ v + 1 = i.imm
    BY <1>1, <2>1, SMT
  <2>3. w = v % 262144
    BY <1>1, <2>1, SMT
  <2> HIDE DEF v
  <2>4. QED
    BY <2>2, <2>3, ReadBack
<1>4. ASSUME i.op \in (IOps \ {"addi"}) \cup LoadOps \cup StoreOps
      PROVE  SignExtend18(w) = i.imm
  <2>1. Value(i) = i.imm /\ i.imm >= -2048 /\ i.imm < 2048
    BY <1>4, Values, Immediates
  <2>2. i.imm \in Int /\ i.imm >= -131072 /\ i.imm < 131072
    BY <1>1, <2>1, SMT
  <2>3. QED
    BY <1>1, <2>1, <2>2, ReadBack
<1>5. ASSUME i.op \in ShiftOps
      PROVE  /\ i.op = "slli" => w = i.imm
             /\ i.op = "srli" => w % 32 = i.imm
             /\ i.op = "srai" => (w % 64) - 4 = i.imm
  <2>1. i.imm \in 0 .. 31
    BY <1>5, Immediates
  <2>2. i.op = "slli" => w = i.imm
    BY <1>1, <2>1, Values, SMT
  <2>3. i.op = "srli" => w % 32 = i.imm
    BY <1>1, <2>1, Values, SMT
  <2>4. i.op = "srai" => (w % 64) - 4 = i.imm
    BY <1>1, <2>1, Values, SMT
  <2>5. QED
    BY <2>2, <2>3, <2>4
<1>6. ASSUME i.op \in BranchOps \cup {"jal"}
      PROVE  OffsetOf(w) = i.imm - (i.imm % 2)
  <2>1. Value(i) = PcDelta(i.imm)
    BY <1>6, Values
  <2>2. i.imm >= -131072 /\ i.imm < 131072
    BY <1>6, Immediates
  <2>3. QED
    BY <1>1, <2>1, <2>2, ReadBackOffset
<1>7. ASSUME i.op \in UpperOps
      PROVE  w = i.imm % 262144
  <2>1. Value(i) = i.imm % 262144
    BY <1>7, Values
  <2>2. QED
    BY <1>1, <2>1
<1>8. QED
  BY <1>2, <1>3, <1>4, <1>5, <1>6, <1>7 DEF ShiftOps

(* decode undoes encode, except for the lowest bit of a jump's offset. *)
LEMMA DecodeEncode ==
  ASSUME NEW i \in Insn
  PROVE  Decode(make_word1(Reg1(i), Reg2(i), Number(i.op)), Value(i) % WORD) = Aligned(i)
<1> DEFINE w1 == make_word1(Reg1(i), Reg2(i), Number(i.op))
           w2 == Value(i) % WORD
           Made(rd, rs1, rs2, imm) ==
             [op |-> i.op, rd |-> rd, rs1 |-> rs1, rs2 |-> rs2, imm |-> imm]
<1>1. w1 = make_word1(Reg1(i), Reg2(i), Number(i.op)) /\ w2 = Value(i) % WORD
  OBVIOUS
<1>0. SUFFICES Decode(w1, w2) = Aligned(i)
  OBVIOUS
<1> HIDE DEF w1, w2
<1>2. /\ (w1 \div 2^13) % 32 = Reg1(i) /\ (w1 \div 2^8) % 32 = Reg2(i)
      /\ Opcodes[(w1 % 256) + 1] = i.op
  <2>1. /\ Reg1(i) \in Nat /\ Reg1(i) < 32 /\ Reg2(i) \in Nat /\ Reg2(i) < 32
        /\ Number(i.op) \in Nat /\ Number(i.op) < 46 /\ Opcodes[Number(i.op) + 1] = i.op
    BY InsnFacts, Numbered
  <2>2. \A r1, r2, n \in Nat : r1 < 32 /\ r2 < 32 /\ n < 46 =>
          /\ (make_word1(r1, r2, n) \div 2^13) % 32 = r1
          /\ (make_word1(r1, r2, n) \div 2^8) % 32 = r2
          /\ make_word1(r1, r2, n) % 256 = n
    BY FirstWord
  <2>3. (w1 \div 2^13) % 32 = Reg1(i) /\ (w1 \div 2^8) % 32 = Reg2(i) /\ w1 % 256 = Number(i.op)
    BY <1>1, <2>1, <2>2
  <2>4. QED
    BY <2>1, <2>3
<1> DEFINE half == w2 \div 2
           plus == SignExtend18(w2) + 1
           low5 == w2 % 32
           low6 == (w2 % 64) - 4
           top  == Reg2(i) * WORD + w2
<1>3. Decode(w1, w2) =
        CASE i.op \in ROps \cup DivOps -> Made(Reg1(i), Reg2(i), half, 0)
          [] i.op = "addi"             -> Made(Reg1(i), Reg2(i), 0, plus)
          [] i.op \in (IOps \ {"addi"}) \cup LoadOps ->
               Made(Reg1(i), Reg2(i), 0, SignExtend18(w2))
          [] i.op = "slli"             -> Made(Reg1(i), Reg2(i), 0, w2)
          [] i.op = "srli"             -> Made(Reg1(i), Reg2(i), 0, low5)
          [] i.op = "srai"             -> Made(Reg1(i), Reg2(i), 0, low6)
          [] i.op \in StoreOps         -> Made(0, Reg2(i), Reg1(i), SignExtend18(w2))
          [] i.op \in BranchOps        -> Made(0, Reg1(i), Reg2(i), OffsetOf(w2))
          [] i.op = "jal"              -> Made(Reg1(i), 0, 0, OffsetOf(w2))
          [] i.op \in UpperOps         -> Made(Reg1(i), 0, 0, top)
          [] i.op = "ecall"            -> Made(0, 0, 0, 0)
  BY <1>2 DEF Decode
<1>4. /\ i = Made(i.rd, i.rs1, i.rs2, i.imm) /\ i.op \in Ops \cup DivOps
      /\ [i EXCEPT !.imm = @ - (@ % 2)] = Made(i.rd, i.rs1, i.rs2, i.imm - (i.imm % 2))
  BY InsnFacts
<1> DEFINE even == i.imm - (i.imm % 2)
<1>5. Aligned(i) = Made(i.rd, i.rs1, i.rs2,
                        IF i.op \in BranchOps \cup {"jal"} THEN even ELSE i.imm)
  BY <1>4 DEF Aligned
<1>6. Fields(i)
  BY InsnFacts
<1>6a. /\ i.op \in ROps \cup DivOps => half = i.rs2 /\ i.imm = 0
       /\ i.op = "addi" => plus = i.imm
       /\ i.op \in (IOps \ {"addi"}) \cup LoadOps \cup StoreOps => SignExtend18(w2) = i.imm
       /\ i.op = "slli" => w2 = i.imm
       /\ i.op = "srli" => low5 = i.imm
       /\ i.op = "srai" => low6 = i.imm
       /\ i.op \in BranchOps \cup {"jal"} => OffsetOf(w2) = even
       /\ i.op \in UpperOps => w2 = i.imm % 262144
       /\ i.op = "ecall" => i.imm = 0
  BY <1>1, SecondWord, Immediates
<1>6b. ASSUME i.op \in UpperOps
       PROVE  top = i.imm
  <2>1. w2 = i.imm % 262144 /\ i.imm \in Nat
    BY <1>6a, <1>6b, Immediates
  <2>2. Reg2(i) = i.imm \div 262144
    BY <1>6b, Sizes DEF Reg2, BranchOps, UpperOps
  <2>3. QED
    BY <2>1, <2>2, Sizes
<1> HIDE DEF Made, half, plus, low5, low6, top, even
<1> USE DEF IOps, ShiftOps, LoadOps, StoreOps, BranchOps, UpperOps, ROps, DivOps
<1>7. CASE i.op \in ROps \cup DivOps
  <2>1. Decode(w1, w2) = Made(Reg1(i), Reg2(i), half, 0)
    BY <1>3, <1>7
  <2>2. Reg1(i) = i.rd /\ Reg2(i) = i.rs1 /\ half = i.rs2 /\ i.imm = 0
    BY <1>6a, <1>7 DEF Reg1, Reg2
  <2>3. Aligned(i) = Made(i.rd, i.rs1, i.rs2, i.imm)
    BY <1>5, <1>7
  <2>4. QED
    BY <2>1, <2>2, <2>3
<1>8. CASE i.op = "addi"
  BY <1>3, <1>5, <1>6, <1>6a, <1>8 DEF Reg1, Reg2, Fields
<1>9. CASE i.op \in (IOps \ {"addi"}) \cup LoadOps
  BY <1>3, <1>5, <1>6, <1>6a, <1>9 DEF Reg1, Reg2, Fields
<1>10. CASE i.op \in ShiftOps
  BY <1>3, <1>5, <1>6, <1>6a, <1>10 DEF Reg1, Reg2, Fields
<1>11. CASE i.op \in StoreOps
  BY <1>3, <1>5, <1>6, <1>6a, <1>11 DEF Reg1, Reg2, Fields
<1>12. CASE i.op \in BranchOps \cup {"jal"}
  BY <1>3, <1>5, <1>6, <1>6a, <1>12 DEF Reg1, Reg2, Fields
<1>13. CASE i.op \in UpperOps
  BY <1>3, <1>5, <1>6, <1>6a, <1>6b, <1>13 DEF Reg1, Reg2, Fields
<1>14. CASE i.op = "ecall"
  BY <1>3, <1>5, <1>6, <1>6a, <1>14 DEF Reg1, Reg2, Fields
<1>15. QED
  BY <1>4, <1>7, <1>8, <1>9, <1>10, <1>11, <1>12, <1>13, <1>14 DEF Ops

(* What FETCH_LOOP makes of the two words is what Encode says of them. *)
LEMMA FetchEncode ==
  ASSUME NEW i \in Insn, i.op \notin DivOps,
         NEW w1, w1 = make_word1(Reg1(i), Reg2(i), Number(i.op)),
         NEW w2, w2 = Value(i) % WORD
  PROVE  /\ OPCODE_TABLE[SLCL(w1, 255) + 1] = i.op
         /\ SLCL(LSHAL(w1, 6), 62) = 2 * Reg1(i)
         /\ SLCL(RSHAL(w1, 7), 62) = 2 * Reg2(i)
         /\ Word2(i) = IF i.op \in {"srli", "srai"} THEN w2 % 64 ELSE w2
<1>1. /\ Reg1(i) \in Nat /\ Reg1(i) < 32 /\ Reg2(i) \in Nat /\ Reg2(i) < 32
      /\ Number(i.op) \in Nat /\ Number(i.op) < 46
      /\ OPCODE_TABLE[Number(i.op) + 1] = i.op
  BY InsnFacts, Numbered
<1>2. /\ SLCL(w1, 255) = Number(i.op)
      /\ SLCL(LSHAL(w1, 6), 62) = 2 * Reg1(i)
      /\ SLCL(RSHAL(w1, 7), 62) = 2 * Reg2(i)
  BY <1>1, FirstWord
<1>3. i.op \in Ops /\ i.imm \in Int /\ i.rs2 \in 0 .. 31 /\ w2 = Value(i) % 262144
  BY InsnFacts, Sizes
<1>4. Word2(i) = IF i.op \in {"srli", "srai"} THEN w2 % 64 ELSE w2
  <2>1. CASE i.op \in ROps
    <3>1. Word2(i) = 2 * i.rs2 /\ i.op \notin {"srli", "srai"}
      BY <2>1 DEF Word2, ROps
    <3>2. Value(i) = i.rs2 * 2
      BY <2>1, Values
    <3>3. QED
      BY <1>3, <3>1, <3>2
  <2>2. CASE i.op = "addi"
    <3>1. Word2(i) = (i.imm - 1) % 262144
      BY <2>2, Sizes DEF Word2, ROps
    <3>2. Value(i) = i.imm - 1
      BY <2>2, Values
    <3>3. QED
      BY <1>3, <2>2, <3>1, <3>2
  <2>3. CASE i.op \in ShiftOps
    <3>1. i.imm \in 0 .. 31
      BY <2>3, Immediates
    <3>2. Word2(i) = IF i.op = "srai" THEN i.imm + 4 ELSE i.imm
      <4>1. Word2(i) = IF i.op = "srai" THEN i.imm + 4 ELSE i.imm % 262144
        BY <2>3, Sizes DEF Word2, ROps, ShiftOps, BranchOps
      <4>2. QED
        BY <3>1, <4>1
    <3>3. CASE i.op = "slli"
      BY <1>3, <3>1, <3>2, <3>3, Values
    <3>4. CASE i.op = "srli"
      BY <1>3, <3>1, <3>2, <3>4, Values
    <3>5. CASE i.op = "srai"
      BY <1>3, <3>1, <3>2, <3>5, Values
    <3>6. QED
      BY <2>3, <3>3, <3>4, <3>5 DEF ShiftOps
  <2>4. CASE i.op \in BranchOps \cup {"jal"}
    <3>1. Word2(i) = PcDelta(i.imm) /\ i.op \notin {"srli", "srai"}
      BY <2>4 DEF Word2, ROps, BranchOps
    <3>2. Value(i) = PcDelta(i.imm)
      BY <2>4, Values
    <3>3. i.imm >= -131072 /\ i.imm < 131072
      BY <2>4, Immediates
    <3>4. PcDelta(i.imm) \in Nat /\ PcDelta(i.imm) < 262144
      <4>1. PcDelta(i.imm) = IF i.imm \div 2 < 0 THEN (i.imm \div 2 - 1) % 262144
                                                 ELSE i.imm \div 2
        BY Sizes, SMT DEF PcDelta
      <4>2. QED
        BY <1>3, <3>3, <4>1
    <3>5. QED
      BY <1>3, <3>1, <3>2, <3>4
  <2>5. CASE i.op \in UpperOps
    <3>1. Word2(i) = i.imm % 262144 /\ i.op \notin {"srli", "srai"}
      BY <2>5, Sizes DEF Word2, ROps, BranchOps, UpperOps
    <3>2. Value(i) = i.imm % 262144
      BY <2>5, Values
    <3>3. QED
      BY <1>3, <3>1, <3>2
  <2>6. CASE i.op \in (IOps \ {"addi"}) \cup LoadOps \cup StoreOps
    <3>1. Word2(i) = i.imm % 262144 /\ i.op \notin {"srli", "srai"}
      BY <2>6, Sizes DEF Word2, ROps, BranchOps, IOps, LoadOps, StoreOps
    <3>2. Value(i) = i.imm
      BY <2>6, Values
    <3>3. QED
      BY <1>3, <3>1, <3>2
  <2>7. CASE i.op = "ecall"
    <3>1. Word2(i) = i.imm % 262144 /\ i.op \notin {"srli", "srai"}
      BY <2>7, Sizes DEF Word2, ROps, BranchOps
    <3>2. Value(i) = i.imm
      BY <2>7 DEF Value, ROps, DivOps, BranchOps, UpperOps
    <3>3. QED
      BY <1>3, <3>1, <3>2
  <2>8. QED
    BY <1>3, <2>1, <2>2, <2>3, <2>4, <2>5, <2>6, <2>7 DEF Ops
<1>5. QED
  BY <1>1, <1>2, <1>4

-----------------------------------------------------------------------------
(* The invariant: what is on the tape is what Assemble_Tape wrote, and every   *)
(* reader of it has read it right.                                           *)
OnTape ==
  /\ word1 = make_word1(Reg1(insn), Reg2(insn), Number(insn.op))
  /\ word2 = Value(insn) % WORD

EInv ==
  /\ insn \in Insn
  /\ stage = "tape" => OnTape
  /\ RoundTrip
  /\ FetchMeetsHandler

LEMMA Start == ASSUME Init PROVE EInv
  BY DEF Init, EInv, RoundTrip, FetchMeetsHandler

LEMMA Step == ASSUME EInv, [Next]_vars PROVE EInv'
<1>1. CASE Assemble_Tape
  BY <1>1 DEF Assemble_Tape, EInv, OnTape, RoundTrip, FetchMeetsHandler
<1>2. CASE FETCH_LOOP
  <2>1. /\ insn \in Insn /\ OnTape /\ stage' = "fetched"
        /\ opcode' = SLCL(word1, 255)
        /\ destOffset' = SLCL(LSHAL(word1, 6), 62)
        /\ src1Offset' = SLCL(RSHAL(word1, 7), 62)
        /\ UNCHANGED <<insn, word1, word2, decoded>>
    BY <1>2 DEF FETCH_LOOP, EInv
  <2>2. insn.op \notin DivOps =>
          /\ OPCODE_TABLE[opcode' + 1] = insn.op
          /\ destOffset' = 2 * Reg1(insn)
          /\ src1Offset' = 2 * Reg2(insn)
          /\ Word2(insn) = IF insn.op \in {"srli", "srai"} THEN word2 % 64 ELSE word2
    BY <2>1, FetchEncode DEF OnTape
  <2>3. FetchMeetsHandler'
    BY <2>1, <2>2 DEF FetchMeetsHandler, Encode
  <2>4. QED
    BY <2>1, <2>3 DEF EInv, RoundTrip
<1>3. CASE DecodeTape
  <2>1. /\ insn \in Insn /\ OnTape /\ stage' = "decoded"
        /\ decoded' = Decode(word1, word2) /\ insn' = insn
    BY <1>3 DEF DecodeTape, EInv
  <2>2. decoded' = Aligned(insn)
    BY <2>1, DecodeEncode DEF OnTape
  <2>3. QED
    BY <2>1, <2>2 DEF EInv, RoundTrip, FetchMeetsHandler, Aligned
<1>4. CASE UNCHANGED vars
  BY <1>4 DEF vars, EInv, OnTape, RoundTrip, FetchMeetsHandler, Aligned
<1>5. QED
  BY <1>1, <1>2, <1>3, <1>4 DEF Next

(* test_univac_encoding.ml, for every instruction and not only the generated  *)
(* ones: decode returns the instruction that encode was given, but for the    *)
(* lowest bit of a jump's offset.                                            *)
THEOREM InstructionsSurvive == Spec => []RoundTrip
<1>1. EInv => RoundTrip
  BY DEF EInv
<1>2. QED
  BY Start, Step, <1>1, PTL DEF Spec

(* FETCH_LOOP jumps to the handler of the instruction on the tape and leaves  *)
(* it the two register offsets and the operand that the handlers of the       *)
(* emulator are modelled with.                                              *)
THEOREM HandlersMeetEncoding == Spec => []FetchMeetsHandler
<1>1. EInv => FetchMeetsHandler
  BY DEF EInv
<1>2. QED
  BY Start, Step, <1>1, PTL DEF Spec
=============================================================================
