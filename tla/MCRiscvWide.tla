----------------------------- MODULE MCRiscvWide -----------------------------
(* Ten-bit words, where the upper immediates need the src1 field of word 1:  *)
(* all of LUI, AUIPC as far as one word carries its immediate, and the       *)
(* instructions that are not multiplications (their products exceed TLC's).  *)
EXTENDS MCRiscv

CONSTANT Values

RegReg == Insns(ROps \ {"mul", "mulh", "mulhsu", "mulhu"}, {1}, {1}, {2}, {0})
RegImm == Insns(IOps \ {"jalr"}, {1}, {1}, {0}, Imm12)
          \cup Insns(ShiftOps, {3}, {1}, {0}, 0 .. XLEN - 1)
UpperInsns == Insns({"lui"}, {0, 3}, {0}, {0}, Upper)
              \cup Insns({"auipc"}, {0, 3}, {0}, {0}, 0 .. WORD - 1)

MCBoots == Boots({<<Nop, i>> : i \in RegReg}, RegFiles(Values, Values, {0}), {Clear}, {<<>>})
           \cup Boots({<<Nop, i>> : i \in RegImm}, RegFiles(Values, {0}, {0}), {Clear}, {<<>>})
           \cup Boots({<<Nop, i, Nop>> : i \in UpperInsns}, RegFiles({0}, {0}, {0}), {Clear}, {<<>>})

(* AUIPC with every immediate an assembler accepts. *)
AuipcBoots == Boots({<<Nop, i>> : i \in Insns({"auipc"}, {3}, {0}, {0}, Upper)},
                    RegFiles({0}, {0}, {0}), {Clear}, {<<>>})

(* The comment above OP_AUIPC: "dest = PC + (immediate << 12)".              *)
AuipcAddsImmediate ==
  [][OP_AUIPC => LET i == program[pc \div 2 + 1]
                 IN  Full(reg'[i.rd]) = (2 * pc + i.imm * 2^IMMBITS) % 2^XLEN]_vars

MCValues == {0, 1, 2, 15, 16, 255, 256, 1023, 1024, 1025, 16384, 32767, 32768, 32769,
             43690, 65279, 65280, 65534, 65535}
=============================================================================
