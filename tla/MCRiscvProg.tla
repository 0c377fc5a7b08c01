----------------------------- MODULE MCRiscvProg -----------------------------
EXTENDS MCRiscv

LOCAL INSTANCE Bitwise

CONSTANT Values     \* operand values of the register instructions

(* The bit operations of the reference emulator are those of the integers.   *)
ASSUME BitsAssumption ==
  \A a, b \in Values : /\ Oracle!Halfwise(SLCL, a, b) = a & b
                       /\ Oracle!Halfwise(SLSET, a, b) = a | b
                       /\ Oracle!Halfwise(SLCP, a, b) = a ^^ b

(* Every register instruction twice in a row, on every pair of operands.     *)
Twice(insns) == {<<i, i>> : i \in insns}
RegReg == Insns(ROps, {0, 1}, {1}, {2}, {0})
RegImm == Insns(IOps \ {"jalr"}, {0, 1}, {1}, {0}, Imm12)
          \cup Insns(ShiftOps, {0, 3}, {1}, {0}, 0 .. XLEN - 1)
          \cup Insns(UpperOps, {0, 3}, {0}, {0}, Upper)
AluBoots == Boots(Twice(RegReg), RegFiles(Values, Values, {0}), {Clear}, {<<>>})
            \cup Boots(Twice(RegImm), RegFiles(Values, {0}, {0}), {Clear}, {<<>>})
MCValues == 0 .. 8 \cup {15, 16, 17, 31, 32, 63, 64, 65, 95, 96}
            \cup 126 .. 129 \cup {160, 175, 176, 191, 192, 193, 240, 253, 254, 255}

Cells == {Clear, [w \in DATA |-> HALF - 1], [w \in DATA |-> (5 * w + 3) % HALF]}

(* Every byte address from before the image to beyond it, for every width.   *)
MemoryBoots ==
  Boots({<<i, i>> : i \in Insns(LoadOps, {0, 3}, {1}, {0}, {-3, 0, 2})
                          \cup Insns(StoreOps, {0}, {1}, {2}, {-3, 0, 2})},
        RegFiles(20 .. 34 \cup {64 + 26, 255}, {27, 228, 255}, {0}), Cells, {<<>>})

(* A jump between two instructions, forwards, backwards, onto itself and to  *)
(* address 0, and out of the program.                                        *)
JumpBoots ==
  Boots({<<Nop, j, Nop, Nop>> :
           j \in Insns(BranchOps, {0}, {1}, {2}, {-8, -4, 0, 4, 8})
                 \cup Insns({"jal"}, {0, 1}, {0}, {0}, {-4, 0, 4, 8, 12})
                 \cup Insns({"jalr"}, {0, 1}, {1}, {0}, {-4, -1, 0, 1, 4})},
        RegFiles({0, 1, 3, 4, 5, 8, 9, 12, 127, 128, 250, 255}, {0, 1, 127, 128, 255}, {0}),
        {Clear}, {<<>>})

(* Characters are read, kept in memory, printed, and the program exits.      *)
Echo == <<I("ecall", 0, 0, 0, 0), I("sb", 0, 2, 1, 0), I("addi", 3, 0, 0, 1), I("lb", 1, 2, 0, 0),
          I("ecall", 0, 0, 0, 0), I("addi", 3, 0, 0, 0), I("bne", 0, 1, 0, -24),
          I("addi", 3, 0, 0, 2), I("ecall", 0, 0, 0, 0)>>
SyscallBoots ==
  Boots({Echo}, RegFiles({0}, {24, 27}, {0, 1, 2, 4, 5, 63}), {Clear},
        UNION {[1 .. k -> 0 .. BYTE - 1] : k \in 0 .. 3})

(* Every program of three instructions over a small repertoire.              *)
Repertoire ==
  {I("addi", 1, 1, 0, 7), I("addi", 2, 1, 0, -8), I("sub", 1, 2, 1, 0), I("add", 2, 1, 2, 0),
   I("sll", 1, 2, 1, 0), I("srai", 2, 2, 0, 1), I("mulh", 1, 1, 2, 0), I("sltu", 3, 1, 2, 0),
   I("xori", 1, 2, 0, -1), I("lui", 2, 0, 0, 15), I("auipc", 1, 0, 0, 1), I("jal", 2, 0, 0, 8),
   I("bge", 0, 1, 2, -4), I("jalr", 1, 2, 0, 4), I("sh", 0, 1, 2, 0), I("lw", 2, 1, 0, -2),
   I("ecall", 0, 0, 0, 0)}
ProgramBoots ==
  Boots({<<i, j, k, Nop>> : i \in Repertoire, j \in Repertoire, k \in Repertoire},
        RegFiles({0, 26}, {2}, {2}), {Clear}, {<<1>>})

MCBoots == AluBoots \cup MemoryBoots \cup JumpBoots \cup SyscallBoots \cup ProgramBoots

(* The programs are among those EmulatorImplementsOracle is proved of. *)
ASSUME ComparableAssumption == ComparablePrograms
=============================================================================
