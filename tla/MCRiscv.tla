------------------------------- MODULE MCRiscv -------------------------------
(* What the instances of the emulator share: boots over four registers. *)
EXTENDS RiscvEmuRefinement

(* The boots of the given programs, values of x1, x2 and x3, data and inputs. *)
V(v) == <<v \div WORD, v % WORD>>
RegFiles(x1s, x2s, x3s) ==
  {[r \in Regs |-> V(x[r + 1])] : x \in {0} \X x1s \X x2s \X x3s}
Boots(programs, regs, cells, inputs) ==
  [program : programs, reg : regs, mem : cells, input : [Channels -> inputs]]

I(op, rd, rs1, rs2, imm) == [op |-> op, rd |-> rd, rs1 |-> rs1, rs2 |-> rs2, imm |-> imm]
Nop == I("addi", 0, 0, 0, 0)
Clear == [w \in DATA |-> 0]
=============================================================================
