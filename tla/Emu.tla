--------------------------------- MODULE Emu ---------------------------------
(***************************************************************************)
(* The reference emulator, tools/lib/emu.ml: what a RISC-V program does.     *)
(* Registers hold XLEN-bit values, memory holds bytes, one action executes  *)
(* one kind of instruction.  Control that leaves the program and accesses   *)
(* that leave the image raise an exception: status "fault".                 *)
(***************************************************************************)
EXTENDS Rv32, Sequences

CONSTANT DATA         \* the 16-bit cells of the image that are not program

VARIABLES program,    \* the instructions, a sequence that never changes
          registers,  \* state.registers
          pc,         \* state.pc, a byte address
          memory,     \* state.memory, outside the program
          status,     \* "run", "exited" or "fault"
          stdin,      \* bytes not yet read
          stdout      \* bytes printed

vars == <<program, registers, pc, memory, status, stdin, stdout>>

MODULUS == 2^XLEN
ByteAddresses == {2 * w : w \in DATA} \cup {2 * w + 1 : w \in DATA}

Mask(v)   == v % MODULUS
Extend(v, modulus) == IF v >= modulus \div 2 THEN v - modulus ELSE v
Signed(v) == Extend(v, MODULUS)

Insn == program[pc \div 4 + 1]
At(ops) == status = "run" /\ Insn.op \in ops

(* The instruction is followed by the fetch at target. *)
Goto(target) ==
  LET t == Mask(target)
  IN  IF t % 4 = 0 /\ t \div 4 < Len(program)
        THEN pc' = t /\ status' = "run"
        ELSE pc' = pc /\ status' = "fault"

Write(r, v) == registers' = [registers EXCEPT ![r] = IF r = 0 THEN @ ELSE Mask(v)]

V1 == Signed(registers[Insn.rs1])
V2 == Signed(registers[Insn.rs2])

(* The bits of a register value, as many at a time as a cell of memory has.  *)
Halfwise(Op(_, _), a, b) == Op(a % HALF, b % HALF) + HALF * Op(a \div HALF, b \div HALF)

BoolToInt(b) == IF b THEN 1 ELSE 0

(* The value of a register-register or register-immediate operation. *)
Compute(op, a, b) ==
  CASE op \in {"add", "addi"}   -> a + b
    [] op = "sub"               -> a - b
    [] op \in {"slt", "slti"}   -> BoolToInt(a < b)
    [] op \in {"sltu", "sltiu"} -> BoolToInt(Mask(a) < Mask(b))
    [] op \in {"and", "andi"}   -> Halfwise(SLCL, Mask(a), Mask(b))
    [] op \in {"or", "ori"}     -> Halfwise(SLSET, Mask(a), Mask(b))
    [] op \in {"xor", "xori"}   -> Halfwise(SLCP, Mask(a), Mask(b))
    [] op \in {"sll", "slli"}   -> Mask(a) * 2^(Mask(b) % XLEN)
    [] op \in {"srl", "srli"}   -> Mask(a) \div 2^(Mask(b) % XLEN)
    [] op \in {"sra", "srai"}   -> a \div 2^(Mask(b) % XLEN)
    [] op = "mul"               -> a * b
    [] op = "mulh"              -> (a * b) \div MODULUS
    [] op = "mulhsu"            -> (a * Mask(b)) \div MODULUS
    [] op = "mulhu"             -> (Mask(a) * Mask(b)) \div MODULUS

Condition(op, a, b) ==
  CASE op = "beq"  -> a = b
    [] op = "bne"  -> a # b
    [] op = "blt"  -> a < b
    [] op = "bge"  -> a >= b
    [] op = "bltu" -> Mask(a) < Mask(b)
    [] op = "bgeu" -> Mask(a) >= Mask(b)

RType ==
  /\ At(ROps)
  /\ Write(Insn.rd, Compute(Insn.op, V1, V2))
  /\ Goto(pc + 4)
  /\ UNCHANGED <<program, memory, stdin, stdout>>

IType ==
  /\ At((IOps \ {"jalr"}) \cup ShiftOps)
  /\ Write(Insn.rd, Compute(Insn.op, V1, Insn.imm))
  /\ Goto(pc + 4)
  /\ UNCHANGED <<program, memory, stdin, stdout>>

Lui ==
  /\ At({"lui"})
  /\ Write(Insn.rd, Insn.imm * 2^IMMBITS)
  /\ Goto(pc + 4)
  /\ UNCHANGED <<program, memory, stdin, stdout>>

Auipc ==
  /\ At({"auipc"})
  /\ Write(Insn.rd, pc + Insn.imm * 2^IMMBITS)
  /\ Goto(pc + 4)
  /\ UNCHANGED <<program, memory, stdin, stdout>>

Jal ==
  /\ At({"jal"})
  /\ Write(Insn.rd, pc + 4)
  /\ Goto(pc + Insn.imm)
  /\ UNCHANGED <<program, memory, stdin, stdout>>

(* The target is computed before the link register is written. *)
Jalr ==
  /\ At({"jalr"})
  /\ Write(Insn.rd, pc + 4)
  /\ LET target == registers[Insn.rs1] + Insn.imm IN Goto(target - (target % 2))
  /\ UNCHANGED <<program, memory, stdin, stdout>>

Branch ==
  /\ At(BranchOps)
  /\ Goto(IF Condition(Insn.op, V1, V2) THEN pc + Insn.imm ELSE pc + 4)
  /\ UNCHANGED <<program, registers, memory, stdin, stdout>>

Address == Mask(V1 + Insn.imm)
Width(op) == CASE op \in {"lb", "lbu", "sb"} -> 1
               [] op \in {"lh", "lhu", "sh"} -> 2
               [] op \in {"lw", "sw"}        -> 4
InImage(addr, width) == \A k \in 0 .. width - 1 : addr + k \in ByteAddresses

ByteAt(addr) == memory[addr]
U16(addr)    == ByteAt(addr) + BYTE * ByteAt(addr + 1)
U32(addr)    == U16(addr) + HALF * U16(addr + 2)

LoadValue(op, addr) ==
  CASE op = "lb"  -> Extend(ByteAt(addr), BYTE)
    [] op = "lbu" -> ByteAt(addr)
    [] op = "lh"  -> Extend(U16(addr), HALF)
    [] op = "lhu" -> U16(addr)
    [] op = "lw"  -> U32(addr)

Load ==
  /\ At(LoadOps)
  /\ InImage(Address, Width(Insn.op))
  /\ Write(Insn.rd, LoadValue(Insn.op, Address))
  /\ Goto(pc + 4)
  /\ UNCHANGED <<program, memory, stdin, stdout>>

Store ==
  /\ At(StoreOps)
  /\ InImage(Address, Width(Insn.op))
  /\ memory' = [a \in ByteAddresses |->
                  IF a \in Address .. Address + Width(Insn.op) - 1
                    THEN (registers[Insn.rs2] \div BYTE^(a - Address)) % BYTE
                    ELSE memory[a]]
  /\ Goto(pc + 4)
  /\ UNCHANGED <<program, registers, stdin, stdout>>

Raise == status' = "fault" /\ UNCHANGED <<program, registers, pc, memory, stdin, stdout>>

OutOfImage ==
  /\ At(LoadOps \cup StoreOps)
  /\ ~InImage(Address, Width(Insn.op))
  /\ Raise

Syscall(n) == At({"ecall"}) /\ Signed(registers[A7]) = n

Getc ==
  /\ Syscall(0)
  /\ IF stdin = <<>>
       THEN Write(A0, -1) /\ UNCHANGED stdin
       ELSE Write(A0, Head(stdin)) /\ stdin' = Tail(stdin)
  /\ Goto(pc + 4)
  /\ UNCHANGED <<program, memory, stdout>>

Putc ==
  /\ Syscall(1)
  /\ stdout' = Append(stdout, registers[A0] % BYTE)
  /\ Goto(pc + 4)
  /\ UNCHANGED <<program, registers, memory, stdin>>

Exit ==
  /\ Syscall(2)
  /\ status' = "exited"
  /\ UNCHANGED <<program, registers, pc, memory, stdin, stdout>>

(* Four bytes at a time from a0 up to, not including, a1. *)
Cleared ==
  {a + k : a \in {x \in registers[A0] .. registers[A1] - 1 : (x - registers[A0]) % 4 = 0},
           k \in 0 .. 3}

MemClear ==
  /\ Syscall(3)
  /\ Cleared \subseteq ByteAddresses
  /\ memory' = [a \in ByteAddresses |-> IF a \in Cleared THEN 0 ELSE memory[a]]
  /\ Goto(pc + 4)
  /\ UNCHANGED <<program, registers, stdin, stdout>>

Time ==
  /\ Syscall(4)
  /\ Write(A0, 0)
  /\ Goto(pc + 4)
  /\ UNCHANGED <<program, memory, stdin, stdout>>

BadSyscall ==
  /\ At({"ecall"})
  /\ \/ Signed(registers[A7]) \notin 0 .. 4
     \/ Syscall(3) /\ ~(Cleared \subseteq ByteAddresses)
  /\ Raise

(* create clears the registers and copies the image; a run of the UNIVAC is   *)
(* compared from any register file and memory an earlier run may have left.  *)
Init ==
  /\ program \in Seq(Instruction) \ {<<>>}
  /\ registers \in [Regs -> 0 .. MODULUS - 1]
  /\ registers[0] = 0
  /\ memory \in [ByteAddresses -> 0 .. BYTE - 1]
  /\ stdin \in Seq(0 .. BYTE - 1)
  /\ pc = 0
  /\ status = "run"
  /\ stdout = <<>>

Next ==
  \/ RType \/ IType \/ Lui \/ Auipc \/ Jal \/ Jalr \/ Branch \/ Load \/ Store \/ OutOfImage
  \/ Getc \/ Putc \/ Exit \/ MemClear \/ Time \/ BadSyscall

Spec == Init /\ [][Next]_vars
=============================================================================
