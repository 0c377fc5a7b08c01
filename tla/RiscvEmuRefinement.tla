------------------------- MODULE RiscvEmuRefinement -------------------------
(***************************************************************************)
(* The assembly emulator running the encoded program against the reference  *)
(* emulator running the program itself.                                     *)
(***************************************************************************)
EXTENDS RiscvEmu

Oracle == INSTANCE Emu WITH
  program   <- program,
  registers <- [r \in Regs |-> Full(reg[r])],
  pc        <- 2 * pc,
  memory    <- [a \in {2 * w : w \in DATA} \cup {2 * w + 1 : w \in DATA} |->
                  (mem[a \div 2] \div BYTE^(a % 2)) % BYTE],
  status    <- CASE status = "run" -> "run"
                 [] status = "stopped" -> "exited"
                 [] status = "undefined" -> "fault",
  stdin     <- input[0],
  stdout    <- [k \in DOMAIN output |-> output[k][2]]

(* Programs on which the two can agree: they fit a memory of HALF cells, with *)
(* the even jump offsets RISC-V encodes, and no AUIPC uses the two immediate  *)
(* bits its handler leaves out.                                              *)
ComparablePrograms ==
  \A b \in BOOTS :
    /\ Len(b.program) < HALF
    /\ \A k \in DOMAIN b.program :
         /\ b.program[k].op \in BranchOps \cup {"jal"} => b.program[k].imm % 2 = 0
         /\ b.program[k].op = "auipc" => b.program[k].imm < WORD

(* A memclear on which they can agree: the image is cleared by words of two   *)
(* bytes up to and including the last, by the reference emulator four bytes   *)
(* at a time up to, not including, the last.                                 *)
ClearComparable ==
  LET a == Full(reg[A0])
      b == Full(reg[A1])
  IN  a < b /\ b < WORD \div 2 /\ a % 2 = 0 /\ (b - a) % 4 \in {2, 3}

(* A system call on which they can agree: its number is in the lower word of  *)
(* a7 alone, and it asks for nothing the reference emulator does not know, a  *)
(* second channel to read, a clock, a machine that runs on after its stop.   *)
CallComparable ==
  Dispatch("ecall") => /\ reg[A7][2] \in 0 .. 4 => reg[A7][1] = 0
                       /\ reg[A7][2] = 0 => Channel(A0) = 0
                       /\ reg[A7][2] = 2 => STOPKEY
                       /\ reg[A7][2] = 3 => ClearComparable
                       /\ reg[A7][2] = 4 => CLOCK = {0}

(* Every step of the UNIVAC program is the step the reference emulator makes *)
(* on the same instruction: same destination value, same next pc, same bytes *)
(* of memory, same characters read and printed (the reference emulator knows *)
(* one channel, so the instances have NCHAN = 1).                            *)
ImplementsOracle == Oracle!Spec
=============================================================================
