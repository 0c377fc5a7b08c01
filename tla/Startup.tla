------------------------------ MODULE Startup ------------------------------
(***************************************************************************)
(* The C runtime's view of the system calls: _start_c clears .bss with       *)
(* MEMCLEAR before main (toolchain/start.c), putc and getc name a channel    *)
(* (toolchain/syscalls.c).                                                  *)
(***************************************************************************)
EXTENDS RiscvEmu

ImageByte(m, a) == (m[a \div 2] \div BYTE^(a % 2)) % BYTE
ImageBytes == {2 * w : w \in DATA} \cup {2 * w + 1 : w \in DATA}

bss_start == reg[A0][2]
bss_end   == reg[A1][2]
(* linker.ld aligns it to four bytes; a word holds two.                       *)
BssAligned == MemClearCalled => bss_start % 2 = 0

(* _start_c leaves every byte of .bss zero and .data, below it, as loaded     *)
(* (start.c:8); with an end before its start nothing says what happens.      *)
BssZeroed ==
  [][ECALL_MEMCLEAR =>
       \A a \in ImageBytes : /\ a \in bss_start .. bss_end - 1 => ImageByte(mem', a) = 0
                             /\ a < bss_start => ImageByte(mem', a) = ImageByte(mem, a)]_vars

(* linker.ld:20: the section .noinit, which starts at __bss_end, is "NOT      *)
(* zeroed at startup".                                                       *)
NoinitKept ==
  [][ECALL_MEMCLEAR => \A a \in ImageBytes : a >= bss_end => ImageByte(mem', a) = ImageByte(mem, a)]_vars

PrintedOn(c) ==
  LET OnC(p) == p[1] = c
  IN  [k \in 1 .. Len(SelectSeq(output, OnC)) |-> SelectSeq(output, OnC)[k][2]]
=============================================================================
