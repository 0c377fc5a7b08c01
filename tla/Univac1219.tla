----------------------------- MODULE Univac1219 -----------------------------
(***************************************************************************)
(* The arithmetic of the UNIVAC 1219 that the RISC-V emulator is written    *)
(* against.  The machine itself is not in the repository; its instructions  *)
(* are described by the editor support (instructionData.ts) and its         *)
(* arithmetic is fixed by how the emulator uses it (the compensating        *)
(* SUBA CONST_1 after every ADDA) and by asm/diagnostic/snapshot.txt.       *)
(*                                                                         *)
(* Everything is parameterised by the width of a byte.  The real machine    *)
(* has BYTEBITS = 8: 18-bit words, 14 bits of a RISC-V register in the      *)
(* upper word, 16 bits of RISC-V memory per word.  BYTEBITS = 2 and 4 are   *)
(* the same machine with 6- and 10-bit words, on which TLC can enumerate.   *)
(* The accumulator A is the pair <<AU, AL>>.                                *)
(***************************************************************************)
EXTENDS Integers

CONSTANT BYTEBITS

ASSUME BYTEBITSAssumption == BYTEBITS \in {2, 4, 8}

BYTE  == 2^BYTEBITS               \* 256
HALF  == BYTE * BYTE              \* 2^16, the part of a word that holds RISC-V memory
WORD  == 4 * HALF                 \* 2^18
HIMOD == HALF \div 4              \* 2^14, the part of REG_i_HI that is in use
WBITS == 2 * BYTEBITS + 2         \* 18
XLEN  == 4 * BYTEBITS             \* 32

Word   == 0 .. WORD - 1
RegVal == (0 .. HIMOD - 1) \X Word     \* <<REG_i_HI, REG_i_LO>>

Zero == <<0, 0>>
One  == <<0, 1>>                       \* the double word CONST_1, CONST_0

(* The double word with the value of the 36 low bits of x, and back. *)
Pair(x) == <<(x \div WORD) % WORD, x % WORD>>
Full(a) == a[1] * WORD + a[2]

Neg(w)       == w >= WORD \div 2       \* JPAUNG, JPALNG: bit 17
SignWord(w)  == IF Neg(w) THEN WORD - 1 ELSE 0

(* Bit k is given by its weight. *)
BitSet(w, weight) == (w \div weight) % 2 = 1

Assemble(On(_)) ==
  LET d(weight) == IF On(weight) THEN weight ELSE 0
  IN  d(1) + d(2) + d(4) + d(8) + d(16) + d(32) + d(64) + d(128) + d(256)
      + d(512) + d(1024) + d(2048) + d(4096) + d(8192) + d(16384)
      + d(32768) + d(65536) + d(131072)

SLCL(a, m)  == Assemble(LAMBDA k : BitSet(a, k) /\ BitSet(m, k))
SLSET(a, m) == Assemble(LAMBDA k : BitSet(a, k) \/ BitSet(m, k))
SLCP(a, m)  == Assemble(LAMBDA k : ~(BitSet(a, k) <=> BitSet(m, k)))

(* ADDA leaves A + M + 1: an end-around carry that is always taken. *)
ADDA(a, m) ==
  LET low == a[2] + m[2] + 1
  IN  <<(a[1] + m[1] + low \div WORD) % WORD, low % WORD>>

SUBA(a, m) ==
  LET low == a[2] - m[2]
  IN  <<(a[1] - m[1] + low \div WORD) % WORD, low % WORD>>

(* One's-complement addition by a subtractive adder: 0 + -0 is +0. *)
ADDAL(a, m) == IF a + m < WORD - 1 THEN a + m ELSE a + m - (WORD - 1)
MinusOnes(k) == WORD - 1 - k             \* the constant -k of ENTALK, ADDALK

(* Sign-magnitude product of two one's-complement words. *)
MULAL(a, m) ==
  LET Mag(w) == IF Neg(w) THEN WORD - 1 - w ELSE w
      p == Pair(Mag(a) * Mag(m))
  IN  IF Neg(a) = Neg(m) THEN p ELSE <<WORD - 1 - p[1], WORD - 1 - p[2]>>

(* Right shifts are arithmetic, left shifts circular. *)
RSHAL(w, n) == ((w - (IF Neg(w) THEN WORD ELSE 0)) \div 2^n) % WORD
LSHAL(w, n) == ((w % 2^(WBITS - n)) * 2^n + w \div 2^(WBITS - n)) % WORD
RSHA(a, n)  == Pair((Full(a) - (IF Neg(a[1]) THEN WORD * WORD ELSE 0)) \div 2^n)
LSHA(a, n)  == Pair((Full(a) % 2^(2 * WBITS - n)) * 2^n + Full(a) \div 2^(2 * WBITS - n))
=============================================================================
