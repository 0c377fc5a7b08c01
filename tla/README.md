# RISC-V on the UNIVAC 1219: a TLA+ model

The repository runs 32-bit RISC-V programs on the UNIVAC 1219, an 18-bit
one's-complement computer of the 1960s. A RISC-V interpreter of 1,600 lines of
UNIVAC assembly (`asm/riscv-emu`) executes programs that an OCaml tool encodes
as pairs of 18-bit words; a second emulator in OCaml (`tools/lib/emu.ml`) is the
reference the assembly is fuzzed against. What is run this way are the C programs
under `c/`: two network servers, a BASIC interpreter, a database, an OCaml
program compiled to C with its run-time system, an Enigma and its cracker, and
half a dozen games. Paths in this file are relative to `src/`.

These modules state and check that the interpreter is the reference emulator,
that the channels it drives look like calls, and that the programs keep what
they, their help texts or the rules of their games promise. What the core relies
on, and what matters most in the servers and the games that the provers reach, is
proved for every size.

## Inventory

| Component | State | Operations | What makes it correct |
|---|---|---|---|
| RISC-V emulator (`asm/riscv-emu`) | 32 registers as word pairs, `PC_OFFSET`, the image at `RISCV_PROGRAM`, scratch words, I/O instructions it rewrites | 42 handlers of `OPCODE_TABLE`, 5 of `SYSCALL_TABLE`, the fetch loop | each step is the reference emulator's step; a register never exceeds 32 bits, a cell 16 |
| Character I/O (`11-syscall`) and channels | two one-word buffers shared by all channels, the activity of each channel | GETCHAR, PUTCHAR as polling handlers; channels transfer words concurrently | calls look atomic; nothing lost, repeated or crossed; every call that can be served returns |
| MEMCLEAR loop (`11-syscall`) | index register B, the image | CLB, BSK | clears its range and ends |
| Instruction encoding (`univac_encoding.ml`, `instruction.ml`, `02-decode`) | none | encode, decode, the field extraction of the fetch loop | the handler that runs is the one that was encoded, with its operands |
| Reference emulator (`emu.ml`) | registers, pc, memory | execute_instruction | it is the specification |
| C runtime startup (`toolchain`) | `.bss` bounds, the I/O channel | `_start`, putc, getc, exit, time | what C promises of initial storage and of streams |
| Web server (`c/webserver`) | IPCP state, table of connections | PPP receiver; LCP, IPCP, SYN, data, FIN branches of one loop | frames in order; an entry per port with the number its client expects; every request answered |
| Minecraft server (`c/minecraft`) | table of connections, one reassembly buffer | the same loop, with a packet parser over the stream | answers follow the packets however the stream is cut; a login gets in |
| BASIC (`c/basic`) | line array, code, jump stacks, variables, value stack | line editor, compiler of a line, stack machine | a program prints what its lines say; the array is a table |
| SQLSteel (`c/sqlsteel`) | slots of rows, their count | tokens, WHERE, LIKE, quicksort, four statements | the rows selected and changed are those the statement names |
| Oregon Trail (`c/oregon-trail`) | supplies, mileage, injuries | a turn from decision to decision | nobody travels on who owes, starves or is late |
| UniJack (`c/unijack`) | shoe, hands, chips | bet, deal, hit, stand, pay | pays what the rules give |
| BBC baseball (`c/baseball`) | line-ups, bases, score | plays, steals, innings | every batter is out, home or on a base |
| Battleship (`c/battleship`) | two boards, two fleets, the engine's three lists | place, fire, hunt, target | no square twice; board and fleet agree |
| OCaml sudoku (`c/ocaml-sudoku`) | heap, root stack; the board | allocate, mark, compact, apply; read, solve, print | values survive collections; what is printed is the solution |
| Unigma, Bahlsen (`c/unigma`, `c/bahlsen`) | rotor positions, plugboard; candidate settings | encipher, set up; crack | reading undoes writing; what is found contains the crib |
| Wordle (`c/wordle`) | answer, guesses, alphabet | search, mark, play | marks by the rules |
| Parser, tracer, lithium, test drivers, tape, assembly programs, editors, ELIZA, CHAT, smolnes, cryptography, small demonstrations | | | see "Not modelled" |

**Interaction.** The toolchain links a C program to address 0, `parser.ml` turns
its text into instructions, `univac_encoding.ml` encodes each as two words, the
data follow two bytes to a word, and the result is assembled behind
`RISCV_PROGRAM`. `MAIN` clears `PC_OFFSET` and enters `FETCH_LOOP`, which extracts
register offsets and jumps through `OPCODE_TABLE`. A handler ends in one of five
routines: `STORE_RESULT` (masks the upper word), `STORE_RESULT_PREMASKED`,
`STORE_RESULT_LOWER`, `NEXT_INSTRUCTION`, `BRANCH_TAKE`. ECALL jumps through
`SYSCALL_TABLE`; the character calls start channel transfers that run beside the
processor and poll for their end. A program meets the world only by these
characters: the servers speak PPP over them, the others a terminal's lines. One
tape holds one program; programs never meet, except that Bahlsen reads what
Unigma wrote.

**What is hard.** In the emulator it is the data path: 32-bit two's-complement
values in 36 bits, an adder that adds one too much, two zeros in every address
computation, circular shifts, unaligned accesses through shared scratch words,
products put together from 18-bit halves. Concurrency is confined to the channels
and to the peers of the servers, who send again, vanish, and cut streams anywhere.
In the programs it is long sequences over state kept twice: tables whose
entries move when one goes, lists that must stay disjoint, jumps patched when a
block ends, pointers that a collection moves, rows in reused slots.
`PROJECT.json` lists each hazard at its line with the properties that would catch
it.

## Modules

The emulator:

| Module | Models | Correspondence |
|---|---|---|
| `Univac1219` | the machine's arithmetic, external | one operator per instruction the emulator uses |
| `Rv32` | `instruction.ml`, `univac_encoding.ml` | instructions as records; `Encode` gives the fields handlers see |
| `Emu` | `emu.ml` | the abstract specification: registers and bytes, an action per kind of instruction |
| `RiscvEmu` | `asm/riscv-emu` | one action per handler, including its closing routine and the next fetch |
| `RiscvEmuRefinement` | | the mapping from `RiscvEmu` to `Emu`: a register pair is the number it holds, an image offset half a byte address |
| `RiscvEmuProofs` | | what the machine's operations compute, as integers; the register invariant of `RiscvEmu`; what startup clears |
| `RiscvEmuRefinementProofs` | | `RiscvEmu` implements `Emu`: a lemma per handler |
| `Encoding`, `EncodingProofs` | encode, decode, `FETCH_LOOP` | the two words of an instruction at the real width; the theorems |
| `CharCalls` | | the abstract specification of GETCHAR and PUTCHAR |
| `ChannelIO`, `ChannelIOProofs` | `ECALL_GETCHAR`, `ECALL_PUTCHAR` | one action per I/O instruction, one per channel event; the theorems |
| `MemClear`, `MemClearProofs` | `ECALL_MEMCLEAR` | one action per instruction of the loop; the theorems |
| `Startup` | `start.c`, `linker.ld` | what C expects of MEMCLEAR and the channels, stated of `RiscvEmu` |

The programs:

| Module | Models | Correspondence |
|---|---|---|
| `PppLink` | `ppp_recv`, `ppp_send`, `ppp_fcs` | the receiver byte by byte, its position in the C function as `mode` |
| `Webserver`, `WebserverProofs` | `main` of `c/webserver` | one action per branch of the loop; `conns` is the array up to `num_conns`; peer and TCP clients external |
| `Minecraft` | `main` of `c/minecraft` | a labelled step per segment and per packet taken out of the buffer; contents of packets as lengths |
| `Packets` | `varint_*`, `checksum` | recursive operators over bytes at their real width |
| `Basic` | the compiler and the machine of `c/basic` | a step per compiled line and per instruction; cells, jump stack and value stack as in C |
| `BasicMeaning` | | the abstract specification of RUN: an interpreter of the lines themselves |
| `BasicLines`, `LineTable`, `BasicLinesProofs` | `store_line`, `cmd_list` | the shifting array; the abstract table of texts it implements; the theorems |
| `Sqlsteel` | tokens, WHERE scan, LIKE, quicksort, statements | one action per statement, the loops as folds and recursion over words |
| `SqlMeaning` | | what the help text says a statement selects and changes |
| `Oregon`, `Unijack`, `Baseball`, `Battleship`, `Wordle` | the games | one action per decision of the player or draw; random numbers are choices |
| `CamlHeap` | the run-time system of `c/ocaml-sudoku` | blocks in words, marking and compaction, closures, strings; a ghost value beside every slot |
| `Sudoku` | the compiled program there | a step per call and return of the backtracking |
| `Games`, `GamesProofs` | | `Battleship`, `Baseball`, `Oregon` and `Sudoku` as instances that share one state, the tape saying which of them runs; the theorems |
| `Unigma`, `Bahlsen` | `c/unigma`, `c/bahlsen` | a step per prompt and line; a step per candidate; `Bahlsen` reads what an instance of `Unigma` writes |

Instances for TLC: `MCRiscv`, `MCRiscvProg`, `MCRiscvWide`, `MCStartup`,
`MCChannelIO`, `MCNetwork` (the web server, extended by the other programs of the
serial line), `MCSoftware` (the encoder and `Games`, extended by the other tapes) with
`BasicPrograms` (the BASIC programs it runs). In the last two one program runs and the others keep their initial state, as a machine runs one tape at a time; `Games` and
`MCSoftware` keep the state of most programs in one variable `app`, a record whose fields
are the program's.

Definitions whose names end in a suffix such as `_NoMask` are mutants, marked
"Mutant": each is one plausible bug that the property named in `PROJECT.json` must
catch when it replaces the definition that follows it.

**Abstractions.**
- *Width.* `BYTEBITS` scales the whole machine. At 8 it is the real one: 18-bit
  words, 14+18-bit registers, 16 bits of memory to a word. At 2 and 4 the same
  definitions describe a machine with 6- and 10-bit words whose registers have 8
  and 16 bits, small enough to enumerate. Masks, sign bits and shift counts are
  the code's constants written in terms of the width; only the split of an upper
  immediate (`IMMBITS`) is chosen anew.
- *Atomicity.* A pass of the fetch loop is one step. No interrupt is enabled
  (`SIL 0`) and nothing but a channel runs beside the emulator; the two places
  where this hides something, the channel transfers and the MEMCLEAR loop, have
  modules of their own. Scratch words are therefore not state. Self-modified
  instructions are modelled where staleness could matter, in `ChannelIO`. The C
  programs are sequential: a step is what happens between two inputs, or less
  where a property looks inside (a BASIC instruction, a call of the solver).
- *Program and data.* `program` never changes, `DATA` are the other offsets. A jump
  out of the program, an access out of the data and a system call beyond the table
  lead to the status `undefined`, where the real machine would execute or overwrite
  whatever is there and the reference emulator raises an exception.
- *Boots.* `MAIN` clears nothing but `PC_OFFSET`, so a run starts from any register
  file and memory an earlier run may have left.
- *Outside the comparison.* At the end of standard input the reference emulator
  returns -1 where the machine waits; the instances do not read past the end, or
  treat it as waiting. TIME reads the real-time clock (any word in `CLOCK`) where
  the reference returns 0. AUIPC is compared for immediates below `WORD`, as in
  `tools/test/test_univac.ml`; the run `auipc` has the others. The division
  instructions have opcode numbers but no handlers; the toolchain compiles for
  `zmmul`.
- *Texts.* Words, names and keywords are model values or small numbers; BASIC lines
  are syntax trees; of a random draw only what the code distinguishes is chosen.

## Runs

| Run | Question | Bounds, and why they are enough |
|---|---|---|
| `programs` | Does every handler compute what the reference computes, and keep the invariant? (`ImplementsOracle`, `TypeOK`) | 8-bit registers; every register instruction twice (so that it runs on its own result) on all pairs of boundary operands, all immediates and shift counts; every byte address across both ends of a four-word image and every alignment; jumps to every slot, to address 0 and out of the program; all 17^3 programs over a repertoire mixing arithmetic, shifts, jumps, memory and calls |
| `wide` | The same where an immediate does not fit one word (`ImplementsOracle`) | 16-bit registers, boundary operands, all of LUI. Products exceed TLC's integers here and are left to `programs` |
| `auipc` | Does AUIPC add its whole immediate? (`AuipcAddsImmediate`, violated) | 16-bit registers, every immediate |
| `startup` | Does MEMCLEAR give C its zeroed `.bss` (`BssZeroed`)? Do channels stay apart (`Echoed`)? | every layout of `.bss` in an eight-word image, empty to overrunning; four channels, numbers on both sides of every wrap; stop key off, so that EXIT falls through |
| `noinit` | Is `.noinit` left alone? (`NoinitKept`, violated) | as `startup`, stop key on |
| `channels` | Are the polled calls atomic calls (`ImplementsCalls`, `ChannelsQuiet`, `BufferStable`, `TypeOK`), and answered (`Answered`)? | two channels, all scripts of up to three calls: a call, a second one that could find leftovers, a third that shows them; lines of up to two words |
| `memclear` | Does the loop clear its range, end, and stay inside? (`Correct`, `Terminates`, `TypeOK`) | all images of six words, all ends |
| `network` | Frames arrive in order (`FramesInOrder`); negotiation opens (`Opens`); the web server's table agrees with its clients (`TablesAgree`, `OthersKept`) and answers (`WebAnswered`); the game server's answers follow the packets (`AnswersFollowPackets`) and logins get in (`Joins`); packet arithmetic (`DecodesWhenWhole`, `SumsToZero`) | payloads of flags, escapes and control bytes, three frames, shared flags; two web clients with two connections each, one repetition, one NAK, against a table of two, in which entries move, and of one, which is full; a status session and two logins cut into segments of up to three units in a buffer of four; variable-length integers on both sides of every boundary, packets of up to six bytes of 0, 1, 255 |
| `finacked` | Is every FIN answered? (`FinAnswered`, violated) | as the web part of `network`, FIN segments without options |
| `software` | The other tapes, each on small data, and the encoder | below |
| `dealer` | Does the dealer's blackjack win? (`DealerBlackjackWins`, violated) | the table of `software` |
| `help` | Do INSERT and UPDATE store the numbers they are given? (`ValuesKept`, violated) | the rows and statements of `software` |

`programs` and `wide` check `ImplementsOracle`, the refinement of `Emu`: destination
value, next pc, bytes of memory and characters agree after every instruction.
`TypeOK` is there the invariant of `01-common.univac:43` together with its
consequence for memory: LHU, LH and LW do not mask the cell they read, so no store
may leave a bit above the sixteenth. `channels` checks the refinement of `CharCalls`
with its liveness, `software` that of `LineTable`.

`software` checks, of each tape:
- encoder: `RoundTrip` (decode undoes encode) and `FetchMeetsHandler` (the fetch loop's
  fields reach the handler the encoder meant), at real width, every operation at the
  ends of every field;
- `Faithful` (RUN prints what the lines say), `Balanced` (it leaves nothing on its stacks),
  `Refused` (what is nested wrong is not run): every program of eight lines of branches and
  six of loops, families with nested blocks, recursion with locals, RETURN out of loops,
  errors on any line. `FUEL` bounds the interpreter's recursion; every program of the suites
  that halts without overflow has enough of it, and one that has not is compared as far as
  it went;
- `ImplementsTable` (the line array is a table): four line numbers in an array of three;
- `Selected`, `Applied`: three rows in a table with room for four, one of them with a
  decimal weight and a symbol with a lower-case letter, two statements in
  sequence, so that a slot is freed and used again; numbers and texts of both kinds in
  conditions and values, and statements with too many words or OR's, of which only the
  invariants of the table are asked;
- `Decided`: a trail of two turns, on one everything that can happen does, on the other
  the mountains are crossed;
- `Fair`: a shoe with two aces, so that both may have a blackjack, low cards and tens, wagers around
  the chips, two rounds;
- `Accounted`: two teams of two, one name twice, a half inning of four batters, with every play from
  every state of the bases it meets;
- `Unspent`, `Boards`: nine squares, a ship of two and one of one, shots on and off the
  board, every choice of the engine's generator;
- `Survives`: a heap of a few blocks, where collections and both ways of running out
  happen within four operations, concatenations among them;
- `Solved`: boards of four by four, solvable, unsolvable and contradictory;
- `Reciprocal`, `Cracked`: an alphabet of four, three rotors with all their steps, case and
  plugboard errors, texts longer than a line, cribs that occur and that do not;
- `Marked`: words of four of three letters, with every repetition that makes marks hard.

**Deadlock** is not checked in any run: programs stop, games end, and peers say nothing
more when they have said all.

**Fairness.** `ChannelIO` assumes weak fairness of the processor and of each channel:
the processor is never stopped by anything in the model, and a device that is ready
completes a transfer. A device with nothing to send has no step, and `Answered` allows
the program to wait for it. `MemClear` assumes weak fairness of the processor.
`Webserver` and `Minecraft` assume that the server's loop runs on (it does not return),
that the peer takes what arrives, and that a client with an open connection goes on to
use it: the environment's part, without which nothing is owed. Connecting, giving up
and repeating are never forced. `PppLink` states fairness for its receiver; no liveness
property uses it, and `MCNetwork` leaves it out. The emulator and the other programs
have none; nothing about termination of a user's program is claimed.

## Findings

- `noinit`: the BSK loop compares after clearing, so MEMCLEAR also clears the word at
  `__bss_end`, where `linker.ld` places `.noinit`, "NOT zeroed at startup". The reference
  emulator stops before it. With an empty `.bss` the word is cleared all the same.
- `auipc`: the comment above OP_AUIPC says `dest = PC + (immediate << 12)`, but the handler
  reads word 2 only; the immediate's upper two bits are in the src1 field of word 1, where
  OP_LUI takes them from. The result lacks them in bits 30 and 31. The fuzz test masks
  them off.
- `finacked`: the server's loop takes packets with `len > 40`, and a FIN without TCP options
  is exactly 40 bytes long. It is dropped, its client waits for ever, and its entry
  stays in the table, although `main.c:259` says "FIN -> FIN-ACK".
- `dealer`: `compare_hands` (`c/unijack/main.c:280`, "Resolve one blackjack") raises a BUST to
  LOOSE but does not lower a WIN, so a player who stands on twenty is paid although the
  dealer has a blackjack.
- `help`: `tokenize_sql` ends a number at its point and skips the point, so that the help's
  `INSERT ... VALUES ('UNOBTAINIUM', 'Un', 999.9, 'SYNTHETIC')` (`sqlsteel.c:37`) stores the
  weight 999 and the series '9', and its `SET ATOMIC_WEIGHT = 12.011` (39) stores 12.

**Behaviour that no sentence of the repository contradicts**, that a property names as its
limit, or that contradicts only a comment, which is then quoted; each is in the model as the code has it:
- SQL: a WHERE clause is scanned once with three flags. `A OR B OR C` forgets B, and
  `A OR B AND C` is B AND C; tokens beyond `MAX_TOKENS` are dropped; decimals in an IN list
  or a BETWEEN are values, or an error, of their own. `Selected` and `Applied` are stated for
  clauses without these (`Plainly`). A text in a condition is put in capitals, the rows are
  not (`query.c:65`): `WHERE SYMBOL = 'He'` finds nothing, and no condition but a pattern
  finds helium by its symbol. A number in a condition loses its decimals. The two
  properties take a literal for what it is after that, and say so.
- Baseball: a double play forgets the runners of second and third (`baseball.c:580`), a
  triple play the one of third (585), the steal of an occupied second (639, against
  `manual.txt:211`) the one there; a fielder's choice (590) leaves as many runners as
  there were unless one was on third. `Accounted` counts them one by one. Both teams share `current_batter`; players with the same number cannot be told
  apart; `manual.txt:120`'s last names are not found.
- Unijack drops the twenty-second card of a hand. Oregon's sixteenth event never comes.
- Battleship: `is_targeting` is set only when the human hits the engine's ship (`ai_engine.c:196`),
  not by a hit of the engine, though the comment at 112 reads "fire at squares adjacent to hit"; on the
  first turn `encode_coord` reads a column nobody set (any value in the model); `is_touching`
  looks left and right only; a shot off the board is a miss.
- OCaml run-time: `caml_string_concat` (`main.c:389`) keeps two pointers across an allocation
  that may collect; the characters are then read where the strings were. `Survives` leaves
  these steps out, the model marks them `moved`. The `s_` pointers stay valid only because
  their blocks are the first of the heap and rooted.
- Sudoku takes every line for exactly `N` digits.
- Unigma stores positions typed in lower case unconverted, beyond 25 (`main.c:400`, against
  the comments at 389 and `unigma.h:41`; `Reciprocal` holds all the same); the right rotor III
  has rotor I's notch (`unigma.h:38`); every 1023rd character of a long line is lost.
- Bahlsen: what is left of an overlong cipher line becomes the crib.
- BASIC: CALL_ and RV_ push without looking for the end of the stack (`main.c:157`); a second
  ELSE is accepted and patches cell 0 of the program (`Refused` names it).
- Web server: a client for which the table has no room gets its answer, but the FIN-ACK
  repeats the sequence number of the start, so it never takes it; clients that vanish
  keep the table full. `WebAnswered` asks for the request of every client and the FIN of
  those in the table.
- Minecraft: a segment that does not fit the buffer is dropped after it was acknowledged.

## Proofs

Each theorem holds for every value of the constants that its assumptions admit.

**`RiscvEmuProofs!RegisterInvariant`**: `Spec => []TypeOK`, for every width in {2, 4, 8}, every
number of registers up to 32, every program, memory, input, boot state and clock. It
assumes `BYTEBITSAssumption`, `RegsAssumption` and `BootsAssumption`: boots hold
well-formed instructions, registers within 32 bits, x0 = 0 and 16-bit cells. TypeOK is
inductive as it stands, because the handlers rely on exactly it: `STORE_RESULT` restores
it by masking; the premasked routine receives values that are masked already, which is
the content of the lemmas about bitwise operations (`SlclType` ...: an operation on words
below a power of two stays below it), right shifts (`RshaReg`), shift masks
(`ShiftMaskType`), sign extension, upper immediates (`UpperImmediate`, from the range of
the encoded word) and words put together from two cells (`CellUp`); stores keep cells at
16 bits (`StoreByte`, `StoreHalfword`), without which `LoadHalfword` would not hold.
`EncodeType` gives handlers the ranges of the fields. There is one lemma per group of
handlers, and the step theorem cites them.

**`RiscvEmuRefinementProofs!EmulatorImplementsOracle`**: `Spec /\ []CallComparable =>
ImplementsOracle`, for every width (the real machine's 18-bit words among them, where TLC
reaches 6 and 10 bits, and multiplications at 6 only), number of registers, program,
operand, memory image and input. Every handler's step is a step of `tools/lib/emu.ml`: the
same value for the destination, the same bytes of memory, the same next pc, the same
character read or printed; an access or jump that leaves the image on one side leaves it
on the other. The two are not the same for every program, and the theorem says for
which they are, in three definitions of `RiscvEmuRefinement`:
- `ComparablePrograms`, assumed of `BOOTS`: fewer instructions than cells of memory (an
  instruction takes two words of the tape), even jump offsets (`parser.ml:80`, `97` shift
  the lowest bit in as zero, the encoding drops it), AUIPC immediates of one word (the finding
  `auipc`, and the mask of `test_univac.ml:9`). The run `programs` evaluates it as
  `ComparableAssumption`.
- `CallComparable`, of the states in which a system call is made: its number is in the
  lower word of a7 alone, the only one the jump table looks at; GETCHAR reads channel 0;
  EXIT finds the stop key set; a clock for TIME reads 0. The reference emulator knows no
  second channel, no clock, no machine that runs on after its stop.
- `ClearComparable`: the end of a memclear lies two or three bytes beyond a multiple of
  four from its start, so that clearing words up to and including the last, and clearing
  four bytes at a time up to the end, touch the same bytes; with an end aligned to four
  bytes the UNIVAC clears a word more (the finding `noinit`).

Reading at the end of the input is not in the comparison: there the UNIVAC waits, which
is a stuttering step. The argument is a lemma per handler (`AddMatch` ... `MulhMatch`,
`BadSyscallMatch`), each from the values of what the handler is made of: `FullOfPlus`,
`FullOfSuba` (the 36-bit accumulator modulo its width; the bits above a register are
dropped by `ModAccumulator`), `HalfwiseMatch` (bitwise operations on 14+18 bits are those
on 16+16), `ShiftLeftValue`, `ShiftArithmeticValue`, `SignedLessValue` and
`UnsignedLessValue` (the sign left in bit 35 or 34), `JumpBack` and `GotoOffset` (offsets in
one's complement words), `WordOfHalves`, `StoreMatch` (bytes of unaligned words),
`ProductOfHalves`, `UpperProductValue` and `SignedTimes` (the carries of the schoolbook
product and what a negative operand takes off). `RegisterInvariant` is the invariant it
rests on: without it `STORE_RESULT_PREMASKED` would leave a value the mapping does not
give back. `StepMatch` and `StutterMatch` put the steps together, `InitMatch` the boots.

**`EncodingProofs!InstructionsSurvive`, `HandlersMeetEncoding`**: `RoundTrip` and
`FetchMeetsHandler` at the real width for any set of instructions (`InsnAssumption`: the
fields an instruction's type in `instruction.ml` has not are 0), where the run takes the
immediates at their edges. Neither property is inductive: they
speak of the end of the tape's way. `EInv` adds that from the first step on the two words
are what `encode` writes for the instruction (`OnTape`); the lemmas `DecodeEncode` and
`FetchEncode` say what decoding and fetching those words gives.

**The first half of `RiscvEmuProofs`** is the arithmetic both emulator proofs stand on.
Quotients and remainders by symbolic moduli (`Quotient`, `ModShift`, `ModAdd`, `Nested`),
powers of two up to the width, the value of each accumulator operation, and the bits of
`Assemble`, all for the three widths at once.

**`RiscvEmuProofs!StartupClears`**: `Spec /\ []BssAligned => BssZeroed`. For an image of any size
and a `.bss` of any length, `_start_c` finds every byte of `.bss` zero and every byte below it as
loaded. `BssAligned` says that `.bss` starts at an even address, which `linker.ld` asks for
by `ALIGN(4)`; where it ends is free, so that the theorem speaks of the very layouts for
which `noinit` shows a word too much cleared. An address is a register pair and MEMCLEAR
wants offsets in words: `HalvedInImage` gives the offset of an address inside the image.
Of the state only `TypeOK` is needed: cells hold 16 bits.

**`MemClearProofs!MemClearCorrect`, `MemClearTypes`**: `Correct` and `TypeOK` for an image of any
size. `Correct` alone is not inductive: after the last word nothing relates B to
`MC_END`. `IInv` adds `Bounded`: B lies between the ends until it passes `MC_END`, which it
does only when it started beyond.

**`ChannelIOProofs`**, for any channels, scripts and lines (`ScriptsAssumption`,
`LinesAssumption`: scripts of calls, lines of words): `ChannelTypes` (`TypeOK`), `Quietness`
(`ChannelsQuiet`), `BufferKept` (`BufferStable`) and `AtomicCalls`, the safety part of
`ImplementsCalls`: initial states map to initial states of `CharCalls`, and every step to
one of its calls or to none. Quietness is not inductive: that nothing is left active
after a call follows from what may be active at each instruction within it. `IInv` says
that (`Busy`: at most the one activity the handler has started and not yet seen end,
on the channel of its operand) and which operands the rewritten instructions hold
(`Handling`); with it a transfer is always that of the call in progress, which gives
the refinement.

**`WebserverProofs!EntriesKept`**: `OthersKept` for any ports, any table size and any lengths
(`ConstantsOK`: they are natural numbers). The removal in `Fin` moves the last entry
into the gap; that the moved one is found again, and no other lost, needs that no
port has two entries. This is the core of `IInv`, with the shape of the frames on the
line, from which the server takes the port. The lemmas `AppendKeeps`, `UpdateKeeps` and
`RemoveKeeps` say of tables what each of the server's three operations keeps.

**`WebserverProofs!NegotiationOpens`**: `Opens`, in the same generality. That the negotiation of
IP addresses never gets stuck before `ipcp_done` is not inductive: what keeps it alive is on
the line. `Negotiating` adds that until then a frame of the peer waits for the server, or
a request of the server for the peer (`Asked`, `Asks`), and `OthersWait` and `SendAsks` that
no frame of another protocol takes them off the line. `IpcpNegotiates` is the step that
could end it: a NAK answered without a new request would.

**`BasicLinesProofs!EditorIsTable`**: `ImplementsTable` as a whole, initial states and steps, for
any numbers, texts and any `MAXLINES`. The line typed (`lbuf`) and what is answered are
variables of both specifications: each line has exactly one outcome in `LineTable`, so a
dropped line or another number's text is neither a step of it nor a stutter. `IInv`: the array is sorted, so no number comes
twice, and has at most `MAXLINES` entries. The scan for the place of a line is right only
because of that (`PointParts`: it splits the array into the smaller numbers and the
others). `Inserted` and `Removed` say what the two shifting loops leave at each index,
`InsertStores`, `UpdateStores` and `RemoveDeletes` what that is as a table, and `ListStep` that
LIST, walking by index, shows the table's lines in order.

**`GamesProofs`** proves what `software` checks of four of its tapes, of `GameSpec`: whatever
program is loaded, with any data `GamesConstants` admits (TLC evaluates it on the run's).
- `NeverTwice`, `BoardsAgree` (`Unspent`, `Boards`), for a board of any size and any ships.
  `Battle` couples both: the engine's targets are the squares not fired at, its hunts and
  its stack lie among them, the stack without repetition (`Aimed`); the ships afloat are
  exactly the pieces on the board, disjoint and none empty (`Ships!Afloat`); and the phase
  agrees with the fleets. The fleets are what makes a target exist while the game goes on;
  without the stack's lack of repetition a square popped would leave a second copy behind
  that is no longer a target.
- `GameAccounts` (`Accounted`), for any rosters and any number of innings. Batters are
  counted when they come up and settled at the end of a play, so the books do not balance
  within one: `Owes` is the state of a play, one batter open; each play is a `With` of its
  outs, bases and runs that leaves nobody open (`HitDone` ... `WalkDone`), and `Runners` counts
  the runners that an advance leaves on base. The plays that forget or keep a runner
  do so by a number that depends on the bases (`lost`), shown exactly for each.
- `JourneysDecided` (`Decided`), for any purchases the money allows and journeys of any
  length. `Trek` adds the shape of the state and `cash` not below zero; within a turn
  supplies may be negative, so that every function of it is shown to keep only `Family` (the
  turn, the journey, whole numbers, no arrival), and `Validated`, `Paying` and `Begins` restore
  the rest at its end. That a family which is dead neither goes on nor arrives is the point
  of the case split in `Decides`.
- `SolverSolves` (`Solved`), for a board and boxes of any size that fit each other, and any
  digits typed, contradictory ones among them. `Search` describes a backtracking in
  progress (`Path`): the calls are for the empty squares in order (`InOrder`, `Reached`), the
  digits they put down clash with nothing before them (`Settled`), the other squares are
  as typed (`Untouched`), and every completion that comes before the digits of the calls
  has been excluded (`Exhausted`). When the first call runs out of digits, `Exhausted`
  says that there is none (`Back`); when the last square is passed, `Settled` says that the board
  is one (`Rules`, from the solver's test of pairs of squares to rows, columns and boxes).

**Only model-checked.** `TablesAgree`, `AnswersFollowPackets`, `FramesInOrder`, `DecodesWhenWhole`
and `SumsToZero`, which fold over the line or the bytes of a packet, so that their lemmas
are inductions over data; `Echoed`, which is about one program; all properties of BASIC's
compiler, SQL, the OCaml run-time system, Unigma and Bahlsen, Unijack and Wordle, whose
modules contain recursive operators. That the
bit operations of `Halfwise` are the integers' is an assumption TLC evaluates
(`BitsAssumption`, against the operators of `Bitwise`). Liveness (`Answered`, `Terminates`,
`WebAnswered`, `Joins`) is out of the provers' reach, and so is the fairness in
`ImplementsCalls`.

## Not modelled

- *Binary parser* (`parser.ml`): a stateless extraction of bit fields; a model would be the
  same table written again. What its result means is `Rv32` and `Emu`.
- *Tracer*: it executes copies of the traced program's own instruction words, so a model
  needs an interpreter of UNIVAC words; the instruction set is in submodules that are not
  part of the tree.
- *Lithium, test generation, drivers, tape, templating, editors*: tooling that no running
  program depends on, without state of their own.
- *Hand-written assembly programs*: diagnostics of the hardware; what they print documents
  the arithmetic of `Univac1219`.
- *The machine itself*: external; only the arithmetic, the channels and the loop
  instructions that the emulator uses.
- *`_sbrk`* and the one-character substitutions of putc and getc; *`run_binary`* of `emu.ml`; the
  tape image around encoded instructions.
- *ELIZA and CHAT*: tables of sentences behind a keyword search. *smolnes* and the
  *cryptography*: third-party code. *Small demonstrations*: loops that print.
- Of BASIC: the lexer, RESUME, a block statement after THEN, numbers beyond 15 bits. Of the
  servers: a data segment lost or sent twice on the way to Minecraft (the line is lossless
  and its clients repeat a SYN only), header bytes, and the contents of game packets.

## Plan

Done: the emulator with its type theorem, the emulator and character I/O with their
refinements proved, MEMCLEAR, startup, the encoding with its theorems, the servers, BASIC with the
refinement of its line array proved, SQLSteel, the OCaml program with its solver proved,
Unigma with Bahlsen, and the games.

Next, in this order:
1. Proofs: `TablesAgree` of the web server and `FramesInOrder` of the PPP receiver, once what
   they fold over is stated position by position; `Applied` of SQLSteel and `Fair` of UniJack
   likewise.
2. RESUME and error traps of BASIC; ELIZA's reply counters, the one part of the
   conversation programs that lives longer than a line.
3. The tracer, once a description of the instruction set is part of the tree.
