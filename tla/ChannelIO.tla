------------------------------ MODULE ChannelIO ------------------------------
(***************************************************************************)
(* ECALL_GETCHAR and ECALL_PUTCHAR (asm/riscv-emu/11-syscall.univac) against *)
(* the input/output channels, which transfer words to and from memory while *)
(* the processor runs.  A handler writes the channel number into the four    *)
(* instructions it is about to execute, sends the device its mode (EXF),     *)
(* polls until that is taken (SKPFIN), starts a transfer of one word of     *)
(* memory (IN, OUT) and polls until it is over (SKPIIN, SKPOIN).             *)
(* A polling loop is a step that waits for the channel to be inactive.       *)
(***************************************************************************)
EXTENDS Naturals, Sequences

CONSTANTS Channels, Scripts, Lines

ASSUME LinesAssumption == Lines \subseteq Seq(Nat)
ASSUME ScriptsAssumption ==
  \A script \in Scripts :
    script \in Seq([call : {"getc"}, channel : Channels] \cup [call : {"putc"}, channel : Channels, char : Nat])

VARIABLES calls, made, line, got, printed,    \* as in CharCalls
          label,          \* the next instruction of the handler
          operand,        \* the channel in each *_EXF, *_SKPFIN, *_IN/OUT, *_SKP*IN _INSN
          GETCHAR_BUF,
          PUTCHAR_BUF,
          function,       \* per channel, the mode an EXF is sending, or NONE
          mode,           \* per channel, the mode the device last took
          inputActive,    \* per channel, an IN transfer is under way
          outputActive    \* per channel, an OUT transfer is under way

program  == <<calls, made, got>>
handler  == <<label, operand>>
channels == <<line, printed, function, mode, inputActive, outputActive>>
vars     == <<program, handler, GETCHAR_BUF, PUTCHAR_BUF, channels>>

BYTE == 256
INPUT_MODE == 25
OUTPUT_MODE == 11
NONE == 0
Handlers == {"getc", "putc"}
InsnLabels == {"EXF", "SKPFIN", "TRANSFER", "SKPTRANSFER"}

Current == calls[made + 1]
Insn == operand[Current.call]            \* GETCHAR_*_INSN or PUTCHAR_*_INSN

Init ==
  /\ calls \in Scripts
  /\ line \in [Channels -> Lines]
  /\ made = 0 /\ got = <<>> /\ printed = <<>>
  /\ label = "PROGRAM"
  /\ \E c \in Channels : operand = [h \in Handlers |-> [i \in InsnLabels |-> c]]
  /\ GETCHAR_BUF = 0 /\ PUTCHAR_BUF = 0
  /\ function = [c \in Channels |-> NONE]
  /\ mode \in [Channels -> {INPUT_MODE, OUTPUT_MODE}]
  /\ inputActive = [c \in Channels |-> FALSE]
  /\ outputActive = [c \in Channels |-> FALSE]

-----------------------------------------------------------------------------
(* The processor *)

(* Mutants of Ecall: the buffer keeps the upper bits of a0; the instruction   *)
(* that waits for the end of the transfer, or the one that sends the mode,    *)
(* keeps the channel of the previous call.                                   *)
Ecall_Unmasked ==
  /\ label = "PROGRAM" /\ made < Len(calls)
  /\ operand' = [operand EXCEPT ![Current.call] = [i \in InsnLabels |-> Current.channel]]
  /\ PUTCHAR_BUF' = IF Current.call = "putc" THEN Current.char ELSE PUTCHAR_BUF
  /\ label' = "EXF"
  /\ UNCHANGED <<program, GETCHAR_BUF, channels>>

Ecall_Stale(stale) ==
  /\ label = "PROGRAM" /\ made < Len(calls)
  /\ operand' = [operand EXCEPT ![Current.call] =
                   [i \in InsnLabels |-> IF i = stale THEN @[i] ELSE Current.channel]]
  /\ PUTCHAR_BUF' = IF Current.call = "putc" THEN Current.char % BYTE ELSE PUTCHAR_BUF
  /\ label' = "EXF"
  /\ UNCHANGED <<program, GETCHAR_BUF, channels>>
Ecall_StaleWait == Ecall_Stale("SKPTRANSFER")
Ecall_StaleMode == Ecall_Stale("EXF")

(* Build the four instructions; PUTCHAR also fills its buffer. *)
Ecall ==
  /\ label = "PROGRAM" /\ made < Len(calls)
  /\ operand' = [operand EXCEPT ![Current.call] = [i \in InsnLabels |-> Current.channel]]
  /\ PUTCHAR_BUF' = IF Current.call = "putc" THEN Current.char % BYTE ELSE PUTCHAR_BUF
  /\ label' = "EXF"
  /\ UNCHANGED <<program, GETCHAR_BUF, channels>>

EXF ==
  /\ label = "EXF"
  /\ function' = [function EXCEPT ![Insn["EXF"]] =
                    IF Current.call = "getc" THEN INPUT_MODE ELSE OUTPUT_MODE]
  /\ label' = "SKPFIN"
  /\ UNCHANGED <<program, operand, GETCHAR_BUF, PUTCHAR_BUF,
                 line, printed, mode, inputActive, outputActive>>

SKPFIN ==
  /\ label = "SKPFIN" /\ function[Insn["SKPFIN"]] = NONE
  /\ label' = "TRANSFER"
  /\ UNCHANGED <<program, operand, GETCHAR_BUF, PUTCHAR_BUF, channels>>

StartIN ==
  /\ label = "TRANSFER" /\ Current.call = "getc"
  /\ inputActive' = [inputActive EXCEPT ![Insn["TRANSFER"]] = TRUE]
  /\ label' = "SKPTRANSFER"
  /\ UNCHANGED <<program, operand, GETCHAR_BUF, PUTCHAR_BUF,
                 line, printed, function, mode, outputActive>>

StartOUT ==
  /\ label = "TRANSFER" /\ Current.call = "putc"
  /\ outputActive' = [outputActive EXCEPT ![Insn["TRANSFER"]] = TRUE]
  /\ label' = "SKPTRANSFER"
  /\ UNCHANGED <<program, operand, GETCHAR_BUF, PUTCHAR_BUF,
                 line, printed, function, mode, inputActive>>

(* Mutant: a0 receives the word of the channel uncut. *)
Char_Unmasked == GETCHAR_BUF

Char == GETCHAR_BUF % BYTE               \* what GETCHAR puts in a0

SKPIIN ==
  /\ label = "SKPTRANSFER" /\ Current.call = "getc"
  /\ ~inputActive[Insn["SKPTRANSFER"]]
  /\ got' = Append(got, Char)
  /\ made' = made + 1
  /\ label' = "PROGRAM"
  /\ UNCHANGED <<calls, operand, GETCHAR_BUF, PUTCHAR_BUF, channels>>

(* Mutant: PUTCHAR returns without waiting for the end of the transfer. *)
SKPOIN_NoWait ==
  /\ label = "SKPTRANSFER" /\ Current.call = "putc"
  /\ made' = made + 1
  /\ label' = "PROGRAM"
  /\ UNCHANGED <<calls, got, operand, GETCHAR_BUF, PUTCHAR_BUF, channels>>

SKPOIN ==
  /\ label = "SKPTRANSFER" /\ Current.call = "putc"
  /\ ~outputActive[Insn["SKPTRANSFER"]]
  /\ made' = made + 1
  /\ label' = "PROGRAM"
  /\ UNCHANGED <<calls, got, operand, GETCHAR_BUF, PUTCHAR_BUF, channels>>

CPU == Ecall \/ EXF \/ SKPFIN \/ StartIN \/ StartOUT \/ SKPIIN \/ SKPOIN

-----------------------------------------------------------------------------
(* The channels and their devices *)

TakeFunction(c) ==
  /\ function[c] # NONE
  /\ mode' = [mode EXCEPT ![c] = function[c]]
  /\ function' = [function EXCEPT ![c] = NONE]
  /\ UNCHANGED <<program, handler, GETCHAR_BUF, PUTCHAR_BUF,
                 line, printed, inputActive, outputActive>>

Receive(c) ==
  /\ inputActive[c] /\ mode[c] = INPUT_MODE /\ line[c] # <<>>
  /\ GETCHAR_BUF' = Head(line[c])
  /\ line' = [line EXCEPT ![c] = Tail(@)]
  /\ inputActive' = [inputActive EXCEPT ![c] = FALSE]
  /\ UNCHANGED <<program, handler, PUTCHAR_BUF, printed, function, mode, outputActive>>

Transmit(c) ==
  /\ outputActive[c] /\ mode[c] = OUTPUT_MODE
  /\ printed' = Append(printed, <<c, PUTCHAR_BUF>>)
  /\ outputActive' = [outputActive EXCEPT ![c] = FALSE]
  /\ UNCHANGED <<program, handler, GETCHAR_BUF, PUTCHAR_BUF, line, function, mode, inputActive>>

Channel(c) == TakeFunction(c) \/ Receive(c) \/ Transmit(c)

-----------------------------------------------------------------------------

Next == CPU \/ \E c \in Channels : Channel(c)

(* The processor runs on, and a channel eventually completes a transfer its   *)
(* device can serve.                                                         *)
Fairness == WF_vars(CPU) /\ \A c \in Channels : WF_vars(Channel(c))

Spec == Init /\ [][Next]_vars /\ Fairness

-----------------------------------------------------------------------------

Activities == {c \in Channels : function[c] # NONE} \X {"function"}
              \cup {c \in Channels : inputActive[c]} \X {"input"}
              \cup {c \in Channels : outputActive[c]} \X {"output"}

TypeOK ==
  /\ calls \in Scripts /\ made \in 0 .. Len(calls)
  /\ line \in [Channels -> Seq(Nat)]
  /\ label \in {"PROGRAM"} \cup InsnLabels
  /\ operand \in [Handlers -> [InsnLabels -> Channels]]
  /\ PUTCHAR_BUF \in 0 .. BYTE - 1 /\ GETCHAR_BUF \in Nat
  /\ function \in [Channels -> {NONE, INPUT_MODE, OUTPUT_MODE}]
  /\ mode \in [Channels -> {INPUT_MODE, OUTPUT_MODE}]
  /\ inputActive \in [Channels -> BOOLEAN]
  /\ outputActive \in [Channels -> BOOLEAN]

(* All channels share GETCHAR_BUF and PUTCHAR_BUF: no handler may leave a     *)
(* channel busy behind it, and no two activities overlap.                    *)
ChannelsQuiet ==
  /\ label \in {"PROGRAM", "EXF", "TRANSFER"} => Activities = {}
  /\ \A a, b \in Activities : a = b

(* The word a channel transmits is the one the call put in the buffer: it is  *)
(* not rewritten while the transfer is under way.                            *)
BufferStable == [][(\E c \in Channels : outputActive[c]) => PUTCHAR_BUF' = PUTCHAR_BUF]_vars

(* The handlers implement the atomic calls of RiscvEmu: a call takes effect   *)
(* when its channel finishes the transfer.                                   *)
TransferDone ==
  /\ label = "SKPTRANSFER"
  /\ ~inputActive[Current.channel] /\ ~outputActive[Current.channel]

Calls == INSTANCE CharCalls WITH
  made <- IF TransferDone THEN made + 1 ELSE made,
  got  <- IF TransferDone /\ Current.call = "getc" THEN Append(got, Char) ELSE got

ImplementsCalls == Calls!Spec

(* Every call the device can serve returns: the program gets to the end of    *)
(* its calls unless it waits in GETCHAR for a character nobody sends.         *)
Answered ==
  <>(made = Len(calls) \/ (Current.call = "getc" /\ line[Current.channel] = <<>>))
=============================================================================
