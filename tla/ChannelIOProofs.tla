--------------------------- MODULE ChannelIOProofs ---------------------------
(***************************************************************************)
(* The polled handlers and the channels, for any channels, scripts and lines: *)
(* nothing is left active, no buffer is rewritten under a transfer, and every *)
(* step is a step of CharCalls or none.                                      *)
(***************************************************************************)
EXTENDS ChannelIO, TLAPS

(* A handler at work has its channel in all four instructions, and PUTCHAR its *)
(* character in the buffer.                                                  *)
Handling ==
  label # "PROGRAM" =>
    /\ made < Len(calls)
    /\ \A i \in InsnLabels : Insn[i] = Current.channel
    /\ Current.call = "putc" => PUTCHAR_BUF = Current.char % BYTE

(* What is active is what the handler waits for. *)
Busy ==
  \A c \in Channels :
    /\ function[c] # NONE => label = "SKPFIN" /\ c = Current.channel
    /\ inputActive[c] => label = "SKPTRANSFER" /\ Current.call = "getc" /\ c = Current.channel
    /\ outputActive[c] => label = "SKPTRANSFER" /\ Current.call = "putc" /\ c = Current.channel

IInv == TypeOK /\ Handling /\ Busy

(* The next call of a script is a GETCHAR or a PUTCHAR on one of the channels. *)
LEMMA CurrentType ==
  ASSUME calls \in Scripts, made \in 0 .. Len(calls), made < Len(calls)
  PROVE  /\ Current.call \in Handlers /\ Current.channel \in Channels
         /\ Current.call = "putc" => Current.char \in Nat
<1>1. calls[made + 1] \in [call : {"getc"}, channel : Channels] \cup [call : {"putc"}, channel : Channels, char : Nat]
  BY ScriptsAssumption
<1>2. CASE Current \in [call : {"getc"}, channel : Channels]
  BY <1>2 DEF Handlers
<1>3. CASE Current \in [call : {"putc"}, channel : Channels, char : Nat]
  BY <1>3 DEF Handlers
<1>4. QED  BY <1>1, <1>2, <1>3 DEF Current

LEMMA InitIInv == Init => IInv
<1> SUFFICES ASSUME Init PROVE IInv
  OBVIOUS
<1>1. made \in 0 .. Len(calls)
  BY ScriptsAssumption DEF Init
<1>2. line \in [Channels -> Seq(Nat)]
  BY LinesAssumption DEF Init
<1>3. operand \in [Handlers -> [InsnLabels -> Channels]]
  BY DEF Init
<1>4. TypeOK
  BY <1>1, <1>2, <1>3 DEF Init, TypeOK, BYTE
<1>5. Handling /\ Busy
  BY DEF Init, Handling, Busy
<1>6. QED  BY <1>4, <1>5 DEF IInv

LEMMA EcallStep == ASSUME IInv, Ecall PROVE IInv'
<1>1. made < Len(calls) /\ Current.call \in Handlers /\ Current.channel \in Channels
      /\ (Current.call = "putc" => Current.char \in Nat)
  BY CurrentType DEF Ecall, IInv, TypeOK
<1>2. /\ operand' \in [Handlers -> [InsnLabels -> Channels]]
      /\ \A i \in InsnLabels : operand'[Current.call][i] = Current.channel
  BY <1>1 DEF Ecall, IInv, TypeOK
<1>3. PUTCHAR_BUF' \in 0 .. BYTE - 1
  <2>1. CASE Current.call = "putc"
    <3>1. PUTCHAR_BUF' = Current.char % 256
      BY <2>1 DEF Ecall, BYTE
    <3>2. \A n \in Nat : n % 256 \in 0 .. 255
      OBVIOUS
    <3>3. PUTCHAR_BUF' \in 0 .. 255
      BY <1>1, <2>1, <3>1, <3>2, Zenon
    <3>4. QED  BY <3>3 DEF BYTE
  <2>2. CASE Current.call # "putc"
    BY <2>2 DEF Ecall, IInv, TypeOK
  <2>3. QED  BY <2>1, <2>2
<1>4. TypeOK'
  BY <1>2, <1>3 DEF Ecall, IInv, TypeOK, program, channels, InsnLabels
<1>5. Current' = Current
  BY DEF Ecall, program, Current
<1>6. Handling'
  BY <1>1, <1>2, <1>5 DEF Ecall, Handling, Insn, program
<1>7. Busy'
  BY <1>5 DEF Ecall, IInv, Busy, channels
<1>8. QED  BY <1>4, <1>6, <1>7 DEF IInv

LEMMA EXFStep == ASSUME IInv, EXF PROVE IInv'
<1>1. made < Len(calls) /\ Current.channel \in Channels /\ Insn["EXF"] = Current.channel
  BY CurrentType DEF EXF, IInv, TypeOK, Handling, InsnLabels
<1>2. Current' = Current /\ Insn' = Insn
  BY DEF EXF, program, Current, Insn
<1>3. TypeOK'
  BY <1>1 DEF EXF, IInv, TypeOK, program, InsnLabels
<1>4. Handling'
  BY <1>2 DEF EXF, IInv, Handling, program
<1>5. Busy'
  BY <1>1, <1>2 DEF EXF, IInv, Busy, TypeOK
<1>6. QED  BY <1>3, <1>4, <1>5 DEF IInv

LEMMA SKPFINStep == ASSUME IInv, SKPFIN PROVE IInv'
<1>1. Insn["SKPFIN"] = Current.channel
  BY DEF SKPFIN, IInv, Handling, InsnLabels
<1>2. Current' = Current /\ Insn' = Insn
  BY DEF SKPFIN, program, Current, Insn
<1>3. TypeOK'
  BY DEF SKPFIN, IInv, TypeOK, program, channels, InsnLabels
<1>4. Handling'
  BY <1>2 DEF SKPFIN, IInv, Handling, program
<1>5. Busy'
  BY <1>1, <1>2 DEF SKPFIN, IInv, Busy, channels
<1>6. QED  BY <1>3, <1>4, <1>5 DEF IInv

LEMMA StartStep == ASSUME IInv, StartIN \/ StartOUT PROVE IInv'
<1>1. made < Len(calls) /\ Current.channel \in Channels /\ Insn["TRANSFER"] = Current.channel
  BY CurrentType DEF StartIN, StartOUT, IInv, TypeOK, Handling, InsnLabels
<1>2. Current' = Current /\ Insn' = Insn
  BY DEF StartIN, StartOUT, program, Current, Insn
<1>3. TypeOK'
  BY <1>1 DEF StartIN, StartOUT, IInv, TypeOK, program, InsnLabels
<1>4. Handling'
  BY <1>2 DEF StartIN, StartOUT, IInv, Handling, program
<1>5. Busy'
  BY <1>1, <1>2 DEF StartIN, StartOUT, IInv, Busy, TypeOK
<1>6. QED  BY <1>3, <1>4, <1>5 DEF IInv

(* The transfer a handler has waited for was the only thing active. *)
LEMMA ReturnStep == ASSUME IInv, SKPIIN \/ SKPOIN PROVE IInv'
<1>1. made < Len(calls) /\ Insn["SKPTRANSFER"] = Current.channel
  BY DEF SKPIIN, SKPOIN, IInv, Handling, InsnLabels
<1>2. \A c \in Channels : function[c] = NONE /\ ~inputActive[c] /\ ~outputActive[c]
  BY <1>1 DEF SKPIIN, SKPOIN, IInv, Busy
<1>3. made' \in 0 .. Len(calls')
  BY <1>1, ScriptsAssumption DEF SKPIIN, SKPOIN, IInv, TypeOK
<1>4. TypeOK'
  BY <1>3 DEF SKPIIN, SKPOIN, IInv, TypeOK, channels
<1>5. Handling' /\ Busy'
  BY <1>2 DEF SKPIIN, SKPOIN, Handling, Busy, channels
<1>6. QED  BY <1>4, <1>5 DEF IInv

LEMMA ChannelStep == ASSUME IInv, NEW c \in Channels, Channel(c) PROVE IInv'
<1>1. Current' = Current /\ Insn' = Insn
  BY DEF Channel, TakeFunction, Receive, Transmit, program, handler, Current, Insn
<1>2. Handling'
  BY <1>1 DEF Channel, TakeFunction, Receive, Transmit, IInv, Handling, program, handler
<1>3. CASE TakeFunction(c)
  <2>1. TypeOK'
    BY <1>3 DEF TakeFunction, IInv, TypeOK, program, handler
  <2>2. Busy'
    BY <1>1, <1>3 DEF TakeFunction, IInv, Busy, TypeOK, handler
  <2>3. QED  BY <1>2, <2>1, <2>2 DEF IInv
<1>4. CASE Receive(c)
  <2>1. Head(line[c]) \in Nat /\ Tail(line[c]) \in Seq(Nat)
    BY <1>4 DEF Receive, IInv, TypeOK
  <2>2. TypeOK'
    BY <1>4, <2>1 DEF Receive, IInv, TypeOK, program, handler
  <2>3. Busy'
    BY <1>1, <1>4 DEF Receive, IInv, Busy, TypeOK, handler
  <2>4. QED  BY <1>2, <2>2, <2>3 DEF IInv
<1>5. CASE Transmit(c)
  <2>1. TypeOK'
    BY <1>5 DEF Transmit, IInv, TypeOK, program, handler
  <2>2. Busy'
    BY <1>1, <1>5 DEF Transmit, IInv, Busy, TypeOK, handler
  <2>3. QED  BY <1>2, <2>1, <2>2 DEF IInv
<1>6. QED  BY <1>3, <1>4, <1>5 DEF Channel

LEMMA StutterStep == ASSUME IInv, UNCHANGED vars PROVE IInv'
<1>1. Current' = Current /\ Insn' = Insn
  BY DEF vars, program, handler, Current, Insn
<1>2. QED
  BY <1>1 DEF vars, program, handler, channels, IInv, TypeOK, Handling, Busy

LEMMA NextStep == IInv /\ [Next]_vars => IInv'
  BY EcallStep, EXFStep, SKPFINStep, StartStep, ReturnStep, ChannelStep, StutterStep DEF Next, CPU

(* The processor and the channels keep their types (11-syscall.univac). *)
THEOREM ChannelTypes == Spec => []TypeOK
<1>1. IInv => TypeOK
  BY DEF IInv
<1>2. QED  BY InitIInv, NextStep, <1>1, PTL DEF Spec

(* Between calls, before a mode is sent and before a transfer is started no    *)
(* channel is active, and never two at a time: the two buffers that all the    *)
(* channels share are nobody else's (11-syscall.univac:43-99).               *)
THEOREM Quietness == Spec => []ChannelsQuiet
<1>1. ASSUME IInv PROVE ChannelsQuiet
  <2>1. ASSUME label \in {"PROGRAM", "EXF", "TRANSFER"} PROVE Activities = {}
    BY <1>1, <2>1 DEF IInv, Busy, Activities
  <2>2. ASSUME NEW a \in Activities, NEW b \in Activities PROVE a = b
    BY <1>1 DEF IInv, Busy, Activities
  <2>3. QED  BY <2>1, <2>2 DEF ChannelsQuiet
<1>2. QED  BY InitIInv, NextStep, <1>1, PTL DEF Spec

(* While a channel takes its word PUTCHAR_BUF is not rewritten, by whatever    *)
(* call comes next (ECALL_PUTCHAR).                                          *)
THEOREM BufferKept == Spec => BufferStable
<1>1. IInv /\ [Next]_vars => ((\E c \in Channels : outputActive[c]) => PUTCHAR_BUF' = PUTCHAR_BUF)
  <2> SUFFICES ASSUME IInv, [Next]_vars, NEW c \in Channels, outputActive[c]
               PROVE  PUTCHAR_BUF' = PUTCHAR_BUF
    OBVIOUS
  <2>1. label = "SKPTRANSFER"
    BY DEF IInv, Busy
  <2>2. QED
    BY <2>1 DEF Next, CPU, Ecall, EXF, SKPFIN, StartIN, StartOUT, SKPIIN, SKPOIN,
                Channel, TakeFunction, Receive, Transmit, vars
<1>2. QED  BY InitIInv, NextStep, <1>1, PTL DEF Spec, BufferStable

-----------------------------------------------------------------------------
(* The refinement of CharCalls: what the mapping shows of a state. *)

calledBar == IF TransferDone THEN made + 1 ELSE made
gotBar == IF TransferDone /\ Current.call = "getc" THEN Append(got, Char) ELSE got

(* The step of a handler that does not end a transfer is invisible. *)
LEMMA HandlerStep ==
  ASSUME IInv, Ecall \/ EXF \/ SKPFIN \/ StartIN \/ StartOUT
  PROVE  UNCHANGED <<calls, calledBar, line, gotBar, printed>>
<1>1. ~TransferDone
  BY DEF TransferDone, Ecall, EXF, SKPFIN, StartIN, StartOUT
<1>2. ASSUME Ecall \/ EXF \/ SKPFIN PROVE ~TransferDone'
  BY <1>2 DEF TransferDone, Ecall, EXF, SKPFIN
<1>3. ASSUME StartIN \/ StartOUT PROVE ~TransferDone'
  <2>1. Current.channel \in Channels /\ Insn["TRANSFER"] = Current.channel
    BY <1>3, CurrentType DEF StartIN, StartOUT, IInv, TypeOK, Handling, InsnLabels
  <2>2. Current' = Current
    BY <1>3 DEF StartIN, StartOUT, program, Current
  <2>3. inputActive'[Current.channel] \/ outputActive'[Current.channel]
    BY <1>3, <2>1 DEF StartIN, StartOUT, IInv, TypeOK
  <2>4. QED  BY <2>2, <2>3 DEF TransferDone
<1>4. QED
  BY <1>1, <1>2, <1>3 DEF calledBar, gotBar, Ecall, EXF, SKPFIN, StartIN, StartOUT, program, channels

(* A handler returns what its transfer has already done. *)
LEMMA ReturnInvisible ==
  ASSUME IInv, SKPIIN \/ SKPOIN
  PROVE  UNCHANGED <<calls, calledBar, line, gotBar, printed>>
<1>1. Insn["SKPTRANSFER"] = Current.channel /\ Current.channel \in Channels
  BY CurrentType DEF SKPIIN, SKPOIN, IInv, TypeOK, Handling, InsnLabels
<1>2. TransferDone
  BY <1>1 DEF SKPIIN, SKPOIN, IInv, Busy, TransferDone
<1>3. ~TransferDone'
  BY DEF SKPIIN, SKPOIN, TransferDone
<1>4. QED
  BY <1>2, <1>3 DEF SKPIIN, SKPOIN, calledBar, gotBar, channels

LEMMA TakeFunctionInvisible ==
  ASSUME IInv, NEW c \in Channels, TakeFunction(c)
  PROVE  UNCHANGED <<calls, calledBar, line, gotBar, printed>>
<1>1. label = "SKPFIN" /\ label' = label
  BY DEF TakeFunction, IInv, Busy, handler
<1>2. ~TransferDone /\ ~TransferDone'
  BY <1>1 DEF TransferDone
<1>3. QED  BY <1>2 DEF calledBar, gotBar, TakeFunction, program

(* The end of an input transfer is the whole GETCHAR. *)
LEMMA ReceiveIsGetchar ==
  ASSUME IInv, NEW c \in Channels, Receive(c)
  PROVE  Calls!GETCHAR
<1>1. /\ label = "SKPTRANSFER" /\ Current.call = "getc" /\ c = Current.channel
      /\ made < Len(calls)
      /\ ~outputActive[c]
  BY DEF Receive, IInv, Busy, Handling
<1>2. Current' = Current /\ label' = label /\ made' = made /\ calls' = calls /\ got' = got
  BY DEF Receive, program, handler, Current
<1>3. ~TransferDone
  BY <1>1 DEF Receive, TransferDone
<1>4. TransferDone'
  BY <1>1, <1>2 DEF Receive, TransferDone, IInv, TypeOK
<1>5. Calls!Current = Current
  BY <1>3 DEF Calls!Current, Current
<1>6. Char' = Head(line[c]) % BYTE
  BY DEF Receive, Char
<1>7. Calls!Next_Is("getc")
  BY <1>1, <1>3 DEF Calls!Next_Is, Current
<1>8. /\ calledBar = made /\ calledBar' = made + 1
      /\ gotBar = got /\ gotBar' = Append(got, Head(line[c]) % BYTE)
  BY <1>1, <1>2, <1>3, <1>4, <1>6 DEF calledBar, gotBar
<1>9. line[c] # <<>> /\ line' = [line EXCEPT ![c] = Tail(@)] /\ printed' = printed
  BY DEF Receive
<1>10. QED
  BY <1>1, <1>2, <1>5, <1>7, <1>8, <1>9 DEF Calls!GETCHAR, Calls!BYTE, BYTE, calledBar, gotBar

(* The end of an output transfer is the whole PUTCHAR. *)
LEMMA TransmitIsPutchar ==
  ASSUME IInv, NEW c \in Channels, Transmit(c)
  PROVE  Calls!PUTCHAR
<1>1. /\ label = "SKPTRANSFER" /\ Current.call = "putc" /\ c = Current.channel
      /\ made < Len(calls)
      /\ ~inputActive[c]
      /\ PUTCHAR_BUF = Current.char % BYTE
  BY DEF Transmit, IInv, Busy, Handling
<1>2. Current' = Current /\ label' = label /\ made' = made /\ calls' = calls /\ got' = got
  BY DEF Transmit, program, handler, Current
<1>3. ~TransferDone
  BY <1>1 DEF Transmit, TransferDone
<1>4. TransferDone'
  BY <1>1, <1>2 DEF Transmit, TransferDone, IInv, TypeOK
<1>5. Calls!Current = Current
  BY <1>3 DEF Calls!Current, Current
<1>6. Calls!Next_Is("putc")
  BY <1>1, <1>3 DEF Calls!Next_Is, Current
<1>7. /\ calledBar = made /\ calledBar' = made + 1
      /\ gotBar = got /\ gotBar' = got
  BY <1>1, <1>2, <1>3, <1>4 DEF calledBar, gotBar
<1>8. printed' = Append(printed, <<Current.channel, Current.char % BYTE>>) /\ line' = line
  BY <1>1 DEF Transmit
<1>9. QED
  BY <1>1, <1>2, <1>5, <1>6, <1>7, <1>8 DEF Calls!PUTCHAR, Calls!BYTE, BYTE, calledBar, gotBar

LEMMA InvisibleStutter ==
  ASSUME UNCHANGED <<calls, calledBar, line, gotBar, printed>>
  PROVE  UNCHANGED Calls!vars
  BY DEF Calls!vars, calledBar, gotBar

(* The handlers and the channels, interleaved step by step, make the atomic   *)
(* calls of CharCalls: the end of a transfer is the call, every other step is  *)
(* invisible (11-syscall.univac:19-97).                                      *)
THEOREM AtomicCalls == Spec => Calls!Init /\ [][Calls!Next]_(Calls!vars)
<1>1. Init => Calls!Init
  BY DEF Init, Calls!Init, TransferDone
<1>2. IInv /\ [Next]_vars => [Calls!Next]_(Calls!vars)
  <2> SUFFICES ASSUME IInv, [Next]_vars PROVE [Calls!Next]_(Calls!vars)
    OBVIOUS
  <2>1. CASE CPU
    BY <2>1, HandlerStep, ReturnInvisible, InvisibleStutter DEF CPU
  <2>2. ASSUME NEW c \in Channels, Channel(c) PROVE [Calls!Next]_(Calls!vars)
    BY <2>2, TakeFunctionInvisible, ReceiveIsGetchar, TransmitIsPutchar, InvisibleStutter
       DEF Channel, Calls!Next
  <2>3. CASE UNCHANGED vars
    <3>1. UNCHANGED <<calls, calledBar, line, gotBar, printed>>
      BY <2>3 DEF vars, program, handler, channels, calledBar, gotBar, TransferDone, Current, Char
    <3>2. QED  BY <3>1, InvisibleStutter
  <2>4. QED  BY <2>1, <2>2, <2>3 DEF Next
<1>3. QED  BY InitIInv, NextStep, <1>1, <1>2, PTL DEF Spec
=============================================================================
