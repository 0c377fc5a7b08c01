------------------------------ MODULE CharCalls ------------------------------
(***************************************************************************)
(* What the character system calls promise a program: it makes its calls in *)
(* order; a GETCHAR takes the next character of its channel's line, a       *)
(* PUTCHAR prints on its channel; nothing is lost, repeated or reordered.   *)
(***************************************************************************)
EXTENDS Naturals, Sequences

CONSTANTS Channels,     \* the input/output channels
          Scripts,      \* the call sequences a program may make
          Lines         \* what the devices may have to send: sets of words

BYTE == 256

VARIABLES calls,        \* the calls of this run, never changes
          made,         \* how many have been made
          line,         \* per channel, the words the device has still to send
          got,          \* the characters GETCHAR returned
          printed       \* the characters printed, with their channel

vars == <<calls, made, line, got, printed>>

Getc(c)     == [call |-> "getc", channel |-> c]
Putc(c, ch) == [call |-> "putc", channel |-> c, char |-> ch]

Next_Is(name) == made < Len(calls) /\ calls[made + 1].call = name
Current == calls[made + 1]

Init ==
  /\ calls \in Scripts
  /\ line \in [Channels -> Lines]
  /\ made = 0
  /\ got = <<>>
  /\ printed = <<>>

GETCHAR ==
  /\ Next_Is("getc")
  /\ line[Current.channel] # <<>>
  /\ got' = Append(got, Head(line[Current.channel]) % BYTE)
  /\ line' = [line EXCEPT ![Current.channel] = Tail(@)]
  /\ made' = made + 1
  /\ UNCHANGED <<calls, printed>>

PUTCHAR ==
  /\ Next_Is("putc")
  /\ printed' = Append(printed, <<Current.channel, Current.char % BYTE>>)
  /\ made' = made + 1
  /\ UNCHANGED <<calls, line, got>>

Next == GETCHAR \/ PUTCHAR

(* Every PUTCHAR returns, and every GETCHAR whose channel has input.         *)
Spec == Init /\ [][Next]_vars /\ WF_vars(Next)
=============================================================================
