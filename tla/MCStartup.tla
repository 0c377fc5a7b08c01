----------------------------- MODULE MCStartup -----------------------------
EXTENDS Startup, MCRiscv

MCCLOCK == {0, 5, WORD - 1}

(* One call: MEMCLEAR of .bss, an EXIT without the stop key, TIME, and a      *)
(* number SYSCALL_TABLE does not have.                                       *)
CallBoots ==
  Boots({<<I("ecall", 0, 0, 0, 0), Nop>>},
        RegFiles({16, 20, 24, 28}, {16, 20, 24, 28, 32}, {2, 3, 4, 5}),
        {[w \in DATA |-> HALF - 1], [w \in DATA |-> w]}, {<<>>})

(* A server that echoes one character of each channel in turn.               *)
Server == <<I("addi", 1, 2, 0, 0), I("addi", 3, 0, 0, 0), I("ecall", 0, 0, 0, 0),
            I("addi", 3, 0, 0, 1), I("ecall", 0, 0, 0, 0),
            I("addi", 2, 2, 0, 1), I("jal", 0, 0, 0, -24)>>
Sent == [c \in Channels |-> <<c % 4, (c + 1) % 4, 3, 1>>]
EchoBoots ==
  [program : {Server}, reg : RegFiles({0}, {0, 1, 2, 3, 61, 62, 127, 128, 254}, {0}),
   mem : {[w \in DATA |-> 0]}, input : {Sent}]

MCBoots == CallBoots \cup EchoBoots

(* Whatever channel number the server counts up to, every channel gets back   *)
(* its own characters, in the order they were sent.                          *)
Echoed ==
  \A c \in Channels : \E k \in 0 .. Len(Sent[c]) : PrintedOn(c) = SubSeq(Sent[c], 1, k)
=============================================================================
