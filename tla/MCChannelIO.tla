---------------------------- MODULE MCChannelIO ----------------------------
(* Two channels, every script of at most three calls, lines of at most two   *)
(* words, one of them wider than a character.                                *)
EXTENDS ChannelIO

G(c) == [call |-> "getc", channel |-> c]
P(c, ch) == [call |-> "putc", channel |-> c, char |-> ch]
MCChannels == {0, 7}
MCCalls == {G(c) : c \in MCChannels} \cup {P(c, ch) : c \in MCChannels, ch \in {65, 256 + 66}}
MCScripts == UNION {[1 .. n -> MCCalls] : n \in 0 .. 3}
MCLines == {<<>>, <<67>>, <<256 + 68, 67>>}
=============================================================================
