------------------------------ MODULE PppLink ------------------------------
(***************************************************************************)
(* The PPP framing of the two servers (c/webserver/main.c, ppp_send and      *)
(* ppp_recv; c/minecraft/main.c has the same): a frame is escaped byte by    *)
(* byte between two flags, and the receiver reads the line one byte at a     *)
(* time.  The check sequence frames carry is here too.  Frames fit the         *)
(* receiver's buffer, of 2048 bytes in the one and 1500 in the other; only     *)
(* minecraft (main.c:82) looks for its end.                                  *)
(***************************************************************************)
EXTENDS Naturals, Sequences, Bitwise

CONSTANTS Payloads,     \* what the peer may send: <<protocol, payload>>, bytes
          MAXFRAMES,    \* bound: frames the peer sends
          SHARED        \* whether the peer may let one flag close a frame and open the next

FLAG == 126
ESC  == 125
Escaped(b) == b < 32 \/ b \in {ESC, FLAG}

(* ppp_fcs over a sequence of bytes: the shift register before the final xor *)
Fcs16 == 65535
Shift(fcs) == IF fcs % 2 = 1 THEN (fcs \div 2) ^^ 33800 ELSE fcs \div 2
RECURSIVE Register(_, _)
Register(fcs, data) ==
  IF data = <<>> THEN fcs
  ELSE LET step[j \in 0 .. 8] == IF j = 0 THEN fcs ^^ Head(data) ELSE Shift(step[j - 1])
       IN  Register(step[8], Tail(data))

ppp_fcs(data) == (Register(Fcs16, data)) ^^ Fcs16

RECURSIVE Stuff(_)
Stuff(bytes) ==
  IF bytes = <<>> THEN <<>>
  ELSE (IF Escaped(Head(bytes)) THEN <<ESC, Head(bytes) ^^ 32>> ELSE <<Head(bytes)>>)
       \o Stuff(Tail(bytes))

(* ppp_send *)
Frame(proto, payload) ==
  LET body == <<255, 3, proto \div 256, proto % 256>> \o payload
      fcs  == ppp_fcs(body)
  IN  <<FLAG>> \o Stuff(body \o <<fcs % 256, fcs \div 256>>) \o <<FLAG>>

Frames == [p \in Payloads |-> Frame(p[1], p[2])]

-----------------------------------------------------------------------------
VARIABLES sent,       \* what the peer has sent
          shared,     \* whether it has shared a flag
          line,       \* bytes on the serial line
          mode,       \* "hunt" for a flag, or in a "frame"
          buf, esc,   \* the receiver's buffer and escape flag
          received    \* the frames handed to main

vars == <<sent, shared, line, mode, buf, esc, received>>

Init ==
  /\ sent = <<>> /\ shared = FALSE /\ line = <<>>
  /\ mode = "hunt" /\ buf = <<>> /\ esc = FALSE
  /\ received = <<>>

(* The peer frames like ppp_send; RFC 1662 lets it leave the opening flag out *)
(* when the closing flag of the previous frame is still the last byte sent.   *)
Send(p) ==
  /\ Len(sent) < MAXFRAMES
  /\ sent' = Append(sent, p)
  /\ \E share \in {FALSE, SHARED /\ sent # <<>>} :
       /\ shared' = (shared \/ share)
       /\ line' = line \o (IF share THEN Tail(Frames[p]) ELSE Frames[p])
  /\ UNCHANGED <<mode, buf, esc, received>>

Read == line # <<>> /\ line' = Tail(line) /\ UNCHANGED <<sent, shared>>

Hunt ==
  /\ mode = "hunt" /\ Read
  /\ IF Head(line) = FLAG
     THEN mode' = "frame" /\ buf' = <<>> /\ esc' = FALSE
     ELSE UNCHANGED <<mode, buf, esc>>
  /\ UNCHANGED received

(* Mutant: an escaped byte is taken as it is. *)
Collect_NoXor ==
  /\ mode = "frame" /\ Read /\ Head(line) # FLAG
  /\ IF Head(line) = ESC /\ ~esc THEN esc' = TRUE /\ buf' = buf
     ELSE esc' = FALSE /\ buf' = Append(buf, Head(line))
  /\ UNCHANGED <<mode, received>>

Collect ==
  /\ mode = "frame" /\ Read /\ Head(line) # FLAG
  /\ IF esc THEN buf' = Append(buf, Head(line) ^^ 32) /\ esc' = FALSE
     ELSE IF Head(line) = ESC THEN esc' = TRUE /\ buf' = buf
     ELSE buf' = Append(buf, Head(line)) /\ esc' = FALSE
  /\ UNCHANGED <<mode, received>>

(* Mutant: the header and the check sequence counted one byte too long. *)
EndOfFrame_Short ==
  /\ mode = "frame" /\ Read /\ Head(line) = FLAG
  /\ received' = IF Len(buf) <= 7 THEN received
                 ELSE Append(received, <<256 * buf[3] + buf[4], SubSeq(buf, 5, Len(buf) - 2)>>)
  /\ mode' = "hunt" /\ buf' = <<>> /\ esc' = FALSE

(* The closing flag; main skips short frames and empty payloads (return 0).   *)
EndOfFrame ==
  /\ mode = "frame" /\ Read /\ Head(line) = FLAG
  /\ received' = IF Len(buf) <= 6 THEN received
                 ELSE Append(received, <<256 * buf[3] + buf[4], SubSeq(buf, 5, Len(buf) - 2)>>)
  /\ mode' = "hunt" /\ buf' = <<>> /\ esc' = FALSE

Receiver == Hunt \/ Collect \/ EndOfFrame
Next == (\E p \in Payloads : Send(p)) \/ Receiver
Spec == Init /\ [][Next]_vars /\ WF_vars(Receiver)

-----------------------------------------------------------------------------

RECURSIVE Subsequence(_, _)
Subsequence(s, t) ==
  \/ s = <<>>
  \/ t # <<>> /\ Subsequence(IF Head(s) = Head(t) THEN Tail(s) ELSE s, Tail(t))

(* Whatever bytes a payload consists of, and although the receiver never      *)
(* looks at the check sequence, main gets only frames that were sent, each    *)
(* once and in their order, even when the peer shares flags; from a peer that *)
(* always sends both flags it gets every frame (ppp_recv).                   *)
FramesInOrder ==
  /\ Subsequence(received, sent)
  /\ line = <<>> /\ ~shared => received = sent
=============================================================================
