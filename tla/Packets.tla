------------------------------ MODULE Packets ------------------------------
(***************************************************************************)
(* The arithmetic in the packets of c/minecraft/main.c (and, for checksum,   *)
(* of c/webserver/main.c, which has the same): variable-length integers of    *)
(* 32 bits and the Internet checksum.  A state is one case: a value, with     *)
(* the bytes of it that have arrived, or a packet.                           *)
(***************************************************************************)
EXTENDS Integers, Sequences, SequencesExt

CONSTANTS Values,       \* of int32_t
          Bytes, MAXLEN \* what packets are made of, and how long they are

(* What uval >>= 7 leaves of a value in two's complement: the first shift     *)
(* brings in zeros.                                                          *)
Shifted(val) == (val \div 128) + (IF val < 0 THEN 2^25 ELSE 0)

RECURSIVE varint_encode(_)
varint_encode(val) ==
  IF Shifted(val) = 0 THEN <<val % 128>>
  ELSE <<(val % 128) + 128>> \o varint_encode(Shifted(val))

RECURSIVE varint_size(_)
varint_size(val) == IF Shifted(val) = 0 THEN 1 ELSE 1 + varint_size(Shifted(val))

(* (b & 0x7F) << 7k, in 32 bits. *)
Placed(b, k) == IF k < 4 THEN (b % 128) * 2^(7 * k)
                ELSE ((b % 16) - (IF b % 16 >= 8 THEN 16 ELSE 0)) * 2^28

(* Mutant: the fifth byte is not read. *)
varint_decode_Four(buf) ==
  LET ends == {i \in 1 .. Len(buf) : i <= 4 /\ buf[i] < 128}
  IN  IF ends = {} THEN <<-1, 0>>
      ELSE LET n == CHOOSE i \in ends : \A j \in ends : i <= j
           IN  <<n, FoldLeft(+, 0, [i \in 1 .. n |-> Placed(buf[i], i - 1)])>>

(* Bytes used and the value, or -1 if no last byte has come. *)
varint_decode(buf) ==
  LET ends == {i \in 1 .. Len(buf) : i <= 5 /\ buf[i] < 128}
  IN  IF ends = {} THEN <<-1, 0>>
      ELSE LET n == CHOOSE i \in ends : \A j \in ends : i <= j
           IN  <<n, FoldLeft(+, 0, [i \in 1 .. n |-> Placed(buf[i], i - 1)])>>

(* Mutant: the carries are folded in once. *)
Fold_Once(sum) == (sum % 65536) + sum \div 65536

RECURSIVE Fold(_)
Fold(sum) == IF sum < 65536 THEN sum ELSE Fold((sum % 65536) + sum \div 65536)

(* The bytes paired, an odd one with 0. *)
checksum(data) ==
  LET Word(i) == 256 * data[2 * i - 1] + (IF 2 * i <= Len(data) THEN data[2 * i] ELSE 0)
  IN  65535 - (Fold(FoldLeft(+, 0, [i \in 1 .. (Len(data) + 1) \div 2 |-> Word(i)])) % 65536)

(* ip_packet and tcp_packet: the checksum replaces two zero bytes, here those *)
(* at the front.                                                             *)
Summed(data) ==
  LET csum == checksum(<<0, 0>> \o data)
  IN  <<csum \div 256, csum % 256>> \o data

-----------------------------------------------------------------------------
VARIABLES val, seen, data
vars == <<val, seen, data>>

Init == val \in Values /\ seen = <<>> /\ data = <<>>
(* One more byte of the value arrives. *)
Arrive == /\ data = <<>> /\ Len(seen) < Len(varint_encode(val))
          /\ seen' = Append(seen, varint_encode(val)[Len(seen) + 1])
          /\ UNCHANGED <<val, data>>
(* One more byte is put in the packet. *)
Extend == /\ seen = <<>> /\ Len(data) < MAXLEN
          /\ \E b \in Bytes : data' = Append(data, b)
          /\ UNCHANGED <<val, seen>>
Next == Arrive \/ Extend
Spec == Init /\ [][Next]_vars

(* A length that TCP has cut is not taken for a shorter one, and as soon as   *)
(* it is whole it is read as it was written, also -1, the teleport number of  *)
(* the play packets; it has the size mc_packet reckons with, at most five     *)
(* bytes (varint_decode, varint_encode, varint_size).                        *)
DecodesWhenWhole ==
  /\ varint_decode(seen) = IF Len(seen) < Len(varint_encode(val)) THEN <<-1, 0>>
                           ELSE <<Len(seen), val>>
  /\ varint_size(val) = Len(varint_encode(val)) /\ varint_size(val) <= 5

(* A receiver that sums a packet with its checksum gets zero, whatever the    *)
(* length and however often the carries carry again (checksum).              *)
SumsToZero == checksum(Summed(data)) = 0
=============================================================================
