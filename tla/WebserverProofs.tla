--------------------------- MODULE WebserverProofs ---------------------------
(***************************************************************************)
(* The table of connections of the web server, for any ports, any size of the  *)
(* table and whatever the clients send: a port has one entry at most, and      *)
(* serving one client never disturbs the entry of another.                   *)
(***************************************************************************)
EXTENDS Webserver, SequenceTheorems, TLAPS

Entries == [port : Ports, seq : Int]
Control == [proto : {"lcp", "ipcp"}, code : 1 .. 3]
Segments == [proto : {"ip"}, port : Ports, tseq : Nat, flags : SUBSET {"SYN", "FIN"}, dlen : 0 .. 1, len : Nat]
Answers == [proto : {"ip"}, port : Ports, ack : Nat, kind : {"synack", "http", "finack"}, seq : Int]
Clients == [state : {"closed", "syn", "open", "requested", "answered", "fin"}, rcv : Int, made : Nat]

(* A table of connections: no port has two entries. *)
IsTable(c) == c \in Seq(Entries) /\ \A i, j \in 1 .. Len(c) : c[i].port = c[j].port => i = j

(* The inductive invariant: the table, and the shape of what is on the line. *)
IInv ==
  /\ IsTable(conns) /\ Len(conns) <= MAX_CONNS
  /\ toServer \in Seq(Control \cup Segments)
  /\ toPeer \in Seq(Control \cup Answers)
  /\ client \in [Ports -> Clients]

-----------------------------------------------------------------------------
(* Tables *)

(* What ci, Tracked and Seq0 read from a table c. *)
Index(c, p) == LET found == {i \in 1 .. Len(c) : c[i].port = p}
               IN  IF found = {} THEN 0 ELSE CHOOSE i \in found : \A j \in found : i <= j
StreamAt(c, p) == IF Index(c, p) # 0 THEN c[Index(c, p)].seq ELSE ISS + 1
Holds(c, p, q) == \E i \in 1 .. Len(c) : c[i].port = p /\ c[i].seq = q

(* In a table the index found is that of the only entry. *)
LEMMA OneIndex ==
  ASSUME NEW c, IsTable(c), NEW p, NEW i \in 1 .. Len(c), c[i].port = p
  PROVE  Index(c, p) = i
<1>1. {j \in 1 .. Len(c) : c[j].port = p} = {i}
  BY DEF IsTable
<1>2. i \in Nat /\ \A j \in {i} : i <= j
  BY DEF IsTable
<1>3. QED  BY <1>1, <1>2 DEF Index

LEMMA IndexFinds ==
  ASSUME NEW c, IsTable(c), NEW p, Index(c, p) # 0
  PROVE  Index(c, p) \in 1 .. Len(c) /\ c[Index(c, p)].port = p
<1>1. PICK i \in 1 .. Len(c) : c[i].port = p
  BY DEF Index
<1>2. QED  BY <1>1, OneIndex

(* What a table holds of a port is what is read from it. *)
LEMMA HoldsIsRead ==
  ASSUME NEW c, IsTable(c), NEW p, NEW q
  PROVE  Holds(c, p, q) <=> Index(c, p) # 0 /\ StreamAt(c, p) = q
<1>1. ASSUME Holds(c, p, q) PROVE Index(c, p) # 0 /\ StreamAt(c, p) = q
  <2>1. PICK i \in 1 .. Len(c) : c[i].port = p /\ c[i].seq = q
    BY <1>1 DEF Holds
  <2>2. Index(c, p) = i /\ i # 0
    BY <2>1, OneIndex DEF IsTable
  <2>3. QED  BY <2>1, <2>2 DEF StreamAt
<1>2. ASSUME Index(c, p) # 0, StreamAt(c, p) = q PROVE Holds(c, p, q)
  BY <1>2, IndexFinds DEF Holds, StreamAt
<1>3. QED  BY <1>1, <1>2

(* Of two tables, the second keeps what the first holds of other ports than f. *)
Keeps(c, d, f) == \A p, q : p # f /\ Holds(c, p, q) => Holds(d, p, q)

LEMMA KeepsRead ==
  ASSUME NEW c, NEW d, NEW f, IsTable(c), IsTable(d), Keeps(c, d, f), NEW p, p # f, Index(c, p) # 0
  PROVE  Index(d, p) # 0 /\ StreamAt(d, p) = StreamAt(c, p)
<1>1. Holds(c, p, StreamAt(c, p))
  BY HoldsIsRead
<1>2. Holds(d, p, StreamAt(c, p))
  BY <1>1 DEF Keeps
<1>3. QED  BY <1>2, HoldsIsRead

(* SYN of a new port: an entry behind the others. *)
LEMMA AppendKeeps ==
  ASSUME NEW c, IsTable(c), NEW e \in Entries, \A i \in 1 .. Len(c) : c[i].port # e.port
  PROVE  IsTable(Append(c, e)) /\ Len(Append(c, e)) = Len(c) + 1 /\ Keeps(c, Append(c, e), e.port)
<1>1. /\ Append(c, e) \in Seq(Entries) /\ Len(Append(c, e)) = Len(c) + 1 /\ Len(c) \in Nat
      /\ \A i \in 1 .. Len(c) : Append(c, e)[i] = c[i]
      /\ Append(c, e)[Len(c) + 1] = e
  BY AppendProperties DEF IsTable
<1>2. IsTable(Append(c, e))
  BY <1>1 DEF IsTable
<1>3. Keeps(c, Append(c, e), e.port)
  BY <1>1 DEF Keeps, Holds
<1>4. QED  BY <1>1, <1>2, <1>3

(* SYN and data of a known port: another sequence number in its entry. *)
LEMMA UpdateKeeps ==
  ASSUME NEW c, IsTable(c), NEW k \in 1 .. Len(c), NEW q \in Int
  PROVE  LET d == [c EXCEPT ![k].seq = q]
         IN  IsTable(d) /\ Len(d) = Len(c) /\ Keeps(c, d, c[k].port)
<1> DEFINE d == [c EXCEPT ![k].seq = q]
<1>1. /\ d \in Seq(Entries) /\ Len(d) = Len(c)
      /\ \A i \in 1 .. Len(c) : d[i].port = c[i].port /\ (i # k => d[i] = c[i])
  <2> DEFINE e == [c[k] EXCEPT !.seq = q]
  <2>1. c \in Seq(Entries) /\ c[k] \in Entries /\ DOMAIN c = 1 .. Len(c)
    BY DEF IsTable
  <2>2. e \in Entries /\ e.port = c[k].port
    BY <2>1 DEF Entries
  <2>3. d = [c EXCEPT ![k] = e]
    OBVIOUS
  <2> HIDE DEF e, d
  <2>4. /\ d \in Seq(Entries) /\ Len(d) = Len(c) /\ d[k] = e
        /\ \A i \in 1 .. Len(c) : i # k => d[i] = c[i]
    BY <2>1, <2>2, <2>3
  <2>5. QED  BY <2>2, <2>4
<1>2. IsTable(d)
  BY <1>1 DEF IsTable
<1>3. Keeps(c, d, c[k].port)
  BY <1>1 DEF Keeps, Holds
<1>4. QED  BY <1>1, <1>2, <1>3

(* FIN: the last entry takes the place of the one that goes. *)
LEMMA RemoveKeeps ==
  ASSUME NEW c, IsTable(c), NEW k \in 1 .. Len(c)
  PROVE  LET d == Front([c EXCEPT ![k] = Last(c)])
         IN  IsTable(d) /\ Len(d) = Len(c) - 1 /\ Keeps(c, d, c[k].port)
<1> DEFINE m == [c EXCEPT ![k] = Last(c)]
           d == Front(m)
<1>1. /\ c \in Seq(Entries) /\ Len(c) \in Nat \ {0} /\ Last(c) = c[Len(c)] /\ Last(c) \in Entries
  BY DEF IsTable, Last
<1>2. /\ m \in Seq(Entries) /\ Len(m) = Len(c) /\ m[k] = c[Len(c)]
      /\ \A i \in 1 .. Len(c) : i # k => m[i] = c[i]
  BY <1>1
<1> HIDE DEF m
<1>3. /\ d \in Seq(Entries) /\ Len(d) = Len(c) - 1
      /\ \A i \in 1 .. Len(c) - 1 : d[i] = m[i]
  BY <1>1, <1>2 DEF Front
<1> HIDE DEF d
<1>4. IsTable(d)
  <2> SUFFICES ASSUME NEW i \in 1 .. Len(d), NEW j \in 1 .. Len(d), d[i].port = d[j].port PROVE i = j
    BY <1>3 DEF IsTable
  <2>1. \A n \in 1 .. Len(d) : d[n] = IF n = k THEN c[Len(c)] ELSE c[n]
    BY <1>1, <1>2, <1>3
  <2>2. i \in 1 .. Len(c) /\ j \in 1 .. Len(c) /\ i # Len(c) /\ j # Len(c) /\ Len(c) \in 1 .. Len(c)
    BY <1>1, <1>3
  <2>3. QED  BY <2>1, <2>2 DEF IsTable
<1>5. Keeps(c, d, c[k].port)
  <2> SUFFICES ASSUME NEW p, NEW q, p # c[k].port, Holds(c, p, q) PROVE Holds(d, p, q)
    BY DEF Keeps
  <2>1. PICK i \in 1 .. Len(c) : c[i].port = p /\ c[i].seq = q
    BY DEF Holds
  <2>2. CASE i < Len(c)
    <3>1. i \in 1 .. Len(d) /\ d[i] = c[i]
      BY <1>1, <1>2, <1>3, <2>1, <2>2
    <3>2. QED  BY <2>1, <3>1 DEF Holds
  <2>3. CASE i = Len(c)
    <3>1. k # Len(c)
      BY <2>1, <2>3
    <3>2. k \in 1 .. Len(d) /\ d[k] = c[i]
      BY <1>1, <1>2, <1>3, <2>3, <3>1
    <3>3. QED  BY <2>1, <3>2 DEF Holds
  <2>4. QED  BY <1>1, <2>1, <2>2, <2>3
<1>6. QED  BY <1>3, <1>4, <1>5 DEF d, m

-----------------------------------------------------------------------------
(* The steps *)

LEMMA ReadsTable ==
  /\ \A p : Tracked(p) = (Index(conns, p) # 0) /\ Seq0(p) = StreamAt(conns, p) /\ ci(p) = Index(conns, p)
  /\ \A p : Tracked(p)' = (Index(conns', p) # 0) /\ Seq0(p)' = StreamAt(conns', p)
  BY DEF Tracked, Seq0, ci, Index, StreamAt

LEMMA InitIInv == ASSUME ConstantsOK, Init PROVE IInv
<1>1. IsTable(<<>>) /\ Len(<<>>) = 0
  BY DEF IsTable
<1>2. Ctl("lcp", 1) \in Control /\ Ctl("ipcp", 1) \in Control
  BY DEF Ctl, Control
<1>3. toServer \in Seq(Control \cup Segments) /\ toPeer \in Seq(Control \cup Answers)
  BY <1>2 DEF Init
<1>4. client \in [Ports -> Clients]
  BY DEF Init, Clients
<1>5. QED  BY <1>1, <1>3, <1>4 DEF Init, IInv, ConstantsOK

(* The first frame of the line, and the line behind it. *)
LEMMA FrameType ==
  ASSUME IInv, toServer # <<>>
  PROVE  /\ Frame \in Control \cup Segments /\ (Frame.proto = "ip" => Frame \in Segments)
         /\ Tail(toServer) \in Seq(Control \cup Segments)
<1>1. Frame \in Control \cup Segments /\ Tail(toServer) \in Seq(Control \cup Segments)
  BY DEF IInv, Frame
<1>2. Frame.proto = "ip" => Frame \notin Control
  BY DEF Control
<1>3. QED  BY <1>1, <1>2

(* What is sent to the peer. *)
LEMMA SendType ==
  ASSUME IInv, NEW frames \in Seq(Control \cup Answers)
  PROVE  toPeer \o frames \in Seq(Control \cup Answers)
  BY ConcatProperties DEF IInv

LEMMA OutType ==
  ASSUME NEW f \in Segments, NEW kind \in {"synack", "http", "finack"}, NEW q \in Int
  PROVE  <<Out(f, kind, q)>> \in Seq(Control \cup Answers)
<1>1. Out(f, kind, q) \in Answers
  BY DEF Out, Segments, Answers
<1>2. QED  BY <1>1

LEMMA Seq0Type == ASSUME IInv, NEW p PROVE Seq0(p) \in Int
<1>1. CASE Index(conns, p) # 0
  <2>1. IsTable(conns)
    BY DEF IInv
  <2>2. conns[Index(conns, p)] \in Entries
    BY <1>1, <2>1, IndexFinds DEF IsTable
  <2>3. StreamAt(conns, p) \in Int
    BY <1>1, <2>2 DEF StreamAt, Entries
  <2>4. QED  BY <2>3, ReadsTable
<1>2. CASE Index(conns, p) = 0
  BY <1>2, ReadsTable DEF StreamAt, ISS
<1>3. QED  BY <1>1, <1>2

(* A step of the server on the frame of one client. *)
LEMMA SynKeeps ==
  ASSUME ConstantsOK, IInv, Syn
  PROVE  IsTable(conns') /\ Len(conns') <= MAX_CONNS /\ Keeps(conns, conns', Frame.port)
<1> DEFINE f == Frame.port
<1>1. toServer # <<>> /\ Frame \in Segments /\ f \in Ports /\ IsTable(conns) /\ Len(conns) <= MAX_CONNS
  BY FrameType DEF Syn, Tcp, Got, IInv, Segments
<1>2. Len(conns) \in Nat /\ MAX_CONNS \in Nat /\ ISS + 1 \in Int
  BY <1>1 DEF IsTable, ConstantsOK, ISS
<1>3. CASE Tracked(f)
  <2>1. ci(f) \in 1 .. Len(conns) /\ conns[ci(f)].port = f
    BY <1>1, <1>3, IndexFinds, ReadsTable
  <2>2. conns' = [conns EXCEPT ![ci(f)].seq = ISS + 1]
    BY <1>3 DEF Syn
  <2>3. QED  BY <1>1, <1>2, <2>1, <2>2, UpdateKeeps
<1>4. CASE ~Tracked(f) /\ Len(conns) < MAX_CONNS
  <2> DEFINE e == [port |-> f, seq |-> ISS + 1]
  <2>1. e \in Entries /\ e.port = f
    BY <1>1, <1>2 DEF Entries
  <2>2. conns' = Append(conns, e)
    BY <1>4 DEF Syn
  <2>3. ASSUME NEW i \in 1 .. Len(conns) PROVE conns[i].port # f
    <3>1. conns[i].port = f => Index(conns, f) = i
      BY <1>1, OneIndex
    <3>2. Tracked(f) = (Index(conns, f) # 0)
      BY ReadsTable
    <3>3. i # 0
      BY <1>2
    <3>4. QED  BY <1>4, <3>1, <3>2, <3>3
  <2> HIDE DEF e
  <2>4. QED  BY <1>1, <1>2, <1>4, <2>1, <2>2, <2>3, AppendKeeps
<1>5. CASE ~Tracked(f) /\ ~(Len(conns) < MAX_CONNS)
  BY <1>1, <1>5 DEF Syn, Keeps
<1>6. QED  BY <1>3, <1>4, <1>5

LEMMA DataKeeps ==
  ASSUME ConstantsOK, IInv, Data
  PROVE  IsTable(conns') /\ Len(conns') <= MAX_CONNS /\ Keeps(conns, conns', Frame.port)
<1> DEFINE f == Frame.port
<1>1. IsTable(conns) /\ Len(conns) <= MAX_CONNS
  BY DEF IInv
<1>2. CASE Tracked(f)
  <2>1. ci(f) \in 1 .. Len(conns) /\ conns[ci(f)].port = f
    BY <1>1, <1>2, IndexFinds, ReadsTable
  <2>2. conns[ci(f)].seq + HLEN \in Int
    <3>1. conns[ci(f)] \in Entries
      BY <1>1, <2>1 DEF IsTable
    <3>2. conns[ci(f)].seq \in Int /\ HLEN \in Nat
      BY <3>1 DEF Entries, ConstantsOK
    <3>3. QED  BY <3>2
  <2>3. conns' = [conns EXCEPT ![ci(f)].seq = conns[ci(f)].seq + HLEN]
    BY <1>2 DEF Data
  <2>4. QED  BY <1>1, <2>1, <2>2, <2>3, UpdateKeeps
<1>3. CASE ~Tracked(f)
  BY <1>1, <1>3 DEF Data, Keeps
<1>4. QED  BY <1>2, <1>3

LEMMA FinKeeps ==
  ASSUME ConstantsOK, IInv, Fin
  PROVE  IsTable(conns') /\ Len(conns') <= MAX_CONNS /\ Keeps(conns, conns', Frame.port)
<1> DEFINE f == Frame.port
<1>1. IsTable(conns) /\ Len(conns) <= MAX_CONNS
  BY DEF IInv
<1>2. CASE Tracked(f)
  <2>1. ci(f) \in 1 .. Len(conns) /\ conns[ci(f)].port = f
    BY <1>1, <1>2, IndexFinds, ReadsTable
  <2>2. conns' = Front([conns EXCEPT ![ci(f)] = Last(conns)])
    BY <1>2 DEF Fin
  <2>3. Len(conns) \in Nat /\ MAX_CONNS \in Nat
    BY <1>1 DEF IsTable, ConstantsOK
  <2>4. IsTable(conns') /\ Len(conns') = Len(conns) - 1 /\ Keeps(conns, conns', f)
    BY <1>1, <2>1, <2>2, RemoveKeeps
  <2>5. QED  BY <1>1, <2>3, <2>4
<1>3. CASE ~Tracked(f)
  BY <1>1, <1>3 DEF Fin, Keeps
<1>4. QED  BY <1>2, <1>3

(* What the server sends, if anything, has the shape of control frames and answers. *)
LEMMA ServerSends ==
  ASSUME ConstantsOK, IInv, Server
  PROVE  toPeer' = toPeer \/ \E out \in Seq(Control \cup Answers) : Send(out)
<1>1. \A proto \in {"lcp", "ipcp"}, code \in 1 .. 3 : Ctl(proto, code) \in Control
  BY DEF Ctl, Control
<1>2. /\ <<Ctl("lcp", 2)>> \in Seq(Control \cup Answers)
      /\ <<Ctl("ipcp", 1)>> \in Seq(Control \cup Answers)
      /\ <<Ctl("ipcp", 2)>> \o <<>> \in Seq(Control \cup Answers)
      /\ <<Ctl("ipcp", 2)>> \o <<Ctl("ipcp", 1)>> \in Seq(Control \cup Answers)
  BY <1>1
<1>3. CASE LcpRequest \/ IpcpRequest \/ IpcpNak
  BY <1>2, <1>3 DEF LcpRequest, IpcpRequest, IpcpNak
<1>4. CASE IpcpAck \/ Ignored
  BY <1>4 DEF IpcpAck, Ignored
<1>5. CASE Syn \/ Data \/ Fin
  <2>1. toServer # <<>> /\ Frame \in Segments /\ ISS \in Int
    BY <1>5, FrameType DEF Syn, Data, Fin, Tcp, Got, ISS
  <2>2. /\ <<Out(Frame, "synack", ISS)>> \in Seq(Control \cup Answers)
        /\ <<Out(Frame, "http", Seq0(Frame.port))>> \in Seq(Control \cup Answers)
        /\ <<Out(Frame, "finack", Seq0(Frame.port))>> \in Seq(Control \cup Answers)
    BY <2>1, Seq0Type, OutType
  <2>3. QED  BY <1>5, <2>2 DEF Syn, Data, Fin
<1>6. QED  BY <1>3, <1>4, <1>5 DEF Server

(* What the server sends and leaves on the line. *)
LEMMA ServerLine ==
  ASSUME ConstantsOK, IInv, Server
  PROVE  /\ toServer' \in Seq(Control \cup Segments)
         /\ toPeer' \in Seq(Control \cup Answers)
         /\ client' = client
<1>1. toServer # <<>> /\ toServer' = Tail(toServer) /\ client' = client
  BY DEF Server, LcpRequest, IpcpRequest, IpcpAck, IpcpNak, Syn, Data, Fin, Ignored, Tcp, Got, peer
<1>2. toServer' \in Seq(Control \cup Segments)
  BY <1>1, FrameType
<1>3. toPeer' \in Seq(Control \cup Answers)
  BY ServerSends, SendType DEF Send, IInv
<1>4. QED  BY <1>1, <1>2, <1>3

(* Only the frames of a client move entries, and only its own. *)
LEMMA ServerKeeps ==
  ASSUME ConstantsOK, IInv, Server
  PROVE  /\ IsTable(conns') /\ Len(conns') <= MAX_CONNS
         /\ conns' = conns \/ (toServer # <<>> /\ Frame.proto = "ip" /\ Keeps(conns, conns', Frame.port))
<1>1. CASE LcpRequest \/ IpcpRequest \/ IpcpAck \/ IpcpNak \/ Ignored
  BY <1>1 DEF LcpRequest, IpcpRequest, IpcpAck, IpcpNak, Ignored, server, IInv
<1>2. CASE Syn \/ Data \/ Fin
  BY <1>2, SynKeeps, DataKeeps, FinKeeps DEF Syn, Data, Fin, Tcp, Got
<1>3. QED  BY <1>1, <1>2 DEF Server

(* A step of the peer or of a client: the table stays, what is sent has its shape. *)
Others == Peer \/ \E p \in Ports : Connect(p) \/ Request(p) \/ Close(p) \/ Abandon(p) \/ Retry(p)

LEMMA PutType ==
  ASSUME IInv, NEW f \in Control \cup Segments, Put(f)
  PROVE  toServer' \in Seq(Control \cup Segments)
  BY DEF Put, IInv

LEMMA SegType ==
  ASSUME ConstantsOK, IInv, NEW p \in Ports
  PROVE  /\ Seg(p, {"SYN"}, 0, 44) \in Segments /\ [Seg(p, {"SYN"}, 0, 44) EXCEPT !.tseq = @ + 1] \in Segments
         /\ Seg(p, {}, 1, 41) \in Segments /\ Seg(p, {"FIN"}, 0, FINLEN) \in Segments
         /\ Seg(p, {}, 0, BARE) \in Segments
<1>1. client[p].made \in Nat /\ FINLEN \in Nat
  BY DEF IInv, Clients, ConstantsOK
<1>2. QED  BY <1>1 DEF Seg, Segments, BARE

LEMMA PeerControlStep == ASSUME IInv, PeerControl PROVE IInv'
<1>1. toPeer' \in Seq(Control \cup Answers) /\ conns' = conns /\ client' = client
  BY DEF PeerControl, server, IInv
<1>2. Ctl("ipcp", 2) \in Control /\ Ctl("ipcp", 3) \in Control
  BY DEF Ctl, Control
<1>3. toServer' \in Seq(Control \cup Segments)
  BY <1>2, PutType DEF PeerControl, IInv
<1>4. QED  BY <1>1, <1>3 DEF IInv

LEMMA ReceiveStep == ASSUME ConstantsOK, IInv, Receive PROVE IInv'
<1> DEFINE s == Head(toPeer)
           p == s.port
<1>1. s \in Answers /\ toPeer' \in Seq(Control \cup Answers) /\ conns' = conns
  BY DEF Receive, server, IInv, Control
<1>2. p \in Ports /\ client \in [Ports -> Clients]
  BY <1>1 DEF Answers, IInv
<1>3. CASE ~Accepts(p, s)
  BY <1>1, <1>2, <1>3 DEF Receive, IInv
<1>4. CASE Accepts(p, s)
  <2> DEFINE c == [client[p] EXCEPT !.rcv = Advance(@, s),
                                    !.state = CASE s.kind = "synack" -> "open"
                                                [] s.kind = "http" /\ @ = "requested" -> "answered"
                                                [] s.kind = "finack" -> "closed"
                                                [] OTHER -> @]
  <2>1. client[p] \in Clients /\ client[p].rcv \in Int
    BY <1>2 DEF Clients
  <2>2. Advance(client[p].rcv, s) \in Int
    BY <1>1, <2>1 DEF Advance, Answers, ISS, ConstantsOK
  <2>3. c \in Clients
    BY <1>1, <2>1, <2>2 DEF Clients, Answers
  <2>4. client' = [client EXCEPT ![p] = c]
    BY <1>4 DEF Receive
  <2>5. client' \in [Ports -> Clients]
    BY <1>2, <2>3, <2>4
  <2>6. toServer' \in Seq(Control \cup Segments)
    BY <1>2, <1>4, PutType, SegType DEF Receive
  <2>7. QED  BY <1>1, <2>5, <2>6 DEF IInv
<1>5. QED  BY <1>3, <1>4

LEMMA ClientStep ==
  ASSUME ConstantsOK, IInv, NEW p \in Ports, Connect(p) \/ Request(p) \/ Close(p) \/ Abandon(p) \/ Retry(p)
  PROVE  IInv' /\ conns' = conns
<1>1. conns' = conns /\ toPeer' = toPeer
  BY DEF Connect, Request, Close, Abandon, Retry, server
<1>2. toServer' \in Seq(Control \cup Segments)
  BY SegType, PutType DEF Connect, Request, Close, Abandon, Retry, IInv
<1>3. client \in [Ports -> Clients] /\ client[p] \in Clients
  BY DEF IInv
<1>4. client' \in [Ports -> Clients]
  <2>1. CASE Connect(p)
    <3>1. [state |-> "syn", rcv |-> 0, made |-> client[p].made + 1] \in Clients
      BY <1>3 DEF Clients
    <3>2. client' = [client EXCEPT ![p] = [state |-> "syn", rcv |-> 0, made |-> client[p].made + 1]]
      BY <2>1 DEF Connect
    <3>3. QED  BY <1>3, <3>1, <3>2
  <2>2. CASE Request(p) \/ Close(p) \/ Abandon(p)
    <3>1. PICK to \in {"requested", "fin", "closed"} : client' = [client EXCEPT ![p].state = to]
      BY <2>2 DEF Request, Close, Abandon, Move
    <3>2. [client[p] EXCEPT !.state = to] \in Clients
      BY <1>3 DEF Clients
    <3>3. client' = [client EXCEPT ![p] = [client[p] EXCEPT !.state = to]]
      BY <3>1
    <3>4. QED  BY <1>3, <3>2, <3>3
  <2>3. CASE Retry(p)
    BY <1>3, <2>3 DEF Retry
  <2>4. QED  BY <2>1, <2>2, <2>3
<1>5. QED  BY <1>1, <1>2, <1>4 DEF IInv

LEMMA NextStep ==
  ASSUME ConstantsOK, IInv, [Next]_vars
  PROVE  /\ IInv'
         /\ conns' = conns \/ (toServer # <<>> /\ Frame.proto = "ip" /\ Keeps(conns, conns', Frame.port))
<1>1. CASE Server
  BY <1>1, ServerLine, ServerKeeps DEF IInv
<1>2. CASE Peer
  BY <1>2, PeerControlStep, ReceiveStep DEF Peer, PeerControl, Receive, server
<1>3. CASE \E p \in Ports : Connect(p) \/ Request(p) \/ Close(p) \/ Abandon(p) \/ Retry(p)
  BY <1>3, ClientStep
<1>4. CASE UNCHANGED vars
  BY <1>4 DEF vars, server, peer, IInv
<1>5. QED  BY <1>1, <1>2, <1>3, <1>4 DEF Next

(* For any ports, any size of the table and whatever clients send, one client's *)
(* segment never disturbs the entry of another, wherever the removal of an      *)
(* entry moves it (main.c, conns).                                           *)
THEOREM EntriesKept == ASSUME ConstantsOK PROVE Spec => OthersKept
<1>1. Init => IInv
  BY InitIInv
<1>2. IInv /\ [Next]_vars => IInv'
  BY NextStep
<1>3. IInv /\ [Next]_vars =>
        \A p \in Ports : Tracked(p) /\ ~(toServer # <<>> /\ Frame.proto = "ip" /\ Frame.port = p)
                             => Tracked(p)' /\ Seq0(p)' = Seq0(p)
  <2> SUFFICES ASSUME IInv, [Next]_vars, NEW p \in Ports, Tracked(p),
                      ~(toServer # <<>> /\ Frame.proto = "ip" /\ Frame.port = p)
               PROVE  Tracked(p)' /\ Seq0(p)' = Seq0(p)
    OBVIOUS
  <2>1. IsTable(conns) /\ IsTable(conns') /\ Index(conns, p) # 0
    BY NextStep, ReadsTable DEF IInv
  <2>2. CASE conns' = conns
    BY <2>1, <2>2, ReadsTable
  <2>3. CASE Frame.port # p /\ Keeps(conns, conns', Frame.port)
    BY <2>1, <2>3, KeepsRead, ReadsTable
  <2>4. QED  BY <2>2, <2>3, NextStep
<1>4. QED  BY <1>1, <1>2, <1>3, PTL DEF Spec, OthersKept
-----------------------------------------------------------------------------
(* The negotiation *)

OnLine(x, s) == \E k \in 1 .. Len(s) : s[k] = x

(* As long as it is not over, one of its frames is on the line: one that the     *)
(* server answers, or the server's own request.                             *)
Asked == \E k \in 1 .. Len(toServer) : toServer[k].proto = "ipcp"
Asks == OnLine(Ctl("ipcp", 1), toPeer)
Negotiating == ipcp_done \/ Asked \/ Asks

(* A frame is taken from the front of the line, the others stay on it. *)
LEMMA OthersWait ==
  ASSUME NEW S, NEW s \in Seq(S), s # <<>>, NEW x, OnLine(x, s)
  PROVE  Head(s) = x \/ OnLine(x, Tail(s))
<1>1. PICK k \in 1 .. Len(s) : s[k] = x
  BY DEF OnLine
<1>2. Len(s) \in Nat /\ Head(s) = s[1] /\ Len(Tail(s)) = Len(s) - 1
  OBVIOUS
<1>3. CASE k = 1
  BY <1>1, <1>2, <1>3
<1>4. CASE k # 1
  <2>1. k - 1 \in 1 .. Len(Tail(s)) /\ (k - 1) + 1 = k
    BY <1>2, <1>4
  <2>2. \A i \in 1 .. Len(Tail(s)) : Tail(s)[i] = s[i + 1]
    BY HeadTailProperties
  <2>3. Tail(s)[k - 1] = x
    BY <1>1, <2>1, <2>2
  <2>4. QED  BY <2>1, <2>3 DEF OnLine
<1>5. QED  BY <1>3, <1>4

LEMMA StaysBefore ==
  ASSUME NEW S, NEW s \in Seq(S), NEW t \in Seq(S), NEW x
  PROVE  OnLine(x, s) \/ OnLine(x, t) => OnLine(x, s \o t)
<1>1. /\ Len(s) \in Nat /\ Len(t) \in Nat /\ Len(s \o t) = Len(s) + Len(t)
      /\ \A i \in 1 .. Len(s) + Len(t) : (s \o t)[i] = IF i <= Len(s) THEN s[i] ELSE t[i - Len(s)]
  BY ConcatProperties
<1>2. ASSUME NEW k \in 1 .. Len(s), s[k] = x PROVE OnLine(x, s \o t)
  <2>1. k \in 1 .. Len(s \o t) /\ k <= Len(s)
    BY <1>1
  <2>2. (s \o t)[k] = s[k]
    BY <1>1, <2>1
  <2>3. QED  BY <1>2, <2>1, <2>2 DEF OnLine
<1>3. ASSUME NEW k \in 1 .. Len(t), t[k] = x PROVE OnLine(x, s \o t)
  <2>1. k + Len(s) \in 1 .. Len(s \o t) /\ ~(k + Len(s) <= Len(s)) /\ (k + Len(s)) - Len(s) = k
    BY <1>1
  <2>2. (s \o t)[k + Len(s)] = t[k]
    BY <1>1, <2>1
  <2>3. QED  BY <1>3, <2>1, <2>2 DEF OnLine
<1>4. QED  BY <1>2, <1>3 DEF OnLine

(* What is put on the line follows what is on it. *)
LEMMA PutAsked ==
  ASSUME IInv, NEW f \in Control \cup Segments, Put(f)
  PROVE  /\ Asked => Asked'
         /\ f.proto = "ipcp" => Asked'
<1>1. toServer \in Seq(Control \cup Segments) /\ <<f>> \in Seq(Control \cup Segments) /\ toServer' = toServer \o <<f>>
  BY AppendIsConcat DEF IInv, Put
<1>2. OnLine(f, <<f>>)
  BY DEF OnLine
<1>3. f.proto = "ipcp" => Asked'
  <2>1. OnLine(f, toServer')
    BY <1>1, <1>2, StaysBefore
  <2>2. QED  BY <2>1 DEF Asked, OnLine
<1>4. ASSUME Asked PROVE Asked'
  <2>1. PICK k \in 1 .. Len(toServer) : toServer[k].proto = "ipcp"
    BY <1>4 DEF Asked
  <2>2. OnLine(toServer[k], toServer)
    BY DEF OnLine
  <2>3. OnLine(toServer[k], toServer')
    BY <1>1, <2>2, StaysBefore
  <2>4. QED  BY <2>1, <2>3 DEF Asked, OnLine
<1>5. QED  BY <1>3, <1>4

LEMMA SendAsks ==
  ASSUME IInv, NEW out \in Seq(Control \cup Answers), Send(out)
  PROVE  /\ Asks => Asks'
         /\ OnLine(Ctl("ipcp", 1), out) => Asks'
<1> DEFINE ask == Ctl("ipcp", 1)
<1>1. toPeer \in Seq(Control \cup Answers) /\ toPeer' = toPeer \o out
  BY DEF IInv, Send
<1>2. Asks' <=> OnLine(ask, toPeer')
  BY DEF Asks, OnLine, Ctl
<1> HIDE DEF ask
<1>3. OnLine(ask, toPeer) \/ OnLine(ask, out) => OnLine(ask, toPeer \o out)
  BY <1>1, StaysBefore
<1>4. QED  BY <1>1, <1>2, <1>3 DEF Asks, ask

(* A frame of the negotiation ends it, or makes the server ask again. *)
LEMMA IpcpNegotiates ==
  ASSUME IInv, IpcpRequest \/ IpcpAck \/ IpcpNak
  PROVE  Negotiating'
<1>1. Ctl("ipcp", 1) \in Control /\ Ctl("ipcp", 2) \in Control
  BY DEF Ctl, Control
<1> DEFINE ask == Ctl("ipcp", 1)
           answer == Ctl("ipcp", 2)
<1>2. CASE IpcpRequest /\ ipcp_done
  BY <1>2 DEF IpcpRequest, Negotiating
<1>3. CASE IpcpRequest /\ ~ipcp_done
  <2>1. Send(<<answer>> \o <<ask>>)
    BY <1>3 DEF IpcpRequest
  <2>2. <<answer>> \o <<ask>> \in Seq(Control \cup Answers) /\ (<<answer>> \o <<ask>>)[2] = ask /\ Len(<<answer>> \o <<ask>>) = 2
    BY <1>1
  <2>3. OnLine(ask, <<answer>> \o <<ask>>)
    BY <2>2 DEF OnLine
  <2>4. QED  BY <2>1, <2>2, <2>3, SendAsks DEF Negotiating
<1>4. CASE IpcpAck
  BY <1>4 DEF IpcpAck, Negotiating
<1>5. CASE IpcpNak
  <2>1. Send(<<ask>>) /\ <<ask>> \in Seq(Control \cup Answers) /\ <<ask>>[1] = ask /\ Len(<<ask>>) = 1
    BY <1>1, <1>5 DEF IpcpNak
  <2>2. OnLine(ask, <<ask>>)
    BY <2>1 DEF OnLine
  <2>3. QED  BY <2>1, <2>2, SendAsks DEF Negotiating
<1>6. QED  BY <1>2, <1>3, <1>4, <1>5

(* The other branches of the loop leave the frames of the negotiation where they are. *)
LEMMA OtherBranches ==
  ASSUME ConstantsOK, IInv, LcpRequest \/ Syn \/ Data \/ Fin \/ Ignored, Negotiating
  PROVE  Negotiating'
<1>1. toServer # <<>> /\ Frame.proto # "ipcp" /\ toServer' = Tail(toServer) /\ ipcp_done' = ipcp_done
  BY DEF LcpRequest, Syn, Data, Fin, Ignored, Tcp, Got, server
<1>2. Asked => Asked'
  <2> SUFFICES ASSUME Asked PROVE Asked'
    OBVIOUS
  <2>1. PICK k \in 1 .. Len(toServer) : toServer[k].proto = "ipcp"
    BY DEF Asked
  <2>2. toServer \in Seq(Control \cup Segments)
    BY DEF IInv
  <2>3. Frame = toServer[k] \/ OnLine(toServer[k], Tail(toServer))
    BY <1>1, <2>2, OthersWait DEF Frame, OnLine
  <2>4. QED  BY <1>1, <2>1, <2>3 DEF Asked, OnLine
<1>3. Asks => Asks'
  <2>1. toPeer' = toPeer \/ \E out \in Seq(Control \cup Answers) : Send(out)
    BY ServerSends DEF Server
  <2>2. QED  BY <2>1, SendAsks DEF Asks
<1>4. QED  BY <1>1, <1>2, <1>3 DEF Negotiating

(* The peer answers the server's request, and the clients take nothing of the   *)
(* negotiation from the line.                                               *)
LEMMA OthersNegotiate ==
  ASSUME ConstantsOK, IInv, Others, Negotiating
  PROVE  Negotiating'
<1>1. ipcp_done' = ipcp_done
  BY DEF Others, Peer, PeerControl, Receive, Connect, Request, Close, Abandon, Retry, server
<1>2. Ctl("ipcp", 2) \in Control /\ Ctl("ipcp", 3) \in Control /\ Ctl("ipcp", 2).proto = "ipcp" /\ Ctl("ipcp", 3).proto = "ipcp"
  BY DEF Ctl, Control
<1>3. CASE PeerControl /\ Head(toPeer) = Ctl("ipcp", 1)
  BY <1>2, <1>3, PutAsked DEF PeerControl, Negotiating
<1>4. CASE PeerControl /\ Head(toPeer) # Ctl("ipcp", 1)
  <2>1. toPeer # <<>> /\ toPeer' = Tail(toPeer) /\ toServer' = toServer
    BY <1>4 DEF PeerControl
  <2>2. Asks => Asks'
    BY <1>4, <2>1, OthersWait DEF Asks, IInv
  <2>3. Asked => Asked'
    BY <2>1 DEF Asked
  <2>4. QED  BY <1>1, <2>2, <2>3 DEF Negotiating
<1>5. CASE Receive
  <2>1. Head(toPeer).proto = "ip" /\ toPeer # <<>> /\ toPeer' = Tail(toPeer)
    BY <1>5 DEF Receive
  <2>2. Head(toPeer) # Ctl("ipcp", 1)
    BY <2>1 DEF Ctl
  <2>3. Asks => Asks'
    BY <2>1, <2>2, OthersWait DEF Asks, IInv
  <2>4. Asked => Asked'
    <3>1. CASE UNCHANGED toServer
      BY <3>1 DEF Asked
    <3>2. CASE Put(Seg(Head(toPeer).port, {}, 0, BARE))
      <4>1. Head(toPeer).port \in Ports
        BY <2>1 DEF IInv, Control, Answers
      <4>2. QED  BY <3>2, <4>1, SegType, PutAsked
    <3>3. QED  BY <1>5, <3>1, <3>2 DEF Receive
  <2>5. QED  BY <1>1, <2>3, <2>4 DEF Negotiating
<1>6. CASE \E p \in Ports : Connect(p) \/ Request(p) \/ Close(p) \/ Abandon(p) \/ Retry(p)
  <2>1. PICK p \in Ports : Connect(p) \/ Request(p) \/ Close(p) \/ Abandon(p) \/ Retry(p)
    BY <1>6
  <2>2. toPeer' = toPeer
    BY <2>1 DEF Connect, Request, Close, Abandon, Retry
  <2>3. UNCHANGED toServer \/ \E f \in Control \cup Segments : Put(f)
    BY <2>1, SegType DEF Connect, Request, Close, Abandon, Retry
  <2>4. Asked => Asked'
    BY <2>3, PutAsked DEF Asked
  <2>5. QED  BY <1>1, <2>2, <2>4 DEF Negotiating, Asks
<1>7. QED  BY <1>3, <1>4, <1>5, <1>6 DEF Others, Peer

(* For any ports and however often the peer refuses the address, the line does   *)
(* not fall silent before the negotiation is over: a frame of it is always under *)
(* way (main.c, the IPCP branches).                                          *)
THEOREM NegotiationOpens == ASSUME ConstantsOK PROVE Spec => []Opens
<1>1. Init => IInv /\ Negotiating
  <2> SUFFICES ASSUME Init PROVE Negotiating
    BY InitIInv
  <2>1. toServer[2].proto = "ipcp" /\ Len(toServer) = 2
    BY DEF Init, Ctl
  <2>2. QED  BY <2>1 DEF Negotiating, Asked
<1>2. IInv /\ Negotiating /\ [Next]_vars => (IInv /\ Negotiating)'
  <2> SUFFICES ASSUME IInv, Negotiating, [Next]_vars PROVE Negotiating'
    BY NextStep
  <2>1. CASE UNCHANGED vars
    BY <2>1 DEF vars, server, Negotiating, Asked, Asks
  <2>2. QED  BY <2>1, IpcpNegotiates, OtherBranches, OthersNegotiate DEF Next, Server, Others
<1>3. IInv /\ Negotiating => Opens
  BY DEF Negotiating, Asked, Asks, OnLine, Opens
<1>4. QED  BY <1>1, <1>2, <1>3, PTL DEF Spec
=============================================================================
