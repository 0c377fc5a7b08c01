----------------------------- MODULE Webserver -----------------------------
(***************************************************************************)
(* c/webserver/main.c: one loop that answers LCP, IPCP and TCP frames from  *)
(* a serial line, with a table of connections, against a PPP peer and TCP   *)
(* clients (external).  The line keeps order and loses nothing, but the      *)
(* machine is slow, so clients time out and send again.  Sequence numbers   *)
(* are those of the server's stream; a frame carries what main looks at.     *)
(***************************************************************************)
EXTENDS Integers, Sequences, SequencesExt, FiniteSets

CONSTANTS Ports,        \* client ports
          MAX_CONNS,    \* entries of conns
          HLEN,         \* length of the HTTP response
          FINLEN,       \* length of a client's FIN packet, header and options
          CONNECTIONS, RETRIES, NAKS    \* bounds on what peer and clients do

ISS == 1000             \* the server's initial sequence number
BARE == 40              \* IP and TCP headers without options

VARIABLES
  ipcp_done, ipcp_id,
  conns,                \* the first num_conns entries
  toServer, toPeer,     \* frames on the line
  client,               \* per port: state, next expected sequence number, connections made
  naks, retries         \* how often peer and clients have used their bounds

server == <<ipcp_done, ipcp_id, conns>>
peer   == <<client, naks, retries>>
vars   == <<server, toServer, toPeer, peer>>

Ctl(proto, code) == [proto |-> proto, code |-> code]
(* tseq, and ack in an answer, stand for the client's sequence space: the     *)
(* number of the connection.                                                  *)
Seg(p, flags, dlen, len) ==
  [proto |-> "ip", port |-> p, tseq |-> client[p].made, flags |-> flags, dlen |-> dlen, len |-> len]
Out(f, kind, seq) == [proto |-> "ip", port |-> f.port, ack |-> f.tseq, kind |-> kind, seq |-> seq]

Init ==
  /\ ipcp_done = FALSE /\ ipcp_id = 1
  /\ conns = <<>>
  /\ toServer = <<Ctl("lcp", 1), Ctl("ipcp", 1)>>
  /\ toPeer = <<Ctl("lcp", 1)>>
  /\ client = [p \in Ports |-> [state |-> "closed", rcv |-> 0, made |-> 0]]
  /\ naks = 0 /\ retries = 0

-----------------------------------------------------------------------------
(* The server: one action per branch of the loop in main *)

Frame == Head(toServer)
Got(proto) == toServer # <<>> /\ Frame.proto = proto /\ toServer' = Tail(toServer)
Send(frames) == toPeer' = toPeer \o frames

LcpRequest ==
  /\ Got("lcp") /\ Send(<<Ctl("lcp", 2)>>)
  /\ UNCHANGED <<server, peer>>

IpcpRequest ==
  /\ Got("ipcp") /\ Frame.code = 1
  /\ Send(<<Ctl("ipcp", 2)>> \o IF ipcp_done THEN <<>> ELSE <<Ctl("ipcp", 1)>>)
  /\ ipcp_id' = IF ipcp_done THEN ipcp_id ELSE ipcp_id + 1
  /\ UNCHANGED <<ipcp_done, conns, peer>>

IpcpAck ==
  /\ Got("ipcp") /\ Frame.code = 2
  /\ ipcp_done' = TRUE
  /\ UNCHANGED <<ipcp_id, conns, toPeer, peer>>

(* Mutant: a NAK is not answered. *)
IpcpNak_Silent ==
  /\ Got("ipcp") /\ Frame.code = 3
  /\ UNCHANGED <<server, toPeer, peer>>

IpcpNak ==
  /\ Got("ipcp") /\ Frame.code = 3
  /\ Send(<<Ctl("ipcp", 1)>>)
  /\ ipcp_id' = ipcp_id + 1
  /\ UNCHANGED <<ipcp_done, conns, peer>>

(* The index of the port's entry, or 0. *)
ci(p) == LET found == {i \in 1 .. Len(conns) : conns[i].port = p}
         IN  IF found = {} THEN 0 ELSE CHOOSE i \in found : \A j \in found : i <= j
Tracked(p) == ci(p) # 0
Seq0(p) == IF Tracked(p) THEN conns[ci(p)].seq ELSE ISS + 1

Tcp == Got("ip") /\ Frame.len > BARE /\ UNCHANGED <<ipcp_done, ipcp_id, peer>>

(* Mutant: an entry that is found keeps its sequence number. *)
Syn_KeepSeq ==
  /\ Tcp /\ "SYN" \in Frame.flags
  /\ conns' = IF ~Tracked(Frame.port) /\ Len(conns) < MAX_CONNS
              THEN Append(conns, [port |-> Frame.port, seq |-> ISS + 1]) ELSE conns
  /\ Send(<<Out(Frame, "synack", ISS)>>)

(* SYN: find or make an entry, if there is room; answer in any case. *)
Syn ==
  /\ Tcp /\ "SYN" \in Frame.flags
  /\ conns' = IF Tracked(Frame.port) THEN [conns EXCEPT ![ci(Frame.port)].seq = ISS + 1]
              ELSE IF Len(conns) < MAX_CONNS
              THEN Append(conns, [port |-> Frame.port, seq |-> ISS + 1]) ELSE conns
  /\ Send(<<Out(Frame, "synack", ISS)>>)

(* Mutant: the sequence number does not move past the response. *)
Data_NoAdvance ==
  /\ Tcp /\ "SYN" \notin Frame.flags /\ Frame.dlen > 0
  /\ Send(<<Out(Frame, "http", Seq0(Frame.port))>>)
  /\ UNCHANGED conns

Data ==
  /\ Tcp /\ "SYN" \notin Frame.flags /\ Frame.dlen > 0
  /\ Send(<<Out(Frame, "http", Seq0(Frame.port))>>)
  /\ conns' = IF Tracked(Frame.port)
              THEN [conns EXCEPT ![ci(Frame.port)].seq = @ + HLEN] ELSE conns

(* Mutant: the last entry is dropped instead of the connection's. *)
Fin_DropLast ==
  /\ Tcp /\ Frame.flags = {"FIN"} /\ Frame.dlen = 0
  /\ Send(<<Out(Frame, "finack", Seq0(Frame.port))>>)
  /\ conns' = IF Tracked(Frame.port) THEN Front(conns) ELSE conns

(* FIN: the last entry takes the place of the one removed. *)
Fin ==
  /\ Tcp /\ Frame.flags = {"FIN"} /\ Frame.dlen = 0
  /\ Send(<<Out(Frame, "finack", Seq0(Frame.port))>>)
  /\ conns' = IF Tracked(Frame.port)
              THEN Front([conns EXCEPT ![ci(Frame.port)] = Last(conns)]) ELSE conns

(* len > 40 is false: a segment without options or data. *)
Ignored == Got("ip") /\ Frame.len <= BARE /\ UNCHANGED <<server, toPeer, peer>>

Server == LcpRequest \/ IpcpRequest \/ IpcpAck \/ IpcpNak \/ Syn \/ Data \/ Fin \/ Ignored

-----------------------------------------------------------------------------
(* The peer and its clients (external) *)

Put(frame) == toServer' = Append(toServer, frame)

(* The peer takes our IPCP request, or asks for another address first. *)
PeerControl ==
  /\ toPeer # <<>> /\ Head(toPeer).proto # "ip" /\ toPeer' = Tail(toPeer)
  /\ \/ /\ Head(toPeer) = Ctl("ipcp", 1)
        /\ \/ Put(Ctl("ipcp", 2)) /\ UNCHANGED naks
           \/ naks < NAKS /\ naks' = naks + 1 /\ Put(Ctl("ipcp", 3))
     \/ Head(toPeer) # Ctl("ipcp", 1) /\ UNCHANGED <<toServer, naks>>
  /\ UNCHANGED <<server, client, retries>>

Move(p, from, to) == client[p].state = from /\ client' = [client EXCEPT ![p].state = to]

Connect(p) ==
  /\ ipcp_done /\ client[p].state = "closed" /\ client[p].made < CONNECTIONS
  /\ client' = [client EXCEPT ![p] = [state |-> "syn", rcv |-> 0, made |-> @.made + 1]]
  /\ Put([Seg(p, {"SYN"}, 0, 44) EXCEPT !.tseq = @ + 1])
  /\ UNCHANGED <<server, toPeer, naks, retries>>

Request(p) ==
  /\ Move(p, "open", "requested") /\ Put(Seg(p, {}, 1, 41))
  /\ UNCHANGED <<server, toPeer, naks, retries>>

Close(p) ==
  /\ Move(p, "answered", "fin") /\ Put(Seg(p, {"FIN"}, 0, FINLEN))
  /\ UNCHANGED <<server, toPeer, naks, retries>>

(* The client goes away without a word; its port may be used again. *)
Abandon(p) ==
  /\ retries < RETRIES /\ retries' = retries + 1
  /\ \E from \in {"open", "requested"} : Move(p, from, "closed")
  /\ UNCHANGED <<server, toServer, toPeer, naks>>

Retry(p) ==
  /\ retries < RETRIES /\ retries' = retries + 1
  /\ \/ client[p].state = "syn" /\ Put(Seg(p, {"SYN"}, 0, 44))
     \/ client[p].state = "requested" /\ Put(Seg(p, {}, 1, 41))
  /\ UNCHANGED <<server, toPeer, client, naks>>

(* A TCP client takes only the next segment of the stream it knows, and       *)
(* nothing that acknowledges an earlier connection.                           *)
Accepts(p, s) ==
  /\ s.ack = client[p].made
  /\ client[p].state \notin {"closed", "syn"} => s.kind # "synack" /\ s.seq = client[p].rcv
  /\ client[p].state = "syn" => s.kind = "synack"
  /\ client[p].state # "closed"
Advance(rcv, s) == CASE s.kind = "synack" -> ISS + 1
                     [] s.kind = "http"   -> rcv + HLEN
                     [] s.kind = "finack" -> rcv + 1

Receive ==
  /\ toPeer # <<>> /\ Head(toPeer).proto = "ip" /\ toPeer' = Tail(toPeer)
  /\ LET s == Head(toPeer)
         p == s.port
     IN  IF ~Accepts(p, s) THEN UNCHANGED <<client, toServer>>
         ELSE /\ client' = [client EXCEPT ![p].rcv = Advance(@, s),
                   ![p].state = CASE s.kind = "synack" -> "open"
                                  [] s.kind = "http" /\ @ = "requested" -> "answered"
                                  [] s.kind = "finack" -> "closed"
                                  [] OTHER -> @]
              /\ Put(Seg(p, {}, 0, BARE))
  /\ UNCHANGED <<server, naks, retries>>

Peer == PeerControl \/ Receive
Next == Server \/ Peer
        \/ \E p \in Ports : Connect(p) \/ Request(p) \/ Close(p) \/ Abandon(p) \/ Retry(p)

(* The server's loop runs on; the peer takes what arrives, and a client with  *)
(* an open connection goes on to use and to close it.                         *)
Fairness ==
  /\ WF_vars(Server) /\ WF_vars(Peer)
  /\ \A p \in Ports : WF_vars(Request(p)) /\ WF_vars(Close(p))

Spec == Init /\ [][Next]_vars /\ Fairness

-----------------------------------------------------------------------------
ConstantsOK == MAX_CONNS \in Nat /\ HLEN \in Nat /\ FINLEN \in Nat

(* What the client of port p expects once it has seen all that is on the line. *)
Expected(p, rcv, s) ==
  IF /\ s.proto = "ip" /\ s.port = p /\ s.ack = client[p].made
     /\ s.kind = "synack" \/ s.seq = rcv
  THEN Advance(rcv, s) ELSE rcv
Expects(p) == FoldLeft(LAMBDA rcv, s : Expected(p, rcv, s), client[p].rcv, toPeer)
SynUnderWay(p) == \E k \in 1 .. Len(toServer) :
                    /\ toServer[k].proto = "ip" /\ toServer[k].port = p
                    /\ "SYN" \in toServer[k].flags

(* The table and its clients agree: a port has one entry at most, and its     *)
(* sequence number is the one its client will expect next, whatever is still  *)
(* on the line, was sent twice, or was left behind by an earlier connection    *)
(* of that port (conns).                                                     *)
TableAgrees ==
  /\ Len(conns) <= MAX_CONNS /\ Cardinality({c.port : c \in ToSet(conns)}) = Len(conns)
  /\ \A i \in 1 .. Len(conns) :
    LET p == conns[i].port
    IN  client[p].state # "closed" /\ ~SynUnderWay(p)
          => conns[i].seq = Expects(p)

(* A segment of one client leaves the entries of the others as they are,      *)
(* wherever the removal moves them.                                          *)
OthersKept ==
  [][\A p \in Ports : Tracked(p) /\ ~(toServer # <<>> /\ Frame.proto = "ip" /\ Frame.port = p)
                        => Tracked(p)' /\ Seq0(p)' = Seq0(p)]_vars

(* The negotiation opens, however often the peer sends a NAK first: the line   *)
(* does not fall silent before it has.                                       *)
Opens == toServer = <<>> /\ toPeer = <<>> => ipcp_done

(* A client that has asked gets its answer, also one for which the table has   *)
(* no room, and one in the table that closes is let go.                       *)
Owed(p) == client[p].state = "requested" \/ (client[p].state = "fin" /\ Tracked(p))
Answered == \A p \in Ports : Owed(p) ~> client[p].state \notin {"requested", "fin"}

(* main.c:259, of the last branch: "FIN -> FIN-ACK".                          *)
FinAnswered == \A p \in Ports : client[p].state = "fin" ~> client[p].state = "closed"
=============================================================================
