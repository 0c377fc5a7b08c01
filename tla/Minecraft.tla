----------------------------- MODULE Minecraft -----------------------------
(***************************************************************************)
(* c/minecraft/main.c: the server of Webserver with a state per connection   *)
(* and a buffer, shared by all connections, in which packets are put back     *)
(* together that TCP cut anywhere.  PPP negotiation is Webserver's; here the  *)
(* link is open.  A packet is SIZE units long, its length in the first; the   *)
(* client (external) makes one connection after the other, says what the      *)
(* game's protocol has it say, and leaves each with a FIN that has TCP         *)
(* options (one without is too short to be looked at) or without a word.      *)
(***************************************************************************)
EXTENDS Integers, Sequences, SequencesExt

CONSTANTS Sessions,     \* the connections of a client: "status" or "login", in order
          MAX_CONNS,
          BUFSIZE,      \* size of mc_buf, in units
          MSS,          \* most units in a segment
          RETRIES       \* bound: how often the client sends something again

ISS == 1000
STATE_HANDSHAKE == 0
STATE_STATUS == 1
STATE_LOGIN  == 2
STATE_CONFIG == 3
STATE_PLAY   == 4

(* What the client says: id of each packet, the next state it asks for, its   *)
(* length, and how many answers it waits for before it says it.               *)
P(id, next, size, after) == [id |-> id, next |-> next, size |-> size, after |-> after]
Script ==
  [status |-> <<P(0, STATE_STATUS, 2, 0), P(0, 0, 1, 0)>>,
   login  |-> <<P(0, STATE_LOGIN, 2, 0), P(0, 0, 3, 0), P(3, 0, 1, 1), P(0, 0, 2, 1),
                P(7, 0, 2, 4), P(3, 0, 1, 5), P(0, 0, 1, 6)>>]

(* What the protocol has a server answer to the first k packets of a session, *)
(* and the state it leaves the connection in.                                 *)
Answers(kind, k) ==
  LET login == <<"login_success", "known_packs", "registries", "tags", "finish_config", "play">>
  IN  IF kind = "status" \/ k = 0 THEN <<>> ELSE SubSeq(login, 1, <<0, 1, 1, 4, 5, 6, 6>>[k])
StateAfter(kind, k) ==
  IF k = 0 THEN STATE_HANDSHAKE
  ELSE IF kind = "status" THEN STATE_STATUS
  ELSE <<2, 2, 3, 3, 3, 4, 4>>[k]

Length == [login_success |-> 2, known_packs |-> 1, registries |-> 3, tags |-> 1,
           finish_config |-> 1, play |-> 2]
Units == [kind \in DOMAIN Script |->
            FlattenSeq([k \in DOMAIN Script[kind] |->
                          [j \in 1 .. Script[kind][k].size |-> <<k, j>>]])]
(* The units of the first k packets. *)
Ends == [kind \in DOMAIN Script |->
           [k \in 0 .. Len(Script[kind]) |->
              FoldLeft(LAMBDA n, p : n + p.size, 0, SubSeq(Script[kind], 1, k))]]

VARIABLES conns, mc_buf,
          label,        \* "recv", or "parse" inside the loop over mc_buf
          seg,          \* the segment being handled
          seq, mc_state,\* locals of that branch
          toServer,
          session,      \* number of the client's connection
          said,         \* units the client has sent on it
          heard,        \* answers it has received
          opened,       \* whether it has its SYN-ACK
          toClient, retries,
          delivered, answered   \* history: units taken and answers given on this connection

server == <<conns, mc_buf, label, seg, seq, mc_state>>
client == <<session, said, heard, opened, retries>>
history == <<delivered, answered>>
vars == <<server, toServer, toClient, client, history>>

Kind == Sessions[session]
NoSeg == [port |-> 0, flags |-> {}, units |-> <<>>]

Init ==
  /\ conns = <<>> /\ mc_buf = <<>> /\ label = "recv" /\ seg = NoSeg
  /\ seq = 0 /\ mc_state = 0
  /\ toServer = <<[port |-> 1, flags |-> {"SYN"}, units |-> <<>>]>> /\ toClient = <<>>
  /\ session = 1 /\ said = 0 /\ heard = 0 /\ opened = FALSE /\ retries = 0
  /\ delivered = 0 /\ answered = <<>>

-----------------------------------------------------------------------------
(* The server *)

Out(p, kind, n) == [port |-> p, kind |-> kind, seq |-> n]
ci(p) == LET found == {i \in 1 .. Len(conns) : conns[i].port = p}
         IN  IF found = {} THEN 0 ELSE CHOOSE i \in found : TRUE

Recv == label = "recv" /\ toServer # <<>> /\ toServer' = Tail(toServer) /\ UNCHANGED client

(* Mutant: what the connection before left in the buffer stays there. *)
Syn_KeepBuf ==
  /\ Recv /\ "SYN" \in Head(toServer).flags
  /\ LET p == Head(toServer).port
         fresh == [port |-> p, seq |-> ISS + 1, mc_state |-> STATE_HANDSHAKE]
     IN  /\ conns' = IF ci(p) # 0 THEN [conns EXCEPT ![ci(p)] = fresh]
                     ELSE IF Len(conns) < MAX_CONNS THEN Append(conns, fresh) ELSE conns
         /\ toClient' = Append(toClient, Out(p, "synack", ISS))
  /\ delivered' = 0 /\ answered' = <<>>
  /\ UNCHANGED <<mc_buf, label, seg, seq, mc_state>>

Syn ==
  /\ Recv /\ "SYN" \in Head(toServer).flags
  /\ LET p == Head(toServer).port
         fresh == [port |-> p, seq |-> ISS + 1, mc_state |-> STATE_HANDSHAKE]
     IN  /\ conns' = IF ci(p) # 0 THEN [conns EXCEPT ![ci(p)] = fresh]
                     ELSE IF Len(conns) < MAX_CONNS THEN Append(conns, fresh) ELSE conns
         /\ toClient' = Append(toClient, Out(p, "synack", ISS))
  /\ mc_buf' = <<>>
  /\ delivered' = 0 /\ answered' = <<>>
  /\ UNCHANGED <<label, seg, seq, mc_state>>

(* Mutant: a segment that just fills the buffer is dropped. *)
Data_OffByOne ==
  /\ Recv /\ Head(toServer).flags = {} /\ ci(Head(toServer).port) # 0
  /\ seg' = Head(toServer)
  /\ seq' = conns[ci(Head(toServer).port)].seq
  /\ mc_state' = conns[ci(Head(toServer).port)].mc_state
  /\ toClient' = Append(toClient, Out(seg'.port, "ack", seq'))
  /\ mc_buf' = IF Len(mc_buf) + Len(seg'.units) < BUFSIZE THEN mc_buf \o seg'.units ELSE mc_buf
  /\ delivered' = delivered + Len(seg'.units)
  /\ label' = "parse"
  /\ UNCHANGED <<conns, answered>>

(* Data of a connection in the table: acknowledged, then appended if it fits. *)
Data ==
  /\ Recv /\ Head(toServer).flags = {} /\ ci(Head(toServer).port) # 0
  /\ seg' = Head(toServer)
  /\ seq' = conns[ci(Head(toServer).port)].seq
  /\ mc_state' = conns[ci(Head(toServer).port)].mc_state
  /\ toClient' = Append(toClient, Out(seg'.port, "ack", seq'))
  /\ mc_buf' = IF Len(mc_buf) + Len(seg'.units) <= BUFSIZE THEN mc_buf \o seg'.units ELSE mc_buf
  /\ delivered' = delivered + Len(seg'.units)
  /\ label' = "parse"
  /\ UNCHANGED <<conns, answered>>

(* Data or FIN of a connection that is not in the table: not answered.        *)
Unknown ==
  /\ Recv /\ "SYN" \notin Head(toServer).flags /\ ci(Head(toServer).port) = 0
  /\ UNCHANGED <<server, toClient, history>>

(* FIN -> FIN-ACK; the last entry of the table moves into the gap.            *)
Fin ==
  /\ Recv /\ "FIN" \in Head(toServer).flags
  /\ LET p == Head(toServer).port
         last == Len(conns)
     IN  /\ ci(p) # 0
         /\ toClient' = Append(toClient, Out(p, "finack", conns[ci(p)].seq))
         /\ conns' = SubSeq([conns EXCEPT ![ci(p)] = conns[last]], 1, last - 1)
  /\ UNCHANGED <<mc_buf, label, seg, seq, mc_state, history>>

(* The packet at the head of the buffer, which starts with its length.        *)
Packet == Script[Kind][Head(mc_buf)[1]]
Complete == mc_buf # <<>> /\ Packet.size <= Len(mc_buf)

(* The loop over complete packets: one step for each packet. *)
Take(state, kinds) ==
  /\ label = "parse" /\ Complete
  /\ mc_state' = state
  /\ toClient' = toClient \o
       [i \in DOMAIN kinds |->
          Out(seg.port, kinds[i],
              seq + FoldLeft(LAMBDA n, k : n + Length[k], 0, SubSeq(kinds, 1, i - 1)))]
  /\ seq' = seq + FoldLeft(LAMBDA n, k : n + Length[k], 0, kinds)
  /\ answered' = answered \o kinds
  /\ mc_buf' = SubSeq(mc_buf, Packet.size + 1, Len(mc_buf))
  /\ UNCHANGED <<conns, label, seg, toServer, client, delivered>>

Is(state, id) == label = "parse" /\ Complete /\ mc_state = state /\ Packet.id = id

Handshake == Is(STATE_HANDSHAKE, 0) /\ Take(Packet.next, <<>>)
LoginStart == Is(STATE_LOGIN, 0) /\ Take(mc_state, <<"login_success">>)
LoginAcknowledged == Is(STATE_LOGIN, 3) /\ Take(STATE_CONFIG, <<>>)
ClientInformation == Is(STATE_CONFIG, 0) /\ Take(mc_state, <<"known_packs", "registries", "tags">>)
KnownPacks == Is(STATE_CONFIG, 7) /\ Take(mc_state, <<"finish_config">>)
AcknowledgeFinish == Is(STATE_CONFIG, 3) /\ Take(STATE_PLAY, <<"play">>)
IgnorePacket ==
  /\ label = "parse" /\ Complete
  /\ <<mc_state, Packet.id>> \notin {<<STATE_HANDSHAKE, 0>>, <<STATE_LOGIN, 0>>, <<STATE_LOGIN, 3>>,
                                     <<STATE_CONFIG, 0>>, <<STATE_CONFIG, 3>>, <<STATE_CONFIG, 7>>}
  /\ Take(mc_state, <<>>)

(* No complete packet is left: the locals go back to the table. *)
EndData ==
  /\ label = "parse" /\ ~Complete /\ label' = "recv"
  /\ conns' = [conns EXCEPT ![ci(seg.port)].seq = seq, ![ci(seg.port)].mc_state = mc_state]
  /\ seg' = NoSeg /\ seq' = 0 /\ mc_state' = 0
  /\ UNCHANGED <<mc_buf, toServer, toClient, client, history>>

Parse == Handshake \/ LoginStart \/ LoginAcknowledged \/ ClientInformation \/ KnownPacks
         \/ AcknowledgeFinish \/ IgnorePacket
Server == Syn \/ Data \/ Unknown \/ Fin \/ Parse \/ EndData

-----------------------------------------------------------------------------
(* The client (external) *)

(* A segment of up to MSS units, cut anywhere, of what it has to say by now.  *)
MaySay ==
  LET units == Units[Kind]
  IN  {n \in 1 .. MSS : /\ said + n <= Len(units)
                        /\ Script[Kind][units[said + n][1]].after <= heard}
SendUnits(n) ==
  /\ said' = said + n
  /\ toServer' = Append(toServer, [port |-> session, flags |-> {},
                                   units |-> SubSeq(Units[Kind], said + 1, said + n)])
  /\ UNCHANGED <<server, toClient, session, heard, opened, retries, history>>

(* The SYN again, before its answer has come. *)
RetrySyn ==
  /\ ~opened /\ retries < RETRIES /\ retries' = retries + 1
  /\ toServer' = Append(toServer, [port |-> session, flags |-> {"SYN"}, units |-> <<>>])
  /\ UNCHANGED <<server, toClient, session, said, heard, opened, history>>

(* The next connection, from another port, after a status session or before   *)
(* the end of one, which is closed or just left.                             *)
NextSession ==
  /\ session < Len(Sessions) /\ session' = session + 1
  /\ said' = 0 /\ heard' = 0 /\ opened' = FALSE
  /\ \E flags \in {{}, {"FIN"}} :
       toServer' = (IF flags = {} THEN <<>> ELSE <<[port |-> session, flags |-> flags, units |-> <<>>]>>)
                   \o <<[port |-> session', flags |-> {"SYN"}, units |-> <<>>]>>
  /\ toServer = <<>> /\ label = "recv"
  /\ UNCHANGED <<server, toClient, retries, history>>

Hear ==
  /\ toClient # <<>> /\ toClient' = Tail(toClient)
  /\ IF Head(toClient).port # session \/ Head(toClient).kind \in {"ack", "finack"} THEN UNCHANGED <<heard, opened>>
     ELSE IF Head(toClient).kind = "synack" THEN opened' = TRUE /\ UNCHANGED heard
     ELSE heard' = heard + 1 /\ UNCHANGED opened
  /\ UNCHANGED <<server, toServer, session, said, retries, history>>

Say == opened /\ \E n \in MaySay : SendUnits(n)
Client == Say \/ RetrySyn \/ NextSession \/ Hear

Next == Server \/ Client
Spec == Init /\ [][Next]_vars /\ WF_vars(Server) /\ WF_vars(Hear) /\ WF_vars(Say)

-----------------------------------------------------------------------------
(* How many packets have arrived whole on this connection. *)
Whole ==
  LET ends == Ends[Kind]
  IN  CHOOSE k \in 0 .. Len(Script[Kind]) : /\ ends[k] <= delivered
                                            /\ k = Len(Script[Kind]) \/ ends[k + 1] > delivered
Current == label = "recv" /\ ci(session) # 0 /\ \A k \in 1 .. Len(toServer) : toServer[k].flags = {}

(* However TCP cuts the stream, between segments the server has answered all  *)
(* the packets that have arrived whole, in order, each once; its state is the *)
(* one the protocol has reached, and its sequence number counts what was sent, *)
(* so that the client finds no gap in the stream (the loop at main.c:443).     *)
AnswersFollowPackets ==
  Current => /\ answered = Answers(Kind, Whole)
             /\ conns[ci(session)].mc_state = StateAfter(Kind, Whole)
             /\ conns[ci(session)].seq =
                  ISS + 1 + FoldLeft(LAMBDA n, k : n + Length[k], 0, answered)

(* A login of a connection in the table that is not given up is let into the  *)
(* game, whatever the connections before it left behind.                     *)
Playing == heard >= Len(Answers("login", 7))
Joins == (opened /\ Kind = "login" /\ ci(session) # 0) ~> (Playing \/ ~opened)
=============================================================================
