----------------------------- MODULE MCNetwork -----------------------------
(***************************************************************************)
(* The programs on the serial line, one at a time, as the machine runs one    *)
(* tape: the PPP framing (PppLink), the web server (Webserver), the game     *)
(* server (Minecraft) and the arithmetic in their packets (Packets).  The     *)
(* others keep their initial states.  The web server is there twice: with     *)
(* room for all clients, so that entries move, and with room for one.         *)
(***************************************************************************)
EXTENDS Webserver

CONSTANTS Payloads, MAXFRAMES, SHARED,
          Sessions, BUFSIZE, MSS, GAME_RETRIES,
          Values, Bytes, MAXLEN

VARIABLES tape,         \* the program that runs
  sent, shared, line, mode, buf, esc, received,
  mc_conns, mc_buf, label, seg, seq, mc_state, mc_toServer, session, said, heard, opened,
  toClient, mc_retries, delivered, answered,
  val, seen, data

Ppp  == INSTANCE PppLink
Full == INSTANCE Webserver WITH MAX_CONNS <- 1
ASSUME WebConstants == ConstantsOK
Game == INSTANCE Minecraft WITH conns <- mc_conns, toServer <- mc_toServer,
          retries <- mc_retries, RETRIES <- GAME_RETRIES
Packet == INSTANCE Packets

ppp == <<sent, shared, line, mode, buf, esc, received>>
web == vars
game == <<mc_conns, mc_buf, label, seg, seq, mc_state, mc_toServer, session, said, heard, opened,
          toClient, mc_retries, delivered, answered>>
packet == <<val, seen, data>>
all == <<tape, ppp, web, game, packet>>
Runs(program) == tape = program /\ UNCHANGED tape

MCInit ==
  /\ tape \in {"ppp", "web", "full", "game", "packets"}
  /\ Ppp!Init /\ Init /\ Game!Init
  /\ IF tape = "packets" THEN Packet!Init ELSE val = 0 /\ seen = <<>> /\ data = <<>>

PppRuns(A) == Runs("ppp") /\ A /\ UNCHANGED <<web, game, packet>>
WebRuns(A, B) ==
  /\ \/ Runs("web") /\ A
     \/ Runs("full") /\ B
  /\ UNCHANGED <<ppp, game, packet>>
GameRuns(A) == Runs("game") /\ A /\ UNCHANGED <<ppp, web, packet>>

MCNext ==
  \/ PppRuns(Ppp!Next)
  \/ WebRuns(Next, Full!Next)
  \/ GameRuns(Game!Next)
  \/ Runs("packets") /\ Packet!Next /\ UNCHANGED <<ppp, web, game>>

(* The fairness of each program's own specification. *)
MCFairness ==
  /\ WF_all(WebRuns(Server, Full!Server)) /\ WF_all(WebRuns(Peer, Full!Peer))
  /\ \A p \in Ports : /\ WF_all(WebRuns(Request(p), Full!Request(p)))
                      /\ WF_all(WebRuns(Close(p), Full!Close(p)))
  /\ WF_all(GameRuns(Game!Server)) /\ WF_all(GameRuns(Game!Hear)) /\ WF_all(GameRuns(Game!Say))

MCSpec == MCInit /\ [][MCNext]_all /\ MCFairness

-----------------------------------------------------------------------------
(* Of Webserver: Opens, and OthersKept (main). *)

(* main gets the frames that were sent, in order and all (ppp_recv). *)
FramesInOrder == Ppp!FramesInOrder

(* The entries of conns are what the clients expect (webserver, main). *)
TablesAgree == IF tape = "full" THEN Full!TableAgrees ELSE TableAgrees

(* Requests and closing clients are answered (webserver, main). *)
WebAnswered == tape \in {"web", "full"} => Answered

(* Answers follow the packets that have arrived whole (minecraft, main). *)
AnswersFollowPackets == Game!AnswersFollowPackets

(* A login is let into the game (minecraft, main). *)
Joins == tape = "game" => Game!Joins

(* Numbers are read back, and not before they are whole (varint_decode). *)
DecodesWhenWhole == tape = "packets" => Packet!DecodesWhenWhole

(* A packet sums to zero with its checksum (checksum). *)
SumsToZero == tape = "packets" => Packet!SumsToZero

-----------------------------------------------------------------------------
(* Payloads of flags, escapes, control characters and plain bytes, under      *)
(* three protocols; values next to every boundary of the variable-length      *)
(* integers; a status session and two logins.                               *)
MCPayloads == {<<33, <<126>> >>, <<33, <<125, 94>> >>, <<32801, <<2>> >>, <<49185, <<1, 65>> >>}
MCSessions == <<"status", "login", "login">>
Max32 == 2147483647
MCValues == UNION {{2^k - 1, 2^k, -(2^k), -(2^k) - 1} : k \in {0, 6, 7, 8, 13, 14, 20, 21, 27, 28, 30}}
            \cup {Max32, -Max32 - 1}
MCBytes == {0, 1, 255}
=============================================================================
