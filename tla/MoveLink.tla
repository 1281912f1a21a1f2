------------------------------ MODULE MoveLink ------------------------------
(***************************************************************************)
(* The numbered lines between a player and a match (human-match-service.mjs: *)
(* handleLine from the sequence envelope on, sendPlayGame, sendPeer,        *)
(* rejectConnection).  A connection delivers in order what it delivers, but *)
(* it may break at any moment, with lines under way in both directions and  *)
(* before the server knows; the numbers outlive it, and a playgame answers  *)
(* with all that happened meanwhile.  The player is an external client, as  *)
(* the tests of the repository have it: it numbers on from what the answer  *)
(* says, adds its own moves to its record as it sends them, and may repeat  *)
(* its last line.  Moves alternate; whether the engine accepts one is left  *)
(* open.                                                                    *)
(***************************************************************************)
EXTENDS Integers, Sequences, FiniteSets

CONSTANTS MaxMoves,   \* bound: moves of the match
          MaxLines    \* bound: numbers a direction uses

ASSUME LinkAssumption == MaxMoves \in Nat /\ MaxLines \in Nat

VARIABLES
  link,      \* what the server makes of the connection; "ended" once it rejected a
             \* line, "refused" if for the numbers on it
  server,    \* started; all_moves of the record; clientSendIndex, serverSendIndex
  client,    \* its copy of these, and the last line it sent, if on this connection
  toServer, toClient
linkVars == <<link, server, client, toServer, toClient>>

Mine == "mine"
Theirs == "theirs"
OnTurn(record) == IF Len(record) % 2 = 0 THEN Mine ELSE Theirs

PlayGame == [command |-> "playgame", sent |-> server.sent, got |-> server.got, record |-> server.record]
Numbered(index, ack, command) == [command |-> command, index |-> index, ack |-> ack]
Playgame == [command |-> "playgame"]

LinkInit == /\ link = "down" /\ toServer = <<>> /\ toClient = <<>>
            /\ server = [started |-> FALSE, record |-> <<>>, got |-> -1, sent |-> -1]
            /\ client = [synced |-> FALSE, record |-> <<>>, got |-> -1, sent |-> -1, last |-> <<>>]

-----------------------------------------------------------------------------
(***************************************************************************)
(* The player.                                                              *)
(***************************************************************************)
\* A new connection, with a fresh ticket, replaces the one there was.
Connect == /\ link' = "login" /\ toServer' = <<Playgame>> /\ toClient' = <<>>
           /\ client' = [client EXCEPT !.synced = FALSE, !.last = <<>>]
           /\ UNCHANGED server

Send(command) ==
  /\ client.synced /\ client.sent < MaxLines
  /\ LET line == Numbered(client.sent + 1, client.got, command) IN
     /\ toServer' = Append(toServer, line)
     /\ client' = [client EXCEPT !.sent = @ + 1, !.last = <<line>>,
                     !.record = IF command = "do_move" THEN Append(@, Mine) ELSE @]
  /\ UNCHANGED <<link, server, toClient>>
SendMove == OnTurn(client.record) = Mine /\ Len(client.record) < MaxMoves /\ Send("do_move")
SendTime == Send("time")
Repeat == client.synced /\ toServer' = toServer \o client.last /\ client.last # <<>>
          /\ Len(toServer) <= MaxLines /\ UNCHANGED <<link, server, client, toClient>>

\* A first command has the number 0 or 1.
ClientReads ==
  /\ toClient # <<>> /\ toClient' = Tail(toClient)
  /\ LET line == Head(toClient) IN
     \/ /\ line.command = "playgame"
        /\ \E first \in {0, 1} :
             client' = [synced |-> TRUE, record |-> line.record, got |-> line.sent, last |-> <<>>,
                        sent |-> IF line.got < 0 THEN first - 1 ELSE line.got]
     \/ /\ line.command # "playgame"
        /\ client' = [client EXCEPT !.got = line.index,
                        !.record = IF line.command = "do_move" THEN Append(@, Theirs) ELSE @]
  /\ UNCHANGED <<link, server, toServer>>

-----------------------------------------------------------------------------
(***************************************************************************)
(* The server.                                                              *)
(***************************************************************************)
\* The server learns that the connection is gone.
Lost == link # "down" /\ link' = "down" /\ toServer' = <<>> /\ toClient' = <<>>
        /\ client' = [client EXCEPT !.synced = FALSE, !.last = <<>>] /\ UNCHANGED server

\* sendPeer: before its playgame a player gets no lines, the answer has it all.
SendPeer(s, command) ==
  IF link = "ready"
  THEN /\ server' = [s EXCEPT !.sent = @ + 1]
       /\ toClient' = Append(toClient, Numbered(s.sent + 1, s.got, command))
  ELSE server' = s /\ UNCHANGED toClient

OpponentMoves ==
  /\ server.started /\ OnTurn(server.record) = Theirs /\ Len(server.record) < MaxMoves
  /\ server.sent < MaxLines
  /\ SendPeer([server EXCEPT !.record = Append(@, Theirs)], "do_move")
  /\ UNCHANGED <<link, client, toServer>>

Reject(how) == link' = how /\ UNCHANGED toClient

\* The match starts when both are ready, the opponent before or after.
ReadPlaygame == /\ link' = "ready"
                /\ \/ /\ ~server.started /\ UNCHANGED <<server, toClient>>
                   \/ /\ server' = [server EXCEPT !.started = TRUE]
                      /\ toClient' = Append(toClient, PlayGame)
OpponentReady == /\ link = "ready" /\ ~server.started
                 /\ server' = [server EXCEPT !.started = TRUE]
                 /\ toClient' = Append(toClient, PlayGame)
                 /\ UNCHANGED <<link, client, toServer>>

\* Mutant: the last number that was read is not known any more.
KnownBefore(index) == index < server.got
\* A number that was read is ignored, whatever the line says; a later one than
\* the next is not accepted.
Known(index) == index <= server.got
Gap(index) == IF server.got >= 0 THEN index # server.got + 1 ELSE index > 1

Numbers(line) == [server EXCEPT !.got = line.index]
ReadMove(line) ==
  \/ /\ OnTurn(server.record) = Mine /\ UNCHANGED <<link, toClient>>
     /\ server' = [Numbers(line) EXCEPT !.record = Append(@, Mine)]
  \/ server' = Numbers(line) /\ Reject("ended")     \* not a move the engine accepts
ReadTime(line) ==
  /\ server.sent < MaxLines /\ SendPeer(Numbers(line), "time") /\ UNCHANGED link

ReadLine(line) ==
  \/ line.ack > server.sent /\ Reject("refused") /\ UNCHANGED server
  \/ /\ line.ack <= server.sent /\ Known(line.index)
     /\ UNCHANGED <<link, server, toClient>>
  \/ /\ line.ack <= server.sent /\ ~Known(line.index) /\ Gap(line.index)
     /\ Reject("refused") /\ UNCHANGED server
  \/ /\ line.ack <= server.sent /\ ~Known(line.index) /\ ~Gap(line.index)
     /\ \/ line.command = "do_move" /\ ReadMove(line)
        \/ line.command = "time" /\ ReadTime(line)

\* A line after a rejected one is not read, even if it came with it.
ServerReads ==
  /\ link \in {"login", "ready"} /\ toServer # <<>> /\ toServer' = Tail(toServer)
  /\ IF Head(toServer).command = "playgame" THEN ReadPlaygame ELSE ReadLine(Head(toServer))
  /\ UNCHANGED client

LinkNext == \/ Connect \/ Lost \/ SendMove \/ SendTime \/ Repeat \/ ClientReads
            \/ ServerReads \/ OpponentMoves \/ OpponentReady
LinkSpec == LinkInit /\ [][LinkNext]_linkVars

-----------------------------------------------------------------------------
\* The moves under way, by their numbers: the player's, counted once however
\* often they are repeated, and the opponent's.
Coming == {toServer[i].index : i \in {j \in DOMAIN toServer :
             toServer[j].command = "do_move" /\ toServer[j].index > server.got}}
News == {toClient[i].index : i \in {j \in DOMAIN toClient : toClient[j].command = "do_move"}}

\* Through lost connections, repeated lines and lines that cross, the player and
\* the server agree on the match: on a connection that was not rejected, the
\* server's record with the player's moves under way is the player's record with
\* the server's moves under way, so that no move is read twice or left out; the
\* server's lines number on from the last one read; and a player that numbers
\* on is never refused for its numbers.
InStep ==
  /\ link # "refused"
  /\ client.synced /\ link = "ready" =>
       /\ \A i \in DOMAIN toClient : toClient[i].index = client.got + i
       /\ server.sent = client.got + Len(toClient)
       /\ server.record \o [i \in 1..Cardinality(Coming) |-> Mine]
            = client.record \o [i \in 1..Cardinality(News) |-> Theirs]
=============================================================================
