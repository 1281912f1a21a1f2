------------------------------ MODULE EdgeProofs ------------------------------
(***************************************************************************)
(* What a player meets before and around the moves: the order of the       *)
(* sequenced link, for records of any length and any loss of connection,   *)
(* and the order of the rate limiter's table, for every address space,     *)
(* limit, window, capacity and largest stamp, under any movement of the    *)
(* clock.                                                                  *)
(*                                                                         *)
(* The link.  InStep says that an acknowledged move is known to both sides *)
(* and needs the lines themselves: LinkInv says that they carry on from    *)
(* the last one read, that one number stands for one line, and that a move *)
(* is under way in one direction only, because the records alternate.      *)
(***************************************************************************)
EXTENDS RateLimiter, MoveLink, TLAPS, WellFoundedInduction, FiniteSetTheorems

Indexes == {n \in Int : n >= -1}
Records == Seq({Mine, Theirs})
Line == [command : {"do_move", "time"}, index : Indexes, ack : Indexes]
Answer == [command : {"playgame"}, sent : Indexes, got : Indexes, record : Records]

LinkTypeOK ==
  /\ link \in {"down", "login", "ready", "ended", "refused"}
  /\ server \in [started : BOOLEAN, record : Records, got : Indexes, sent : Indexes]
  /\ client \in [synced : BOOLEAN, record : Records, got : Indexes, sent : Indexes,
                 last : {<<>>} \cup {<<line>> : line \in Line}]
  /\ toServer \in Seq(Line \cup {Playgame})
  /\ toClient \in Seq(Line \cup Answer)

Alternates(record) == \A i \in 1..Len(record) : record[i] = IF i % 2 = 1 THEN Mine ELSE Theirs

\* Without a connection, or before its playgame is read, nothing else is under way.
Quiet == /\ link = "down" => ~client.synced /\ toServer = <<>> /\ toClient = <<>>
         /\ link = "login" => ~client.synced /\ toServer = <<Playgame>> /\ toClient = <<>>
         /\ link = "ready" /\ ~client.synced => toServer = <<>>
         /\ link = "ready" /\ ~server.started => ~client.synced /\ toClient = <<>>

\* The answer on its way is the server's state of now, but for one move behind it.
Answered == link = "ready" /\ server.started /\ ~client.synced =>
  /\ toClient # <<>> /\ toClient[1] \in Answer
  /\ toClient[1].got = server.got /\ Alternates(toClient[1].record)
  /\ \/ /\ Len(toClient) = 1 /\ server.sent = toClient[1].sent
        /\ Len(server.record) = Len(toClient[1].record)
     \/ /\ Len(toClient) = 2 /\ server.sent = toClient[1].sent + 1
        /\ Len(server.record) = Len(toClient[1].record) + 1 /\ Len(toClient[1].record) % 2 = 1
        /\ toClient[2] \in Line /\ toClient[2].command = "do_move"
        /\ toClient[2].index = toClient[1].sent + 1

Synced == link = "ready" /\ client.synced

FromServer == Synced =>
  /\ toClient \in Seq(Line)
  /\ \A i \in 1..Len(toClient) : toClient[i].index = client.got + i
  /\ server.sent = client.got + Len(toClient)

\* The player's lines go on from the last one read, one after the other, and a
\* number stands for one line.
FromClient == Synced =>
  /\ toServer \in Seq(Line)
  /\ server.got <= client.sent
  /\ \A i \in 1..Len(toServer) : toServer[i].index <= client.sent /\ toServer[i].ack <= server.sent
  /\ \A i \in 1..Len(toServer) : \A j \in 1..Len(toServer) : i < j =>
       /\ toServer[i].index <= toServer[j].index
       /\ toServer[i].index = toServer[j].index => toServer[i] = toServer[j]
  /\ \A i \in 1..(Len(toServer) - 1) : toServer[i + 1].index <= toServer[i].index + 1
  /\ \A line \in Line : client.last = <<line>> => line.index = client.sent /\ line.ack <= server.sent
  /\ toServer = <<>> =>
       client.sent = server.got \/ (server.got = -1 /\ client.sent = 0 /\ client.last = <<>>)
  /\ toServer # <<>> =>
       /\ toServer[1].index <= server.got + 1 \/ (server.got = -1 /\ toServer[1].index <= 1)
       /\ client.last = <<toServer[Len(toServer)]>> /\ toServer[Len(toServer)].index = client.sent

\* At most one move is under way, in one of the directions.
Same == Synced =>
  /\ Alternates(client.record)
  /\ \/ Coming = {} /\ News = {} /\ Len(server.record) = Len(client.record)
     \/ /\ \E n \in Int : Coming = {n}
        /\ News = {} /\ Len(server.record) + 1 = Len(client.record) /\ Len(server.record) % 2 = 0
     \/ /\ \E n \in Int : News = {n}
        /\ Coming = {} /\ Len(server.record) = Len(client.record) + 1 /\ Len(client.record) % 2 = 1

LinkInv == /\ LinkTypeOK /\ link # "refused" /\ Alternates(server.record)
           /\ Quiet /\ Answered /\ FromServer /\ FromClient /\ Same

-----------------------------------------------------------------------------
\* The moves among some lines.
ComingOf(lines, got) == {lines[i].index : i \in {j \in DOMAIN lines :
                           lines[j].command = "do_move" /\ lines[j].index > got}}
NewsOf(lines) == {lines[i].index : i \in {j \in DOMAIN lines : lines[j].command = "do_move"}}

LEMMA ComingIs ==
  ASSUME NEW lines \in Seq(Line), NEW got, NEW n
  PROVE  n \in ComingOf(lines, got) <=>
           \E i \in 1..Len(lines) : lines[i].index = n /\ lines[i].command = "do_move" /\ n > got
BY DEF ComingOf

LEMMA NewsAre ==
  ASSUME NEW lines \in Seq(Line), NEW n
  PROVE  n \in NewsOf(lines) <=>
           \E i \in 1..Len(lines) : lines[i].index = n /\ lines[i].command = "do_move"
BY DEF NewsOf

LEMMA ComingAppend ==
  ASSUME NEW lines \in Seq(Line), NEW line \in Line, NEW got \in Int
  PROVE  ComingOf(Append(lines, line), got) =
           IF line.command = "do_move" /\ line.index > got
           THEN ComingOf(lines, got) \cup {line.index} ELSE ComingOf(lines, got)
<1> DEFINE more == Append(lines, line)
<1>1. more \in Seq(Line) /\ Len(more) = Len(lines) + 1 /\ Len(lines) \in Nat
      /\ (\A i \in 1..Len(lines) : more[i] = lines[i]) /\ more[Len(lines) + 1] = line
  OBVIOUS
<1> HIDE DEF more
<1>2. \A i : i \in 1..(Len(lines) + 1) <=> i \in 1..Len(lines) \/ i = Len(lines) + 1
  BY <1>1
<1>3. \A n : n \in ComingOf(more, got) <=>
         n \in ComingOf(lines, got) \/ (n = line.index /\ line.command = "do_move" /\ line.index > got)
  BY <1>1, <1>2, ComingIs
<1> QED BY <1>3 DEF more

LEMMA NewsAppend ==
  ASSUME NEW lines \in Seq(Line), NEW line \in Line
  PROVE  NewsOf(Append(lines, line)) =
           IF line.command = "do_move" THEN NewsOf(lines) \cup {line.index} ELSE NewsOf(lines)
<1> DEFINE more == Append(lines, line)
<1>1. more \in Seq(Line) /\ Len(more) = Len(lines) + 1 /\ Len(lines) \in Nat
      /\ (\A i \in 1..Len(lines) : more[i] = lines[i]) /\ more[Len(lines) + 1] = line
  OBVIOUS
<1> HIDE DEF more
<1>2. \A i : i \in 1..(Len(lines) + 1) <=> i \in 1..Len(lines) \/ i = Len(lines) + 1
  BY <1>1
<1>3. \A n : n \in NewsOf(more) <=> n \in NewsOf(lines) \/ (n = line.index /\ line.command = "do_move")
  BY <1>1, <1>2, NewsAre
<1> QED BY <1>3 DEF more

\* What is left behind the first line.
LEMMA Behind ==
  ASSUME NEW S, NEW lines \in Seq(S), lines # <<>>
  PROVE  /\ Tail(lines) \in Seq(S) /\ Len(lines) \in Nat \ {0} /\ Len(Tail(lines)) = Len(lines) - 1
         /\ \A i \in 1..Len(Tail(lines)) : Tail(lines)[i] = lines[i + 1] /\ i + 1 \in 1..Len(lines)
         /\ Head(lines) = lines[1] /\ lines[1] \in S
         /\ \A i \in 1..Len(lines) : i = 1 \/ (i - 1 \in 1..Len(Tail(lines)) /\ Tail(lines)[i - 1] = lines[i])
OBVIOUS

LEMMA NewsTail ==
  ASSUME NEW lines \in Seq(Line), lines # <<>>
  PROVE  NewsOf(lines) = NewsOf(Tail(lines)) \cup
           (IF lines[1].command = "do_move" THEN {lines[1].index} ELSE {})
<1> DEFINE rest == Tail(lines)
<1>1. /\ rest \in Seq(Line) /\ 1 \in 1..Len(lines)
      /\ \A i \in 1..Len(rest) : rest[i] = lines[i + 1] /\ i + 1 \in 1..Len(lines)
      /\ \A i \in 1..Len(lines) : i = 1 \/ (i - 1 \in 1..Len(rest) /\ rest[i - 1] = lines[i])
  BY Behind
<1> HIDE DEF rest
<1>2. ASSUME NEW n
      PROVE  n \in NewsOf(lines) <=>
               n \in NewsOf(rest) \/ (n = lines[1].index /\ lines[1].command = "do_move")
  <2>1. ASSUME NEW i \in 1..Len(lines), lines[i].index = n, lines[i].command = "do_move", i # 1
        PROVE  n \in NewsOf(rest)
    <3>1. i - 1 \in 1..Len(rest) /\ rest[i - 1] = lines[i]
      BY <1>1, <2>1
    <3> QED BY <1>1, <2>1, <3>1, NewsAre
  <2>2. ASSUME NEW i \in 1..Len(rest), rest[i].index = n, rest[i].command = "do_move"
        PROVE  n \in NewsOf(lines)
    <3>1. i + 1 \in 1..Len(lines) /\ rest[i] = lines[i + 1]
      BY <1>1, <2>2
    <3> QED BY <2>2, <3>1, NewsAre
  <2> QED BY <1>1, <2>1, <2>2, NewsAre
<1> QED BY <1>2 DEF rest

LEMMA ComingTail ==
  ASSUME NEW lines \in Seq(Line), lines # <<>>, NEW got \in Int
  PROVE  ComingOf(lines, got) = ComingOf(Tail(lines), got) \cup
           (IF lines[1].command = "do_move" /\ lines[1].index > got THEN {lines[1].index} ELSE {})
<1> DEFINE rest == Tail(lines)
<1>1. /\ rest \in Seq(Line) /\ 1 \in 1..Len(lines)
      /\ \A i \in 1..Len(rest) : rest[i] = lines[i + 1] /\ i + 1 \in 1..Len(lines)
      /\ \A i \in 1..Len(lines) : i = 1 \/ (i - 1 \in 1..Len(rest) /\ rest[i - 1] = lines[i])
  BY Behind
<1> HIDE DEF rest
<1>2. ASSUME NEW n
      PROVE  n \in ComingOf(lines, got) <=>
               n \in ComingOf(rest, got) \/ (n = lines[1].index /\ lines[1].command = "do_move" /\ n > got)
  <2>1. ASSUME NEW i \in 1..Len(lines), lines[i].index = n, lines[i].command = "do_move" /\ n > got, i # 1
        PROVE  n \in ComingOf(rest, got)
    <3>1. i - 1 \in 1..Len(rest) /\ rest[i - 1] = lines[i]
      BY <1>1, <2>1
    <3> QED BY <1>1, <2>1, <3>1, ComingIs
  <2>2. ASSUME NEW i \in 1..Len(rest), rest[i].index = n, rest[i].command = "do_move" /\ n > got
        PROVE  n \in ComingOf(lines, got)
    <3>1. i + 1 \in 1..Len(lines) /\ rest[i] = lines[i + 1]
      BY <1>1, <2>2
    <3> QED BY <2>2, <3>1, ComingIs
  <2>3. n \in ComingOf(rest, got) => n \in ComingOf(lines, got)
    BY <1>1, <2>2, ComingIs
  <2>4. n = lines[1].index /\ lines[1].command = "do_move" /\ n > got => n \in ComingOf(lines, got)
    BY <1>1, ComingIs
  <2>5. n \in ComingOf(lines, got) => \E i \in 1..Len(lines) :
          lines[i].index = n /\ lines[i].command = "do_move" /\ n > got
    BY ComingIs
  <2> QED BY <2>1, <2>3, <2>4, <2>5
<1> QED BY <1>2 DEF rest

LEMMA ComingLater ==
  ASSUME NEW lines \in Seq(Line), NEW got \in Int, NEW known \in Int, got <= known
  PROVE  ComingOf(lines, known) = {n \in ComingOf(lines, got) : n > known}
<1>1. \A i \in 1..Len(lines) : lines[i].index \in Int
  <2>1. \A line \in Line : line.index \in Int
    BY DEF Line, Indexes
  <2> QED BY <2>1
<1>2. \A n : n \in ComingOf(lines, known) <=> n \in ComingOf(lines, got) /\ n > known
  BY <1>1, ComingIs
<1> QED BY <1>2

LEMMA AlternatesAppend ==
  ASSUME NEW record \in Records, Alternates(record), NEW who \in {Mine, Theirs},
         who = IF Len(record) % 2 = 0 THEN Mine ELSE Theirs
  PROVE  Append(record, who) \in Records /\ Alternates(Append(record, who))
         /\ Len(Append(record, who)) = Len(record) + 1
<1>1. Append(record, who) \in Records /\ Len(Append(record, who)) = Len(record) + 1 /\ Len(record) \in Nat
  BY DEF Records
<1>2. ASSUME NEW i \in 1..(Len(record) + 1)
      PROVE  Append(record, who)[i] = IF i % 2 = 1 THEN Mine ELSE Theirs
  <2>1. CASE i = Len(record) + 1
    <3>1. Append(record, who)[i] = who
      BY <2>1 DEF Records
    <3>2. i % 2 = 1 <=> Len(record) % 2 = 0
      BY <2>1, <1>1
    <3> QED BY <3>1, <3>2
  <2>2. CASE i # Len(record) + 1
    <3>1. i \in 1..Len(record) /\ Append(record, who)[i] = record[i]
      BY <2>2, <1>1 DEF Records
    <3> QED BY <3>1 DEF Alternates
  <2> QED BY <2>1, <2>2
<1> QED BY <1>1, <1>2 DEF Alternates

-----------------------------------------------------------------------------
\* The invariant is one of a state; what a step leaves alone it leaves typed.
LEMMA InitIsInStep == LinkInit => LinkInv
<1> SUFFICES ASSUME LinkInit PROVE LinkInv
  OBVIOUS
<1>1. LinkTypeOK
  BY DEF LinkInit, LinkTypeOK, Records, Indexes
<1>2. Alternates(server.record)
  BY DEF LinkInit, Alternates
<1> QED BY <1>1, <1>2 DEF LinkInit, LinkInv, Quiet, Answered, FromServer, FromClient, Same, Synced

LEMMA Parity ==
  \A a, b \in Nat : /\ a % 2 = 0 \/ a % 2 = 1
                    /\ ~(a % 2 = 0 /\ a % 2 = 1)
                    /\ b = a + 1 => (a % 2 = 1 <=> b % 2 = 0)
OBVIOUS

LEMMA LengthOne == ASSUME NEW S, NEW s \in Seq(S), Len(s) = 1 PROVE s = <<s[1]>>
OBVIOUS

LEMMA EmptyOne == \A S : <<>> \in Seq(S) /\ \A e \in S : <<e>> \in Seq(S)
OBVIOUS

LEMMA Unsynced ==
  ASSUME LinkTypeOK
  PROVE  [client EXCEPT !.synced = FALSE, !.last = <<>>] \in
           [synced : BOOLEAN, record : Records, got : Indexes, sent : Indexes,
            last : {<<>>} \cup {<<line>> : line \in Line}]
BY DEF LinkTypeOK

LEMMA ConnectKeeps == ASSUME LinkInv, Connect PROVE LinkInv'
<1>1. LinkTypeOK'
  <2>1. <<Playgame>> \in Seq(Line \cup {Playgame}) /\ <<>> \in Seq(Line \cup Answer)
    BY EmptyOne
  <2> QED BY <2>1, Unsynced DEF LinkInv, LinkTypeOK, Connect
<1>2. Alternates(server.record)'
  BY DEF LinkInv, Connect, Alternates
<1>3. client'.synced = FALSE
  BY DEF LinkInv, LinkTypeOK, Connect
<1> QED BY <1>1, <1>2, <1>3 DEF Connect, LinkInv, Quiet, Answered, FromServer, FromClient, Same, Synced

LEMMA LostKeeps == ASSUME LinkInv, Lost PROVE LinkInv'
<1>1. LinkTypeOK'
  <2>1. <<>> \in Seq(Line \cup {Playgame}) /\ <<>> \in Seq(Line \cup Answer)
    BY EmptyOne
  <2> QED BY <2>1, Unsynced DEF LinkInv, LinkTypeOK, Lost
<1>2. Alternates(server.record)'
  BY DEF LinkInv, Lost, Alternates
<1>3. client'.synced = FALSE
  BY DEF LinkInv, LinkTypeOK, Lost
<1> QED BY <1>1, <1>2, <1>3 DEF Lost, LinkInv, Quiet, Answered, FromServer, FromClient, Same, Synced

\* The answer finds nothing under way.
LEMMA AnswerKeeps ==
  ASSUME LinkInv, link = "login" \/ (link = "ready" /\ ~server.started), toServer' = <<>>,
         client' = client, link' = "ready",
         \/ ~server.started /\ server' = server /\ toClient' = toClient
         \/ server' = [server EXCEPT !.started = TRUE] /\ toClient' = Append(toClient, PlayGame)
  PROVE  LinkInv'
<1>1. toClient = <<>> /\ ~client.synced /\ client'.synced = FALSE
  BY DEF LinkInv, LinkTypeOK, Quiet
<1>2. /\ server'.record = server.record /\ server'.got = server.got /\ server'.sent = server.sent
      /\ server' \in [started : BOOLEAN, record : Records, got : Indexes, sent : Indexes]
  BY DEF LinkInv, LinkTypeOK
<1>3. PlayGame \in Answer /\ PlayGame.sent = server.sent /\ PlayGame.got = server.got
      /\ PlayGame.record = server.record
  BY DEF LinkInv, LinkTypeOK, PlayGame, Answer
<1>4. \/ server'.started = FALSE /\ toClient' = <<>>
      \/ server'.started = TRUE /\ toClient' = <<PlayGame>>
  BY <1>1 DEF LinkInv, LinkTypeOK
<1>5. LinkTypeOK'
  <2>1. toClient' \in Seq(Line \cup Answer)
    BY <1>3, <1>4, EmptyOne
  <2>2. toServer' \in Seq(Line \cup {Playgame})
    BY EmptyOne
  <2> QED BY <1>2, <2>1, <2>2 DEF LinkInv, LinkTypeOK
<1>6. Alternates(server.record)'
  BY <1>2 DEF LinkInv, Alternates
<1>7. Quiet'
  BY <1>1, <1>4 DEF Quiet
<1>8. Answered'
  <2> SUFFICES ASSUME server'.started PROVE Answered'
    BY DEF Answered
  <2>1. toClient' = <<PlayGame>> /\ toClient'[1] = PlayGame /\ Len(toClient') = 1
    BY <1>4
  <2>2. server'.sent = toClient'[1].sent /\ toClient'[1].got = server'.got
        /\ toClient'[1].record = server'.record
    BY <1>2, <1>3, <2>1
  <2> QED BY <1>3, <1>6, <2>1, <2>2 DEF Answered, Alternates
<1> QED BY <1>1, <1>5, <1>6, <1>7, <1>8 DEF LinkInv, FromServer, FromClient, Same, Synced

-----------------------------------------------------------------------------
\* The player's steps.
LEMMA SendFacts ==
  ASSUME LinkInv, NEW command \in {"do_move", "time"}, Send(command)
  PROVE  LET line == Numbered(client.sent + 1, client.got, command) IN
         /\ line \in Line /\ line.index = client.sent + 1 /\ line.command = command
         /\ Synced => line.ack <= server.sent
         /\ toServer' = Append(toServer, line)
         /\ client'.sent = client.sent + 1 /\ client'.got = client.got /\ client'.last = <<line>>
         /\ client'.synced = client.synced
         /\ client'.record = IF command = "do_move" THEN Append(client.record, Mine) ELSE client.record
         /\ client.sent \in Indexes /\ client.got \in Indexes /\ client.record \in Records
         /\ link' = link /\ server' = server /\ toClient' = toClient
         /\ LinkTypeOK'
<1> DEFINE line == Numbered(client.sent + 1, client.got, command)
<1>1. client.sent \in Indexes /\ client.got \in Indexes /\ client.record \in Records
  BY DEF LinkInv, LinkTypeOK
<1>2. line \in Line /\ line.index = client.sent + 1 /\ line.command = command /\ line.ack = client.got
  BY <1>1 DEF Numbered, Line, Indexes
<1>3. Synced => line.ack <= server.sent
  BY <1>1, <1>2 DEF LinkInv, FromServer, Indexes
<1> HIDE DEF line
<1>4. /\ toServer' = Append(toServer, line)
      /\ client' = [client EXCEPT !.sent = @ + 1, !.last = <<line>>,
                      !.record = IF command = "do_move" THEN Append(@, Mine) ELSE @]
      /\ link' = link /\ server' = server /\ toClient' = toClient
  BY DEF Send, line
<1>5. /\ client'.sent = client.sent + 1 /\ client'.got = client.got /\ client'.last = <<line>>
      /\ client'.synced = client.synced
      /\ client'.record = IF command = "do_move" THEN Append(client.record, Mine) ELSE client.record
  BY <1>4 DEF LinkInv, LinkTypeOK
<1>6. LinkTypeOK'
  <2>1. client'.record \in Records /\ client'.sent \in Indexes
    BY <1>1, <1>5 DEF Records, Indexes
  <2>2. client' \in [synced : BOOLEAN, record : Records, got : Indexes, sent : Indexes,
                     last : {<<>>} \cup {<<l>> : l \in Line}]
    BY <1>2, <1>4, <1>5, <2>1 DEF LinkInv, LinkTypeOK
  <2>3. toServer' \in Seq(Line \cup {Playgame})
    BY <1>2, <1>4 DEF LinkInv, LinkTypeOK
  <2> QED BY <1>4, <2>2, <2>3 DEF LinkInv, LinkTypeOK
<1> QED BY <1>1, <1>2, <1>3, <1>4, <1>5, <1>6 DEF line

\* One more line, whatever it says, or the last one again.
LEMMA LongerFromClient ==
  ASSUME LinkInv, Synced, NEW line \in Line, line.ack <= server.sent,
         toServer' = Append(toServer, line),
         client'.last = <<line>>, client'.sent = line.index, server' = server, link' = link,
         \/ line.index = client.sent + 1
         \/ line.index = client.sent /\ client.last = <<line>>
  PROVE  FromClient'
<1> USE DEF Indexes
<1>1. /\ toServer \in Seq(Line) /\ server.got \in Indexes /\ server.sent \in Indexes
      /\ client.sent \in Indexes /\ server.got <= client.sent
      /\ \A l \in Line : l.index \in Indexes /\ l.ack \in Indexes
  BY DEF LinkInv, LinkTypeOK, FromClient, Line
<1> DEFINE more == toServer'
<1>2. /\ more \in Seq(Line) /\ Len(more) = Len(toServer) + 1 /\ Len(toServer) \in Nat
      /\ (\A i \in 1..Len(toServer) : more[i] = toServer[i]) /\ more[Len(toServer) + 1] = line
      /\ more # <<>>
  BY <1>1
<1>3. \A i \in 1..Len(toServer) : /\ toServer[i] \in Line /\ toServer[i].index \in Indexes
                                  /\ toServer[i].index <= client.sent
                                  /\ toServer[i].ack <= server.sent
  BY <1>1 DEF LinkInv, FromClient
<1>4. client.sent <= line.index /\ line.index <= client.sent + 1 /\ server.got <= line.index
      /\ line.index \in Indexes
  BY <1>1
<1> HIDE DEF more
<1>5. \A i \in 1..Len(more) : more[i].index <= line.index /\ more[i].ack <= server.sent
  <2> SUFFICES ASSUME NEW i \in 1..Len(more)
               PROVE  more[i].index <= line.index /\ more[i].ack <= server.sent
    OBVIOUS
  <2>1. CASE i = Len(toServer) + 1
    BY <1>2, <1>4, <2>1
  <2>2. CASE i \in 1..Len(toServer)
    <3>1. more[i] = toServer[i] /\ toServer[i].index <= client.sent /\ toServer[i].ack <= server.sent
          /\ toServer[i].index \in Indexes
      BY <1>2, <1>3, <2>2
    <3>2. client.sent \in Int /\ line.index \in Int
      BY <1>1, <1>4 DEF Indexes
    <3>3. toServer[i].index <= line.index
      BY <1>4, <3>1, <3>2 DEF Indexes
    <3> QED BY <3>1, <3>3
  <2> QED BY <1>2, <2>1, <2>2
<1>6. \A i \in 1..Len(toServer) : toServer[i].index = line.index => toServer[i] = line
  <2> SUFFICES ASSUME NEW i \in 1..Len(toServer), toServer[i].index = line.index PROVE toServer[i] = line
    OBVIOUS
  <2>1. line.index = client.sent /\ client.last = <<line>>
    <3>1. line.index <= client.sent /\ client.sent \in Int /\ line.index \in Int
      BY <1>1, <1>3, <1>4
    <3>2. line.index # client.sent + 1
      BY <3>1
    <3> QED BY <3>2
  <2>2. toServer # <<>> /\ Len(toServer) \in 1..Len(toServer)
    BY <1>1
  <2>3. toServer[Len(toServer)] = line
    BY <2>1, <2>2 DEF LinkInv, FromClient
  <2>4. CASE i = Len(toServer)
    BY <2>3, <2>4
  <2>5. CASE i # Len(toServer)
    <3>1. i < Len(toServer)
      BY <1>1, <2>5
    <3> QED BY <2>2, <2>3, <3>1 DEF LinkInv, FromClient
  <2> QED BY <2>4, <2>5
<1>7. ASSUME NEW i \in 1..Len(more), NEW j \in 1..Len(more), i < j
      PROVE  more[i].index <= more[j].index /\ (more[i].index = more[j].index => more[i] = more[j])
  <2>1. i \in 1..Len(toServer) /\ more[i] = toServer[i]
    BY <1>2, <1>7
  <2>2. CASE j \in 1..Len(toServer)
    BY <1>2, <1>7, <2>1, <2>2 DEF LinkInv, FromClient
  <2>3. CASE j = Len(toServer) + 1
    BY <1>2, <1>3, <1>4, <1>6, <2>1, <2>3, <1>1
  <2> QED BY <1>2, <2>2, <2>3
<1>8. ASSUME NEW i \in 1..(Len(more) - 1)
      PROVE  more[i + 1].index <= more[i].index + 1
  <2>1. i \in 1..Len(toServer) /\ more[i] = toServer[i]
    BY <1>2
  <2>2. CASE i # Len(toServer)
    <3>1. i \in 1..(Len(toServer) - 1) /\ more[i + 1] = toServer[i + 1]
      BY <1>2, <2>1, <2>2
    <3> QED BY <2>1, <3>1 DEF LinkInv, FromClient
  <2>3. CASE i = Len(toServer)
    <3>1. more[i + 1] = line /\ toServer # <<>>
      BY <1>1, <1>2, <2>1, <2>3
    <3>2. toServer[i].index = client.sent
      BY <2>3, <3>1 DEF LinkInv, FromClient
    <3> QED BY <1>4, <2>1, <3>1, <3>2
  <2> QED BY <2>2, <2>3
<1>9. more[1].index <= server.got + 1 \/ (server.got = -1 /\ more[1].index <= 1)
  <2>1. CASE toServer = <<>>
    <3>1. more[1] = line
      BY <1>2, <2>1
    <3>2. client.sent = server.got \/ (server.got = -1 /\ client.sent = 0 /\ client.last = <<>>)
      BY <2>1 DEF LinkInv, FromClient
    <3>3. client.last = <<>> => line.index = client.sent + 1
      OBVIOUS
    <3> QED BY <1>1, <1>4, <3>1, <3>2, <3>3
  <2>2. CASE toServer # <<>>
    <3>1. 1 \in 1..Len(toServer) /\ more[1] = toServer[1]
      <4>1. 1 \in 1..Len(toServer)
        BY <1>1, <2>2
      <4> QED BY <1>2, <4>1
    <3> QED BY <2>2, <3>1 DEF LinkInv, FromClient
  <2> QED BY <2>1, <2>2
<1>10. \A l \in Line : client'.last = <<l>> => l = line
  OBVIOUS
<1>11. more[Len(more)] = line
  BY <1>2
<1>12. FromClient' <=> (Synced' =>
         /\ more \in Seq(Line)
         /\ server.got <= client'.sent
         /\ \A i \in 1..Len(more) : more[i].index <= client'.sent /\ more[i].ack <= server.sent
         /\ \A i \in 1..Len(more) : \A j \in 1..Len(more) : i < j =>
              more[i].index <= more[j].index /\ (more[i].index = more[j].index => more[i] = more[j])
         /\ \A i \in 1..(Len(more) - 1) : more[i + 1].index <= more[i].index + 1
         /\ \A l \in Line : client'.last = <<l>> => l.index = client'.sent /\ l.ack <= server.sent
         /\ more = <<>> => client'.sent = server.got
                           \/ (server.got = -1 /\ client'.sent = 0 /\ client'.last = <<>>)
         /\ more # <<>> =>
              /\ more[1].index <= server.got + 1 \/ (server.got = -1 /\ more[1].index <= 1)
              /\ client'.last = <<more[Len(more)]>> /\ more[Len(more)].index = client'.sent)
  BY Zenon DEF FromClient, more
<1> QED BY <1>2, <1>4, <1>5, <1>7, <1>8, <1>9, <1>10, <1>11, <1>12, Zenon

LEMMA SameIs ==
  ASSUME LinkInv, Synced
  PROVE  /\ Alternates(client.record) /\ Alternates(server.record)
         /\ client.record \in Records /\ server.record \in Records
         /\ Len(client.record) \in Nat /\ Len(server.record) \in Nat
         /\ server.got \in Int /\ server.sent \in Int /\ client.got \in Int /\ client.sent \in Int
         /\ toServer \in Seq(Line) /\ toClient \in Seq(Line)
         /\ Coming = ComingOf(toServer, server.got) /\ News = NewsOf(toClient)
         /\ server.got <= client.sent
         /\ Len(client.record) % 2 = 0 => News = {} /\ Coming = {} /\ Len(server.record) = Len(client.record)
<1>1. /\ client.record \in Records /\ server.record \in Records
      /\ server.got \in Int /\ server.sent \in Int /\ client.got \in Int /\ client.sent \in Int
  BY DEF LinkInv, LinkTypeOK, Indexes
<1>2. Len(client.record) \in Nat /\ Len(server.record) \in Nat
  BY <1>1 DEF Records
<1>3. /\ Coming = ComingOf(toServer, server.got) /\ News = NewsOf(toClient)
      /\ server.got <= client.sent
  BY DEF Coming, News, ComingOf, NewsOf, LinkInv, FromClient
<1>4. Len(client.record) % 2 = 0 => News = {} /\ Coming = {} /\ Len(server.record) = Len(client.record)
  <2>1. \/ Coming = {} /\ News = {} /\ Len(server.record) = Len(client.record)
        \/ Len(server.record) + 1 = Len(client.record) /\ Len(server.record) % 2 = 0
        \/ Len(client.record) % 2 = 1
    BY DEF LinkInv, Same
  <2> QED BY <1>2, <2>1, Parity, Zenon
<1> QED BY <1>1, <1>2, <1>3, <1>4 DEF LinkInv, FromServer, FromClient, Same

LEMMA SendKeeps == ASSUME LinkInv, SendMove \/ SendTime PROVE LinkInv'
<1> PICK command \in {"do_move", "time"} : Send(command) /\ (command = "do_move" => Len(client.record) % 2 = 0)
  BY DEF SendMove, SendTime, OnTurn, Mine, Theirs
<1> DEFINE line == Numbered(client.sent + 1, client.got, command)
<1>1. /\ line \in Line /\ line.index = client.sent + 1 /\ line.command = command
      /\ Synced => line.ack <= server.sent
      /\ toServer' = Append(toServer, line)
      /\ client'.sent = client.sent + 1 /\ client'.got = client.got /\ client'.last = <<line>>
      /\ client'.synced = client.synced
      /\ client'.record = IF command = "do_move" THEN Append(client.record, Mine) ELSE client.record
      /\ link' = link /\ server' = server /\ toClient' = toClient
      /\ LinkTypeOK'
  BY SendFacts
<1>2. client.synced
  BY DEF Send
<1> HIDE DEF line
<1>3. Quiet' /\ Answered' /\ FromServer' /\ link' # "refused" /\ Alternates(server.record)'
  BY <1>1, <1>2 DEF LinkInv, Quiet, Answered, FromServer, Synced, Alternates
<1>4. FromClient'
  <2>1. CASE Synced
    BY <1>1, <2>1, LongerFromClient
  <2>2. CASE ~Synced
    BY <1>1, <2>2 DEF FromClient, Synced
  <2> QED BY <2>1, <2>2
<1>5. Same'
  <2> SUFFICES ASSUME Synced PROVE Same'
    BY <1>1 DEF Same, Synced
  <2>1. News' = News
    BY <1>1 DEF News
  <2>2. Coming' = IF command = "do_move" /\ line.index > server.got THEN Coming \cup {line.index} ELSE Coming
    <3>1. Coming' = ComingOf(Append(toServer, line), server.got)
      BY <1>1 DEF Coming, ComingOf
    <3> QED BY <1>1, <3>1, SameIs, ComingAppend
  <2>3. CASE command = "time"
    <3>1. client'.record = client.record /\ Coming' = Coming
      BY <1>1, <2>2, <2>3
    <3> QED BY <1>1, <2>1, <3>1 DEF LinkInv, Same, Alternates, Synced
  <2>4. CASE command = "do_move"
    <3>1. Coming = {} /\ News = {} /\ Len(server.record) = Len(client.record)
      BY <2>4, SameIs
    <3>2. line.index > server.got
      BY <1>1, SameIs
    <3>3. Coming' = {line.index} /\ line.index \in Int
      BY <1>1, <2>2, <2>4, <3>1, <3>2 DEF Line, Indexes
    <3>4. Alternates(client'.record) /\ Len(client'.record) = Len(client.record) + 1
      BY <1>1, <2>4, SameIs, AlternatesAppend
    <3> QED BY <1>1, <2>1, <2>4, <3>1, <3>3, <3>4, SameIs DEF Same
  <2> QED BY <2>3, <2>4
<1> QED BY <1>1, <1>3, <1>4, <1>5 DEF LinkInv

LEMMA RepeatKeeps == ASSUME LinkInv, Repeat PROVE LinkInv'
<1> PICK line \in Line : client.last = <<line>>
  BY DEF Repeat, LinkInv, LinkTypeOK
<1>1. /\ toServer' = Append(toServer, line)
      /\ link' = link /\ server' = server /\ client' = client /\ toClient' = toClient
      /\ client.synced
  BY DEF Repeat, LinkInv, LinkTypeOK
<1>2. LinkTypeOK'
  BY <1>1 DEF LinkInv, LinkTypeOK
<1>3. Quiet' /\ Answered' /\ FromServer' /\ link' # "refused" /\ Alternates(server.record)'
  BY <1>1 DEF LinkInv, Quiet, Answered, FromServer, Synced, Alternates
<1>4. Synced => line.index = client.sent /\ line.ack <= server.sent
  BY DEF LinkInv, FromClient
<1>5. FromClient'
  <2>1. CASE Synced
    BY <1>1, <1>4, <2>1, LongerFromClient
  <2>2. CASE ~Synced
    BY <1>1, <2>2 DEF FromClient, Synced
  <2> QED BY <2>1, <2>2
<1>6. Same'
  <2> SUFFICES ASSUME Synced PROVE Same'
    BY <1>1 DEF Same, Synced
  <2>1. Coming' = Coming
    <3>1. Coming' = ComingOf(Append(toServer, line), server.got)
      BY <1>1 DEF Coming, ComingOf
    <3>2. CASE line.command = "do_move" /\ line.index > server.got
      <4>1. toServer # <<>>
        <5>1. client.sent > server.got /\ client.last # <<>>
          BY <1>4, <3>2, SameIs
        <5>2. toServer = <<>> => client.sent = server.got \/ client.last = <<>>
          BY DEF LinkInv, FromClient
        <5> QED BY <5>1, <5>2, SameIs
      <4>2. Len(toServer) \in 1..Len(toServer)
        BY <4>1, SameIs
      <4>3. toServer[Len(toServer)] = line
        BY <4>1 DEF LinkInv, FromClient
      <4>4. line.index \in Coming
        BY <3>2, <4>2, <4>3, SameIs, ComingIs
      <4> QED BY <3>1, <3>2, <4>4, SameIs, ComingAppend
    <3>3. CASE ~(line.command = "do_move" /\ line.index > server.got)
      BY <3>1, <3>3, SameIs, ComingAppend
    <3> QED BY <3>2, <3>3
  <2>2. News' = News
    BY <1>1 DEF News
  <2> QED BY <1>1, <2>1, <2>2 DEF LinkInv, Same, Alternates, Synced
<1> QED BY <1>1, <1>2, <1>3, <1>5, <1>6 DEF LinkInv

\* A player that numbers on reads an answer, a move or the time.
LEMMA ReadAnswer ==
  ASSUME LinkInv, ClientReads, link = "ready", ~client.synced
  PROVE  LinkInv'
<1> USE DEF Indexes
<1>1. /\ server.started /\ toServer = <<>> /\ toClient # <<>>
      /\ link' = link /\ server' = server /\ toServer' = toServer /\ toClient' = Tail(toClient)
  BY DEF LinkInv, LinkTypeOK, Quiet, ClientReads
<1> DEFINE answer == toClient[1]
<1>2. /\ answer \in Answer /\ answer.command = "playgame" /\ answer.got = server.got /\ Alternates(answer.record)
      /\ Head(toClient) = answer /\ answer.record \in Records /\ answer.sent \in Indexes
      /\ server.got \in Indexes /\ server.sent \in Indexes /\ server.record \in Records
  <2>1. answer \in Answer /\ answer.got = server.got /\ Alternates(answer.record)
    BY <1>1 DEF LinkInv, Answered
  <2>2. Head(toClient) = answer
    BY <1>1 DEF LinkInv, LinkTypeOK
  <2> QED BY <2>1, <2>2 DEF Answer, LinkInv, LinkTypeOK
<1>3. \/ /\ Len(toClient) = 1 /\ server.sent = answer.sent /\ Len(server.record) = Len(answer.record)
      \/ /\ Len(toClient) = 2 /\ server.sent = answer.sent + 1
         /\ Len(server.record) = Len(answer.record) + 1 /\ Len(answer.record) % 2 = 1
         /\ toClient[2] \in Line /\ toClient[2].command = "do_move" /\ toClient[2].index = answer.sent + 1
  BY <1>1 DEF LinkInv, Answered
<1> HIDE DEF answer
<1>4. PICK first \in {0, 1} :
        client' = [synced |-> TRUE, record |-> answer.record, got |-> answer.sent, last |-> <<>>,
                   sent |-> IF answer.got < 0 THEN first - 1 ELSE answer.got]
  BY <1>2 DEF ClientReads
<1>5. /\ client'.synced = TRUE /\ client'.record = answer.record /\ client'.got = answer.sent
      /\ client'.last = <<>>
      /\ client'.sent = IF server.got < 0 THEN first - 1 ELSE server.got
  BY <1>2, <1>4
<1>6. LinkTypeOK'
  <2>1. client'.sent \in Indexes
    BY <1>2, <1>5
  <2>2. client' \in [synced : BOOLEAN, record : Records, got : Indexes, sent : Indexes,
                     last : {<<>>} \cup {<<line>> : line \in Line}]
    BY <1>2, <1>4, <1>5, <2>1
  <2>3. toClient' \in Seq(Line \cup Answer)
    BY <1>1 DEF LinkInv, LinkTypeOK
  <2> QED BY <1>1, <2>2, <2>3 DEF LinkInv, LinkTypeOK
<1>7. Quiet' /\ Answered' /\ link' # "refused" /\ Alternates(server.record)'
  BY <1>1, <1>5 DEF LinkInv, Quiet, Answered, Alternates
<1>8. \/ toClient' = <<>> /\ server.sent = answer.sent /\ Len(server.record) = Len(answer.record)
      \/ /\ toClient' = <<toClient[2]>> /\ server.sent = answer.sent + 1
         /\ Len(server.record) = Len(answer.record) + 1 /\ Len(answer.record) % 2 = 1
         /\ toClient[2] \in Line /\ toClient[2].command = "do_move" /\ toClient[2].index = answer.sent + 1
  <2>1. CASE Len(toClient) = 1
    <3>1. toClient' = <<>>
      BY <1>1, <2>1 DEF LinkInv, LinkTypeOK
    <3> QED BY <1>3, <2>1, <3>1
  <2>2. CASE Len(toClient) = 2
    <3>1. toClient \in Seq(Line \cup Answer)
      BY DEF LinkInv, LinkTypeOK
    <3>2. toClient' \in Seq(Line \cup Answer) /\ Len(toClient') = 1 /\ toClient'[1] = toClient[2]
      <4>1. /\ toClient' \in Seq(Line \cup Answer) /\ Len(toClient') = Len(toClient) - 1
            /\ \A i \in 1..Len(toClient') : toClient'[i] = toClient[i + 1]
        BY <1>1, <3>1, Behind
      <4>2. Len(toClient') = 1
        BY <2>2, <4>1
      <4>3. 1 \in 1..Len(toClient') /\ 1 + 1 = 2
        BY <4>2
      <4>4. toClient'[1] = toClient[1 + 1]
        BY <4>1, <4>3, Zenon
      <4> QED BY <4>1, <4>2, <4>3, <4>4, Zenon
    <3>3. toClient' = <<toClient[2]>> /\ ~(Len(toClient) = 1)
      BY <2>2, <3>2, LengthOne
    <3> QED BY <1>3, <3>3, Zenon
  <2> QED BY <1>3, <2>1, <2>2
<1>9. FromServer'
  <2>1. CASE toClient' = <<>> /\ server.sent = answer.sent
    <3>1. toClient' \in Seq(Line) /\ Len(toClient') = 0
      BY <2>1, EmptyOne
    <3>2. server.sent = client'.got + Len(toClient') /\ \A i \in 1..Len(toClient') : FALSE
      BY <1>2, <1>5, <2>1, <3>1
    <3> QED BY <1>1, <3>1, <3>2 DEF FromServer
  <2>2. CASE /\ toClient' = <<toClient[2]>> /\ server.sent = answer.sent + 1
             /\ toClient[2] \in Line /\ toClient[2].index = answer.sent + 1
    <3>1. toClient' \in Seq(Line) /\ Len(toClient') = 1 /\ toClient'[1] = toClient[2]
      BY <2>2, EmptyOne
    <3> QED BY <1>1, <1>2, <1>5, <2>2, <3>1 DEF FromServer
  <2> QED BY <1>8, <2>1, <2>2
<1>10. FromClient'
  <2>1. client'.sent = server.got \/ (server.got = -1 /\ client'.sent = 0)
    BY <1>2, <1>5
  <2> QED BY <1>1, <1>2, <1>5, <2>1 DEF FromClient
<1>11. Same'
  <2>1. Coming' = {}
    BY <1>1 DEF Coming
  <2>2. CASE toClient' = <<>> /\ Len(server.record) = Len(answer.record)
    <3>1. News' = {}
      BY <2>2 DEF News
    <3> QED BY <1>1, <1>2, <1>5, <2>1, <2>2, <3>1 DEF Same
  <2>3. CASE /\ toClient' = <<toClient[2]>>
             /\ Len(server.record) = Len(answer.record) + 1 /\ Len(answer.record) % 2 = 1
             /\ toClient[2] \in Line /\ toClient[2].command = "do_move"
    <3>1. \A n : n \in News' <=> n = toClient[2].index
      BY <2>3 DEF News
    <3>2. News' = {toClient[2].index} /\ toClient[2].index \in Int
      BY <2>3, <3>1 DEF Line
    <3> QED BY <1>1, <1>2, <1>5, <2>1, <2>3, <3>2 DEF Same
  <2> QED BY <1>8, <2>2, <2>3
<1> QED BY <1>6, <1>7, <1>9, <1>10, <1>11 DEF LinkInv

LEMMA ReadNews ==
  ASSUME LinkInv, ClientReads, Synced
  PROVE  LinkInv'
<1> USE DEF Indexes
<1> DEFINE line == toClient[1]
<1>1. /\ toClient # <<>> /\ toClient \in Seq(Line) /\ Head(toClient) = line /\ line \in Line
      /\ link' = link /\ server' = server /\ toServer' = toServer /\ toClient' = Tail(toClient)
      /\ line.command \in {"do_move", "time"} /\ line.index \in Indexes
  <2>1. /\ toClient # <<>> /\ toClient \in Seq(Line)
        /\ link' = link /\ server' = server /\ toServer' = toServer /\ toClient' = Tail(toClient)
    BY DEF LinkInv, FromServer, ClientReads
  <2>2. Head(toClient) = line /\ line \in Line
    BY <2>1, Behind
  <2>3. \A l \in Line : l.command \in {"do_move", "time"} /\ l.index \in Indexes
    BY DEF Line
  <2> QED BY <2>1, <2>2, <2>3
<1>2. 1 \in 1..Len(toClient) /\ line.index = client.got + 1
      /\ server.sent = client.got + Len(toClient) /\ Len(toClient) \in Nat
  <2>1. 1 \in 1..Len(toClient) /\ Len(toClient) \in Nat
    BY <1>1
  <2> QED BY <2>1 DEF LinkInv, FromServer
<1> HIDE DEF line
<1>3. client' = [client EXCEPT !.got = line.index,
                   !.record = IF line.command = "do_move" THEN Append(@, Theirs) ELSE @]
  BY <1>1 DEF ClientReads
<1>4. /\ client'.synced = client.synced /\ client'.sent = client.sent /\ client'.last = client.last
      /\ client'.got = line.index
      /\ client'.record = IF line.command = "do_move" THEN Append(client.record, Theirs) ELSE client.record
      /\ client.synced
  BY <1>3 DEF LinkInv, LinkTypeOK, Synced
<1>5. LinkTypeOK'
  <2>1. client'.record \in Records
    BY <1>4, SameIs DEF Records
  <2>2. client' \in [synced : BOOLEAN, record : Records, got : Indexes, sent : Indexes,
                     last : {<<>>} \cup {<<l>> : l \in Line}]
    BY <1>1, <1>3, <1>4, <2>1 DEF LinkInv, LinkTypeOK
  <2>3. toClient' \in Seq(Line \cup Answer)
    BY <1>1 DEF LinkInv, LinkTypeOK
  <2> QED BY <1>1, <2>2, <2>3 DEF LinkInv, LinkTypeOK
<1>6. Quiet' /\ Answered' /\ link' # "refused" /\ Alternates(server.record)'
  BY <1>1, <1>4 DEF LinkInv, Quiet, Answered, Alternates, Synced
<1>7. FromClient'
  BY <1>1, <1>4 DEF LinkInv, FromClient, Synced
<1>8. FromServer'
  <2>1. /\ toClient' \in Seq(Line) /\ Len(toClient') = Len(toClient) - 1
        /\ \A i \in 1..Len(toClient') : toClient'[i] = toClient[i + 1] /\ i + 1 \in 1..Len(toClient)
    BY <1>1, Behind
  <2>2. client.got \in Int
    BY SameIs
  <2>3. \A i \in 1..Len(toClient') : toClient'[i].index = client'.got + i
    <3> SUFFICES ASSUME NEW i \in 1..Len(toClient') PROVE toClient'[i].index = client'.got + i
      OBVIOUS
    <3>1. toClient[i + 1].index = client.got + (i + 1)
      BY <2>1 DEF LinkInv, FromServer
    <3>2. i \in Nat
      BY <2>1, <1>2
    <3>3. client.got + (i + 1) = (client.got + 1) + i
      BY <2>2, <3>2
    <3>4. toClient'[i] = toClient[i + 1] /\ client'.got = client.got + 1
      BY <1>2, <1>4, <2>1
    <3> QED BY <3>1, <3>3, <3>4
  <2>4. server'.sent = client'.got + Len(toClient')
    BY <1>1, <1>2, <1>4, <2>1, <2>2
  <2> QED BY <2>1, <2>3, <2>4 DEF FromServer
<1>9. Same'
  <2>1. Coming' = Coming
    BY <1>1 DEF Coming
  <2>2. News = News' \cup (IF line.command = "do_move" THEN {line.index} ELSE {})
    <3>1. News' = NewsOf(Tail(toClient)) /\ News = NewsOf(toClient)
      BY <1>1 DEF News, NewsOf
    <3> QED BY <1>1, <3>1, NewsTail DEF line
  <2>3. CASE line.command = "time"
    <3>1. News' = News /\ client'.record = client.record
      BY <1>4, <2>2, <2>3
    <3> QED BY <1>1, <1>4, <2>1, <3>1 DEF LinkInv, Same, Alternates, Synced
  <2>4. CASE line.command = "do_move"
    <3>1. line.index \in News
      BY <2>2, <2>4
    <3>2. /\ News = {line.index} /\ Coming = {}
          /\ Len(server.record) = Len(client.record) + 1 /\ Len(client.record) % 2 = 1
      BY <3>1 DEF LinkInv, Same
    <3>3. line.index \notin News'
      <4> SUFFICES ASSUME line.index \in NewsOf(toClient') PROVE FALSE
        BY DEF News, NewsOf
      <4>1. toClient' \in Seq(Line)
        BY <1>1, Behind
      <4>2. PICK i \in 1..Len(toClient') : toClient'[i].index = line.index
        BY <4>1, NewsAre
      <4>3. toClient'[i].index = line.index + i
        BY <1>1, <1>4, <4>2, <1>8 DEF FromServer, Synced
      <4> QED BY <1>1, <4>2, <4>3
    <3>4. News' = {}
      BY <2>2, <2>4, <3>2, <3>3
    <3>5. Alternates(client'.record) /\ Len(client'.record) = Len(client.record) + 1
      <4>1. ~(Len(client.record) % 2 = 0)
        BY <3>2, SameIs
      <4> QED BY <1>4, <2>4, <4>1, SameIs, AlternatesAppend
    <3> QED BY <1>1, <2>1, <3>2, <3>4, <3>5 DEF Same
  <2> QED BY <1>1, <2>3, <2>4
<1> QED BY <1>5, <1>6, <1>7, <1>8, <1>9 DEF LinkInv

LEMMA ClientReadsKeeps == ASSUME LinkInv, ClientReads PROVE LinkInv'
<1>1. CASE link = "ready" /\ ~client.synced
  BY <1>1, ReadAnswer
<1>2. CASE Synced
  BY <1>2, ReadNews
<1>3. CASE link # "ready"
  <2>1. link \notin {"down", "login"} /\ toClient # <<>>
    BY <1>3 DEF ClientReads, LinkInv, Quiet
  <2>2. link' = link /\ server' = server /\ toServer' = toServer /\ toClient' = Tail(toClient)
    BY DEF ClientReads
  <2>3. Head(toClient) \in Line \cup Answer /\ toClient' \in Seq(Line \cup Answer)
    BY <2>1, <2>2 DEF LinkInv, LinkTypeOK
  <2>4. client' \in [synced : BOOLEAN, record : Records, got : Indexes, sent : Indexes,
                     last : {<<>>} \cup {<<l>> : l \in Line}]
    <3> DEFINE line == Head(toClient)
    <3>1. CASE line \in Answer
      <4>1. /\ line.command = "playgame" /\ line.record \in Records
            /\ line.sent \in Indexes /\ line.got \in Indexes
        BY <3>1 DEF Answer
      <4>2. PICK first \in {0, 1} :
              client' = [synced |-> TRUE, record |-> line.record, got |-> line.sent, last |-> <<>>,
                         sent |-> IF line.got < 0 THEN first - 1 ELSE line.got]
        BY <4>1 DEF ClientReads
      <4>3. (IF line.got < 0 THEN first - 1 ELSE line.got) \in Indexes
        BY <4>1 DEF Indexes
      <4> HIDE DEF line
      <4> QED BY <4>1, <4>2, <4>3
    <3>2. CASE line \in Line
      <4>1. line.command # "playgame" /\ line.index \in Indexes
        BY <3>2 DEF Line
      <4>2. client' = [client EXCEPT !.got = line.index,
                         !.record = IF line.command = "do_move" THEN Append(@, Theirs) ELSE @]
        BY <4>1 DEF ClientReads
      <4> HIDE DEF line
      <4>3. (IF line.command = "do_move" THEN Append(client.record, Theirs) ELSE client.record) \in Records
        BY DEF LinkInv, LinkTypeOK, Records
      <4> QED BY <4>1, <4>2, <4>3 DEF LinkInv, LinkTypeOK
    <3> QED BY <2>3, <3>1, <3>2
  <2>5. LinkTypeOK'
    BY <2>2, <2>3, <2>4 DEF LinkInv, LinkTypeOK
  <2>6. Alternates(server.record)'
    BY <2>2 DEF LinkInv, Alternates
  <2> QED BY <1>3, <2>1, <2>2, <2>5, <2>6 DEF LinkInv, Quiet, Answered, FromServer, FromClient, Same, Synced
<1> QED BY <1>1, <1>2, <1>3 DEF Synced

-----------------------------------------------------------------------------
\* The server's steps.
LEMMA OpponentMovesKeeps == ASSUME LinkInv, OpponentMoves PROVE LinkInv'
<1> USE DEF Indexes
<1>1. /\ server.record \in Records /\ Len(server.record) \in Nat /\ Len(server.record) % 2 # 0
      /\ Append(server.record, Theirs) \in Records
      /\ server.sent \in Indexes /\ server.got \in Indexes /\ server.started
      /\ link' = link /\ client' = client /\ toServer' = toServer
      /\ SendPeer([server EXCEPT !.record = Append(@, Theirs)], "do_move")
  BY DEF LinkInv, LinkTypeOK, OpponentMoves, OnTurn, Mine, Theirs, Records
<1>2. /\ server'.record = Append(server.record, Theirs) /\ server'.got = server.got
      /\ server'.started = server.started
      /\ server'.sent = IF link = "ready" THEN server.sent + 1 ELSE server.sent
      /\ toClient' = IF link = "ready"
                     THEN Append(toClient, Numbered(server.sent + 1, server.got, "do_move")) ELSE toClient
      /\ server' \in [started : BOOLEAN, record : Records, got : Indexes, sent : Indexes]
  <2>1. [server EXCEPT !.record = Append(@, Theirs)] \in
          [started : BOOLEAN, record : Records, got : Indexes, sent : Indexes]
    BY <1>1 DEF LinkInv, LinkTypeOK
  <2> DEFINE s == [server EXCEPT !.record = Append(@, Theirs)]
  <2>2. /\ s.record = Append(server.record, Theirs) /\ s.got = server.got
        /\ s.started = server.started /\ s.sent = server.sent
    BY DEF LinkInv, LinkTypeOK
  <2> HIDE DEF s
  <2>3. CASE link = "ready"
    <3>1. /\ server' = [s EXCEPT !.sent = @ + 1]
          /\ toClient' = Append(toClient, Numbered(s.sent + 1, s.got, "do_move"))
      BY <1>1, <2>3 DEF SendPeer, s
    <3>2. s \in [started : BOOLEAN, record : Records, got : Indexes, sent : Indexes] /\ s.sent + 1 \in Indexes
      BY <1>1, <2>1, <2>2 DEF s
    <3>3. /\ server'.record = s.record /\ server'.got = s.got /\ server'.started = s.started
          /\ server'.sent = s.sent + 1
          /\ server' \in [started : BOOLEAN, record : Records, got : Indexes, sent : Indexes]
      BY <3>1, <3>2
    <3> QED BY <2>2, <2>3, <3>1, <3>3
  <2>4. CASE link # "ready"
    <3>1. server' = s /\ toClient' = toClient
      BY <1>1, <2>4 DEF SendPeer, s
    <3> QED BY <1>1, <2>1, <2>2, <2>4, <3>1 DEF s
  <2> QED BY <2>3, <2>4
<1> DEFINE line == Numbered(server.sent + 1, server.got, "do_move")
<1>3. line \in Line /\ line.index = server.sent + 1 /\ line.command = "do_move"
  BY <1>1 DEF Numbered, Line
<1> HIDE DEF line
<1>4. LinkTypeOK'
  <2>1. toClient' \in Seq(Line \cup Answer)
    BY <1>2, <1>3 DEF line, LinkInv, LinkTypeOK
  <2> QED BY <1>1, <1>2, <2>1 DEF LinkInv, LinkTypeOK
<1>5. Alternates(server.record)' /\ Len(server'.record) = Len(server.record) + 1
  BY <1>1, <1>2, AlternatesAppend DEF LinkInv
<1>6. Quiet' /\ link' # "refused"
  BY <1>1, <1>2 DEF LinkInv, Quiet
<1>7. Answered'
  <2> SUFFICES ASSUME link = "ready", ~client.synced PROVE Answered'
    BY <1>1 DEF Answered
  <2>1. /\ toClient # <<>> /\ toClient \in Seq(Line \cup Answer) /\ toClient[1] \in Answer
        /\ toClient[1].got = server.got /\ Alternates(toClient[1].record)
        /\ toClient[1].record \in Records /\ toClient[1].sent \in Indexes
    BY <1>1 DEF LinkInv, LinkTypeOK, Answered, Answer
  <2>2. Len(toClient) = 1 /\ server.sent = toClient[1].sent /\ Len(server.record) = Len(toClient[1].record)
    <3>1. \/ /\ Len(toClient) = 1 /\ server.sent = toClient[1].sent
             /\ Len(server.record) = Len(toClient[1].record)
          \/ Len(server.record) = Len(toClient[1].record) + 1 /\ Len(toClient[1].record) % 2 = 1
      BY <1>1 DEF LinkInv, Answered
    <3>2. Len(toClient[1].record) \in Nat
      BY <2>1 DEF Records
    <3> QED BY <1>1, <3>1, <3>2, Parity, Zenon
  <2>3. toClient' = Append(toClient, line) /\ Len(toClient') = 2 /\ toClient'[1] = toClient[1]
        /\ toClient'[2] = line /\ toClient' # <<>>
    <3>1. toClient' = Append(toClient, line)
      BY <1>2 DEF line
    <3>2. line \in Line \cup Answer /\ 1 \in 1..Len(toClient)
      BY <1>3, <2>2
    <3>3. \A i \in 1..Len(toClient) : toClient'[i] = toClient[i]
      BY <2>1, <3>1, <3>2
    <3>4. Len(toClient') = Len(toClient) + 1 /\ toClient'[Len(toClient) + 1] = line
      BY <2>1, <3>1, <3>2
    <3> QED BY <2>2, <3>1, <3>2, <3>3, <3>4
  <2>4. Len(toClient[1].record) % 2 = 1
    BY <1>1, <2>2, Parity
  <2>5. server'.sent = toClient'[1].sent + 1 /\ Len(server'.record) = Len(toClient'[1].record) + 1
        /\ toClient'[2].index = toClient'[1].sent + 1
    BY <1>2, <1>3, <1>5, <2>2, <2>3
  <2> QED BY <1>2, <1>3, <2>1, <2>3, <2>4, <2>5 DEF Answered, Alternates
<1>8. FromServer'
  <2> SUFFICES ASSUME Synced PROVE FromServer'
    BY <1>1 DEF FromServer, Synced
  <2>1. toClient' = Append(toClient, line) /\ toClient \in Seq(Line) /\ client.got \in Int
        /\ server.sent = client.got + Len(toClient) /\ Len(toClient) \in Nat /\ link = "ready"
    <3>1. link = "ready" /\ toClient' = Append(toClient, line)
      BY <1>2 DEF Synced, line
    <3>2. server.sent = client.got + Len(toClient) /\ toClient \in Seq(Line) /\ client.got \in Int
      BY SameIs DEF LinkInv, FromServer
    <3> QED BY <3>1, <3>2
  <2>2. server'.sent = server.sent + 1 /\ client'.got = client.got
    BY <1>1, <1>2, <2>1
  <2>3. /\ toClient' \in Seq(Line) /\ Len(toClient') = Len(toClient) + 1
        /\ \A i \in 1..Len(toClient) : toClient'[i] = toClient[i]
        /\ toClient'[Len(toClient) + 1] = line
    BY <1>3, <2>1
  <2>4. \A i \in 1..Len(toClient) : toClient[i].index = client.got + i
    BY DEF LinkInv, FromServer
  <2>5. line.index = client.got + (Len(toClient) + 1)
    BY <1>3, <2>1
  <2>6. ASSUME NEW i \in 1..Len(toClient') PROVE toClient'[i].index = client'.got + i
    BY <2>1, <2>2, <2>3, <2>4, <2>5
  <2>7. server'.sent = client'.got + Len(toClient')
    BY <2>1, <2>2, <2>3
  <2> QED BY <2>3, <2>6, <2>7 DEF FromServer
<1>9. FromClient'
  <2> SUFFICES ASSUME Synced PROVE FromClient'
    BY <1>1 DEF FromClient, Synced
  <2>1. server.sent <= server'.sent /\ server'.sent \in Int
    BY <1>1, <1>2
  <2>2. \A l \in Line : l.ack \in Int
    BY DEF Line
  <2>3. \A n \in Int : n <= server.sent => n <= server'.sent
    BY <1>1, <2>1
  <2>4. \A i \in 1..Len(toServer) : toServer[i].ack <= server'.sent
    <3>1. \A i \in 1..Len(toServer) : toServer[i] \in Line /\ toServer[i].ack <= server.sent
      BY DEF LinkInv, FromClient
    <3> QED BY <2>2, <2>3, <3>1
  <2>5. \A l \in Line : client.last = <<l>> => l.index = client.sent /\ l.ack <= server'.sent
    <3>1. \A l \in Line : client.last = <<l>> => l.index = client.sent /\ l.ack <= server.sent
      BY DEF LinkInv, FromClient
    <3> QED BY <2>2, <2>3, <3>1
  <2> QED BY <1>1, <1>2, <2>4, <2>5 DEF LinkInv, FromClient
<1>10. Same'
  <2> SUFFICES ASSUME Synced PROVE Same'
    BY <1>1 DEF Same, Synced
  <2>1. Coming' = Coming
    BY <1>1, <1>2 DEF Coming
  <2>2. Coming = {} /\ News = {} /\ Len(server.record) = Len(client.record)
    <3>1. \/ Coming = {} /\ News = {} /\ Len(server.record) = Len(client.record)
          \/ Len(server.record) % 2 = 0
          \/ Len(server.record) = Len(client.record) + 1 /\ Len(client.record) % 2 = 1
      BY DEF LinkInv, Same
    <3> QED BY <1>1, <3>1, SameIs, Parity, Zenon
  <2>3. News' = {line.index} /\ line.index \in Int
    <3>1. News' = NewsOf(Append(toClient, line))
      BY <1>2 DEF News, NewsOf, line, Synced
    <3> QED BY <1>1, <1>3, <2>2, <3>1, SameIs, NewsAppend
  <2>4. Len(client.record) % 2 = 1
    BY <1>1, <2>2, Parity
  <2>5. Alternates(client'.record)
    BY <1>1, SameIs
  <2> QED BY <1>1, <1>5, <2>1, <2>2, <2>3, <2>4, <2>5 DEF Same
<1> QED BY <1>4, <1>5, <1>6, <1>7, <1>8, <1>9, <1>10 DEF LinkInv

\* The first line under way is known, or the next: it is never refused.
LEMMA FirstIsExpected ==
  ASSUME LinkInv, Synced, toServer # <<>>
  PROVE  /\ toServer[1] \in Line /\ Head(toServer) = toServer[1] /\ toServer[1].ack <= server.sent
         /\ toServer[1].index \in Int /\ toServer[1].index <= client.sent
         /\ Known(toServer[1].index) \/ ~Gap(toServer[1].index)
<1> USE DEF Indexes
<1>1. /\ toServer \in Seq(Line) /\ server.got \in Indexes
      /\ \A line \in Line : line.index \in Int
  BY DEF LinkInv, LinkTypeOK, FromClient, Line
<1>2. toServer[1] \in Line /\ Head(toServer) = toServer[1] /\ 1 \in 1..Len(toServer)
  BY <1>1, Behind
<1>3. /\ toServer[1].ack <= server.sent /\ toServer[1].index <= client.sent
      /\ toServer[1].index <= server.got + 1 \/ (server.got = -1 /\ toServer[1].index <= 1)
  BY <1>2 DEF LinkInv, FromClient
<1>4. Known(toServer[1].index) \/ ~Gap(toServer[1].index)
  BY <1>1, <1>2, <1>3 DEF Known, Gap
<1> QED BY <1>1, <1>2, <1>3, <1>4

\* The first line is read: its number is the last one read known, if it was not
\* known before.
LEMMA ShorterFromClient ==
  ASSUME LinkInv, Synced, toServer # <<>>, toServer' = Tail(toServer), client' = client, link' = link,
         server'.got = IF Known(toServer[1].index) THEN server.got ELSE toServer[1].index,
         server'.sent \in Int, server.sent <= server'.sent
  PROVE  FromClient'
<1> USE DEF Indexes
<1>1. /\ toServer \in Seq(Line) /\ server.got \in Indexes /\ server.sent \in Indexes
      /\ client.sent \in Indexes /\ server.got <= client.sent
      /\ \A l \in Line : l.index \in Indexes /\ l.ack \in Indexes
  BY DEF LinkInv, LinkTypeOK, FromClient, Line
<1> DEFINE rest == toServer'
<1>2. /\ rest \in Seq(Line) /\ Len(rest) = Len(toServer) - 1 /\ Len(toServer) \in Nat \ {0}
      /\ \A i \in 1..Len(rest) : rest[i] = toServer[i + 1] /\ i + 1 \in 1..Len(toServer)
      /\ 1 \in 1..Len(toServer)
  BY <1>1, Behind
<1> HIDE DEF rest
<1>3. \A i \in 1..Len(toServer) : /\ toServer[i] \in Line /\ toServer[i].index \in Indexes
                                  /\ toServer[i].index <= client.sent
                                  /\ toServer[i].ack <= server.sent /\ toServer[i].ack \in Indexes
  BY <1>1 DEF LinkInv, FromClient
<1>4. server'.got \in Indexes /\ server'.got <= client.sent /\ toServer[1].index <= server'.got
      /\ server.got <= server'.got
  <2>1. toServer[1].index \in Indexes /\ toServer[1].index <= client.sent
    BY <1>2, <1>3
  <2>2. CASE toServer[1].index <= server.got
    BY <1>1, <2>1, <2>2 DEF Known
  <2>3. CASE ~(toServer[1].index <= server.got)
    BY <1>1, <2>1, <2>3 DEF Known
  <2> QED BY <2>2, <2>3
<1>5. \A i \in 1..Len(rest) : rest[i].index <= client.sent /\ rest[i].ack <= server'.sent
  <2> SUFFICES ASSUME NEW i \in 1..Len(rest) PROVE rest[i].index <= client.sent /\ rest[i].ack <= server'.sent
    OBVIOUS
  <2>1. rest[i] = toServer[i + 1] /\ i + 1 \in 1..Len(toServer)
    BY <1>2
  <2> QED BY <1>1, <1>3, <2>1
<1>6. ASSUME NEW i \in 1..Len(rest), NEW j \in 1..Len(rest), i < j
      PROVE  rest[i].index <= rest[j].index /\ (rest[i].index = rest[j].index => rest[i] = rest[j])
  <2>1. rest[i] = toServer[i + 1] /\ i + 1 \in 1..Len(toServer) /\ rest[j] = toServer[j + 1]
        /\ j + 1 \in 1..Len(toServer)
    BY <1>2
  <2>2. i + 1 < j + 1
    BY <1>2, <1>6
  <2> QED BY <2>1, <2>2 DEF LinkInv, FromClient
<1>7. ASSUME NEW i \in 1..(Len(rest) - 1)
      PROVE  rest[i + 1].index <= rest[i].index + 1
  <2>1. i \in 1..Len(rest) /\ i + 1 \in 1..Len(rest) /\ i + 1 \in 1..(Len(toServer) - 1)
    BY <1>2
  <2>2. rest[i] = toServer[i + 1] /\ rest[i + 1] = toServer[(i + 1) + 1]
    BY <1>2, <2>1
  <2> QED BY <2>1, <2>2 DEF LinkInv, FromClient
<1>8. \A l \in Line : client.last = <<l>> => l.index = client.sent /\ l.ack <= server'.sent
  <2>1. \A l \in Line : client.last = <<l>> => l.index = client.sent /\ l.ack <= server.sent
    BY DEF LinkInv, FromClient
  <2> QED BY <1>1, <2>1
<1>9. client.last = <<toServer[Len(toServer)]>> /\ toServer[Len(toServer)].index = client.sent
  BY DEF LinkInv, FromClient
<1>10. rest = <<>> => client.sent = server'.got
  <2> SUFFICES ASSUME rest = <<>> PROVE client.sent = server'.got
    OBVIOUS
  <2>1. Len(toServer) = 1
    BY <1>2
  <2> QED BY <1>4, <1>9, <2>1, <1>1
<1>11. rest # <<>> => /\ rest[1].index <= server'.got + 1
                      /\ client.last = <<rest[Len(rest)]>> /\ rest[Len(rest)].index = client.sent
  <2> SUFFICES ASSUME rest # <<>>
               PROVE  /\ rest[1].index <= server'.got + 1
                      /\ client.last = <<rest[Len(rest)]>> /\ rest[Len(rest)].index = client.sent
    OBVIOUS
  <2>1. 1 \in 1..Len(rest) /\ Len(rest) \in 1..Len(rest) /\ 1 \in 1..(Len(toServer) - 1)
    BY <1>2
  <2>2. rest[1] = toServer[1 + 1] /\ rest[Len(rest)] = toServer[Len(toServer)] /\ 1 + 1 \in 1..Len(toServer)
    BY <1>2, <2>1
  <2>3. toServer[1 + 1].index <= toServer[1].index + 1
    BY <2>1 DEF LinkInv, FromClient
  <2>4. toServer[1].index \in Int /\ toServer[1 + 1].index \in Int
    BY <1>2, <1>3, <2>2
  <2>5. rest[1].index <= server'.got + 1
    BY <1>4, <2>2, <2>3, <2>4
  <2> QED BY <1>9, <2>2, <2>5
<1>12. FromClient' <=> (Synced' =>
         /\ rest \in Seq(Line)
         /\ server'.got <= client'.sent
         /\ \A i \in 1..Len(rest) : rest[i].index <= client'.sent /\ rest[i].ack <= server'.sent
         /\ \A i \in 1..Len(rest) : \A j \in 1..Len(rest) : i < j =>
              rest[i].index <= rest[j].index /\ (rest[i].index = rest[j].index => rest[i] = rest[j])
         /\ \A i \in 1..(Len(rest) - 1) : rest[i + 1].index <= rest[i].index + 1
         /\ \A l \in Line : client'.last = <<l>> => l.index = client'.sent /\ l.ack <= server'.sent
         /\ rest = <<>> => client'.sent = server'.got
                           \/ (server'.got = -1 /\ client'.sent = 0 /\ client'.last = <<>>)
         /\ rest # <<>> =>
              /\ rest[1].index <= server'.got + 1 \/ (server'.got = -1 /\ rest[1].index <= 1)
              /\ client'.last = <<rest[Len(rest)]>> /\ rest[Len(rest)].index = client'.sent)
  BY Zenon DEF FromClient, rest
<1> QED BY <1>2, <1>4, <1>5, <1>6, <1>7, <1>8, <1>10, <1>11, <1>12, Zenon

LEMMA ReadLineKeeps ==
  ASSUME LinkInv, Synced, toServer # <<>>, toServer' = Tail(toServer), client' = client,
         ReadLine(Head(toServer))
  PROVE  LinkInv'
<1> USE DEF Indexes
<1> DEFINE line == toServer[1]
<1>1. /\ line \in Line /\ Head(toServer) = line /\ line.ack <= server.sent
      /\ line.index \in Int /\ line.index <= client.sent /\ line.ack \in Int
      /\ Known(line.index) \/ ~Gap(line.index)
      /\ link = "ready" /\ client.synced
  BY FirstIsExpected DEF Synced, Line
<1>2. /\ server \in [started : BOOLEAN, record : Records, got : Indexes, sent : Indexes]
      /\ server.got \in Indexes /\ server.sent \in Indexes /\ server.record \in Records
      /\ toServer \in Seq(Line) /\ toServer' \in Seq(Line) /\ toServer' \in Seq(Line \cup {Playgame})
  <2>1. toServer \in Seq(Line) /\ toServer' \in Seq(Line)
    BY Behind DEF LinkInv, FromClient
  <2> QED BY <2>1 DEF LinkInv, LinkTypeOK
<1>3. Coming = ComingOf(toServer', server.got) \cup
                 (IF line.command = "do_move" /\ line.index > server.got THEN {line.index} ELSE {})
  BY <1>2, SameIs, ComingTail
<1>4. ~(line.ack > server.sent)
  BY <1>1, <1>2
<1> HIDE DEF line
<1>5. CASE Known(line.index) /\ UNCHANGED <<link, server, toClient>>
  <2>1. FromClient'
    BY <1>1, <1>2, <1>5, ShorterFromClient DEF line
  <2>2. Coming' = Coming
    <3>1. Coming' = ComingOf(toServer', server.got)
      BY <1>5 DEF Coming, ComingOf
    <3>2. ~(line.index > server.got)
      BY <1>1, <1>2, <1>5 DEF Known
    <3> QED BY <1>3, <3>1, <3>2
  <2>3. News' = News
    BY <1>5 DEF News
  <2>4. LinkTypeOK'
    BY <1>2, <1>5 DEF LinkInv, LinkTypeOK
  <2>5. Same'
    BY <1>1, <1>5, <2>2, <2>3 DEF LinkInv, Same, Alternates, Synced
  <2> QED BY <1>1, <1>5, <2>1, <2>4, <2>5 DEF LinkInv, Quiet, Answered, FromServer, Synced, Alternates
<1>6. CASE /\ ~Known(line.index)
           /\ \/ line.command = "do_move" /\ ReadMove(line)
              \/ line.command = "time" /\ ReadTime(line)
  <2>1. /\ Numbers(line) \in [started : BOOLEAN, record : Records, got : Indexes, sent : Indexes]
        /\ Numbers(line).got = line.index /\ Numbers(line).record = server.record
        /\ Numbers(line).sent = server.sent /\ Numbers(line).started = server.started
        /\ line.index > server.got /\ line.index \in Indexes
    <3>1. line.index > server.got /\ line.index \in Indexes
      BY <1>1, <1>2, <1>6 DEF Known
    <3> QED BY <1>2, <3>1 DEF Numbers
  <2>10. /\ toServer' \in Seq(Line) /\ server.got \in Int /\ line.index \in Int
         /\ server.got <= line.index
         /\ ComingOf(toServer', line.index) = {n \in ComingOf(toServer', server.got) : n > line.index}
    <3>1. toServer' \in Seq(Line) /\ server.got \in Int /\ line.index \in Int /\ server.got <= line.index
      BY <1>1, <1>2, <2>1
    <3> QED BY <3>1, ComingLater
  <2>2. CASE line.command = "do_move" /\ ReadMove(line)
    <3>1. CASE server' = Numbers(line) /\ Reject("ended")
      <4>1. link' = "ended" /\ toClient' = toClient
        BY <3>1 DEF Reject
      <4>2. LinkTypeOK' /\ Alternates(server.record)'
        BY <1>2, <2>1, <3>1, <4>1 DEF LinkInv, LinkTypeOK, Alternates
      <4> QED BY <4>1, <4>2 DEF LinkInv, Quiet, Answered, FromServer, FromClient, Same, Synced
    <3>2. CASE /\ OnTurn(server.record) = Mine /\ UNCHANGED <<link, toClient>>
               /\ server' = [Numbers(line) EXCEPT !.record = Append(@, Mine)]
      <4>1. /\ Len(server.record) \in Nat /\ Len(server.record) % 2 = 0
            /\ Append(server.record, Mine) \in Records /\ Alternates(Append(server.record, Mine))
            /\ Len(Append(server.record, Mine)) = Len(server.record) + 1
        <5>1. Len(server.record) \in Nat
          BY <1>2 DEF Records
        <5>2. Len(server.record) % 2 = 0
          BY <3>2 DEF OnTurn, Mine, Theirs
        <5> QED BY <1>2, <5>1, <5>2, AlternatesAppend DEF LinkInv
      <4>2. /\ server'.got = line.index /\ server'.sent = server.sent /\ server'.started = server.started
            /\ server'.record = Append(server.record, Mine)
            /\ server' \in [started : BOOLEAN, record : Records, got : Indexes, sent : Indexes]
        BY <2>1, <3>2, <4>1
      <4>3. LinkTypeOK'
        BY <1>2, <3>2, <4>2 DEF LinkInv, LinkTypeOK
      <4>4. FromClient'
        BY <1>1, <1>2, <1>6, <3>2, <4>2, ShorterFromClient DEF line
      <4>5. Coming = {line.index} /\ News = {} /\ Len(server.record) + 1 = Len(client.record)
        <5>1. line.index \in Coming
          BY <1>3, <2>1, <2>2
        <5> QED BY <5>1 DEF LinkInv, Same
      <4>6. Coming' = {}
        <5>1. Coming' = ComingOf(toServer', line.index)
          BY <4>2 DEF Coming, ComingOf
        <5>2. Coming' = {n \in ComingOf(toServer', server.got) : n > line.index}
          BY <2>10, <5>1
        <5>3. ~(line.index > line.index)
          BY <1>1
        <5> QED BY <1>3, <4>5, <5>2, <5>3
      <4>7. News' = {}
        BY <3>2, <4>5 DEF News
      <4>8. Same'
        BY <1>1, <3>2, <4>1, <4>2, <4>5, <4>6, <4>7 DEF LinkInv, Same, Alternates, Synced
      <4> QED BY <1>1, <3>2, <4>1, <4>2, <4>3, <4>4, <4>8
              DEF LinkInv, Quiet, Answered, FromServer, Synced
    <3> QED BY <2>2, <3>1, <3>2 DEF ReadMove
  <2>3. CASE line.command = "time" /\ ReadTime(line)
    <3> DEFINE echo == Numbered(server.sent + 1, line.index, "time")
    <3>1. /\ server' = [Numbers(line) EXCEPT !.sent = @ + 1]
          /\ toClient' = Append(toClient, echo) /\ link' = link
      BY <1>1, <2>1, <2>3 DEF ReadTime, SendPeer
    <3>2. /\ server'.got = line.index /\ server'.sent = server.sent + 1 /\ server'.started = server.started
          /\ server'.record = server.record
          /\ server' \in [started : BOOLEAN, record : Records, got : Indexes, sent : Indexes]
      <4>1. server.sent + 1 \in Indexes
        BY <1>2
      <4> QED BY <2>1, <3>1, <4>1
    <3>3. echo \in Line /\ echo.index = server.sent + 1 /\ echo.command = "time"
      BY <1>2, <2>1 DEF Numbered, Line
    <3> HIDE DEF echo
    <3>4. LinkTypeOK'
      BY <1>2, <3>1, <3>2, <3>3 DEF LinkInv, LinkTypeOK
    <3>5. FromClient'
      BY <1>1, <1>2, <1>6, <3>1, <3>2, ShorterFromClient DEF line
    <3>6. FromServer'
      <4>1. /\ toClient \in Seq(Line) /\ Len(toClient) \in Nat /\ client.got \in Int
            /\ server.sent = client.got + Len(toClient)
        <5>1. toClient \in Seq(Line) /\ client.got \in Int
          BY SameIs
        <5>2. server.sent = client.got + Len(toClient)
          BY DEF LinkInv, FromServer
        <5> QED BY <5>1, <5>2
      <4>6. \A i \in 1..Len(toClient) : toClient[i].index = client.got + i
        BY DEF LinkInv, FromServer
      <4>2. /\ toClient' \in Seq(Line) /\ Len(toClient') = Len(toClient) + 1
            /\ \A i \in 1..Len(toClient) : toClient'[i] = toClient[i]
            /\ toClient'[Len(toClient) + 1] = echo
        BY <3>1, <3>3, <4>1
      <4>3. echo.index = client.got + (Len(toClient) + 1)
        BY <3>3, <4>1
      <4>4. ASSUME NEW i \in 1..Len(toClient') PROVE toClient'[i].index = client.got + i
        <5>1. CASE i = Len(toClient) + 1
          BY <4>2, <4>3, <5>1
        <5>2. CASE i # Len(toClient) + 1
          <6>1. i \in 1..Len(toClient)
            BY <4>1, <4>2, <5>2
          <6> QED BY <4>2, <4>6, <6>1
        <5> QED BY <5>1, <5>2
      <4>5. server'.sent = client.got + Len(toClient')
        BY <3>2, <4>1, <4>2
      <4> QED BY <4>2, <4>4, <4>5 DEF FromServer
    <3>7. Coming' = Coming
      <4>1. Coming' = ComingOf(toServer', line.index)
        BY <3>2 DEF Coming, ComingOf
      <4>2. Coming' = {n \in ComingOf(toServer', server.got) : n > line.index}
        BY <2>10, <4>1
      <4>3. Coming = ComingOf(toServer', server.got)
        BY <1>3, <2>3
      <4>4. ASSUME NEW n \in ComingOf(toServer', server.got) PROVE n > line.index
        <5>1. PICK i \in 1..Len(toServer') : toServer'[i].index = n /\ toServer'[i].command = "do_move"
          <6>1. toServer' \in Seq(Line)
            BY <2>10
          <6>2. n \in ComingOf(toServer', server.got)
            OBVIOUS
          <6>3. \E i \in 1..Len(toServer') :
                  toServer'[i].index = n /\ toServer'[i].command = "do_move" /\ n > server.got
            BY <6>1, <6>2, ComingIs
          <6> QED BY <6>3
        <5>2. /\ toServer'[i] = toServer[i + 1] /\ i + 1 \in 1..Len(toServer) /\ 1 \in 1..Len(toServer)
              /\ 1 < i + 1
          <6>1. /\ toServer'[i] = toServer[i + 1] /\ i + 1 \in 1..Len(toServer)
                /\ Len(toServer) \in Nat \ {0} /\ Len(toServer') \in Nat
            BY <1>2, <5>1, Behind
          <6> QED BY <6>1
        <5>3. line.index <= n /\ (line.index = n => line = toServer'[i])
          BY <5>1, <5>2 DEF LinkInv, FromClient, line
        <5>4. n \in Int /\ line # toServer'[i]
          <6>1. \A l \in Line : l.index \in Int
            BY DEF Line
          <6> QED BY <1>2, <2>3, <5>1, <6>1
        <5> QED BY <1>1, <5>3, <5>4
      <4> QED BY <4>2, <4>3, <4>4
    <3>8. News' = News
      <4>1. News' = NewsOf(Append(toClient, echo))
        BY <3>1 DEF News, NewsOf
      <4> QED BY <3>3, <4>1, NewsAppend, SameIs
    <3>9. Same'
      BY <1>1, <3>1, <3>2, <3>7, <3>8 DEF LinkInv, Same, Alternates, Synced
    <3>10. Alternates(server.record)'
      BY <3>2, SameIs DEF Alternates
    <3> QED BY <1>1, <3>1, <3>2, <3>4, <3>5, <3>6, <3>9, <3>10 DEF LinkInv, Quiet, Answered
  <2> QED BY <1>6, <2>2, <2>3
<1>7. \/ Known(line.index) /\ UNCHANGED <<link, server, toClient>>
      \/ /\ ~Known(line.index)
         /\ \/ line.command = "do_move" /\ ReadMove(line)
            \/ line.command = "time" /\ ReadTime(line)
  BY <1>1, <1>4 DEF ReadLine
<1> QED BY <1>5, <1>6, <1>7

LEMMA ServerReadsKeeps == ASSUME LinkInv, ServerReads PROVE LinkInv'
<1>1. link \in {"login", "ready"} /\ toServer # <<>> /\ toServer' = Tail(toServer) /\ client' = client
  BY DEF ServerReads
<1>2. CASE link = "login"
  <2>1. toServer = <<Playgame>> /\ Head(toServer).command = "playgame" /\ toServer' = <<>>
    BY <1>1, <1>2 DEF LinkInv, Quiet, Playgame
  <2>2. ReadPlaygame
    BY <2>1 DEF ServerReads
  <2> QED BY <1>1, <1>2, <2>1, <2>2, AnswerKeeps DEF ReadPlaygame
<1>3. CASE link = "ready"
  <2>1. Synced
    BY <1>1, <1>3 DEF LinkInv, LinkTypeOK, Quiet, Synced
  <2>2. Head(toServer).command # "playgame"
    <3>1. Head(toServer) \in Line
      BY <1>1, <2>1, FirstIsExpected
    <3> QED BY <3>1 DEF Line
  <2>3. ReadLine(Head(toServer))
    BY <2>2 DEF ServerReads
  <2> QED BY <1>1, <2>1, <2>3, ReadLineKeeps
<1> QED BY <1>1, <1>2, <1>3

LEMMA OpponentReadyKeeps == ASSUME LinkInv, OpponentReady PROVE LinkInv'
<1>1. toServer = <<>>
  BY DEF OpponentReady, LinkInv, Quiet
<1> QED BY <1>1, AnswerKeeps DEF OpponentReady

LEMMA LinkStepKeeps == LinkInv /\ [LinkNext]_linkVars => LinkInv'
<1> SUFFICES ASSUME LinkInv, [LinkNext]_linkVars PROVE LinkInv'
  OBVIOUS
<1>1. CASE LinkNext
  BY <1>1, ConnectKeeps, LostKeeps, SendKeeps, RepeatKeeps, ClientReadsKeeps, ServerReadsKeeps,
     OpponentMovesKeeps, OpponentReadyKeeps DEF LinkNext
<1>2. CASE UNCHANGED linkVars
  <2>1. link' = link /\ server' = server /\ client' = client /\ toServer' = toServer /\ toClient' = toClient
    BY <1>2 DEF linkVars
  <2>2. LinkTypeOK' /\ Quiet' /\ Answered' /\ FromServer' /\ FromClient' /\ Alternates(server.record)'
    BY <2>1 DEF LinkInv, LinkTypeOK, Alternates, Quiet, Answered, Synced, FromServer, FromClient
  <2>3. Coming' = Coming /\ News' = News
    BY <2>1 DEF Coming, News
  <2>4. Same'
    BY <2>1, <2>3 DEF LinkInv, Same, Alternates, Synced
  <2> QED BY <2>1, <2>2, <2>4 DEF LinkInv
<1> QED BY <1>1, <1>2

\* Whatever breaks, repeats and crosses, the two records differ by at most one
\* move on its way, and every number read is one the reader expects.
THEOREM LinkInvariance == LinkSpec => []LinkInv
<1> QED BY InitIsInStep, LinkStepKeeps, PTL DEF LinkSpec

\* Two records of moves in turn, one with a move more, differ by that move.
LEMMA OneMore ==
  ASSUME NEW shorter \in Records, NEW longer \in Records, Alternates(shorter), Alternates(longer),
         Len(longer) = Len(shorter) + 1,
         NEW who, who = IF Len(shorter) % 2 = 0 THEN Mine ELSE Theirs
  PROVE  shorter \o [i \in 1..1 |-> who] = longer
<1>1. Len(shorter) \in Nat /\ who \in {Mine, Theirs}
  BY DEF Records
<1> DEFINE more == shorter \o [i \in 1..1 |-> who]
<1>2. [i \in 1..1 |-> who] = <<who>>
  OBVIOUS
<1>3. more = Append(shorter, who)
  BY <1>1, <1>2 DEF Records
<1>4. Append(shorter, who) \in Records /\ Alternates(Append(shorter, who))
      /\ Len(Append(shorter, who)) = Len(shorter) + 1
  BY <1>1, AlternatesAppend
<1> HIDE DEF more
<1>5. \A i \in 1..Len(longer) : more[i] = longer[i]
  BY <1>1, <1>3, <1>4 DEF Alternates
<1>6. more = longer
  BY <1>3, <1>4, <1>5 DEF Records
<1> QED BY <1>6 DEF more

LEMMA EqualRecords ==
  ASSUME NEW one \in Records, NEW other \in Records, Alternates(one), Alternates(other),
         Len(one) = Len(other)
  PROVE  one = other
<1>1. \A i \in 1..Len(one) : one[i] = other[i]
  BY DEF Alternates
<1> QED BY <1>1 DEF Records

LEMMA InvIsInStep == LinkInv => InStep
<1> SUFFICES ASSUME LinkInv PROVE InStep
  OBVIOUS
<1>1. ASSUME Synced
      PROVE  server.record \o [i \in 1..Cardinality(Coming) |-> Mine]
               = client.record \o [i \in 1..Cardinality(News) |-> Theirs]
  <2>1. \A r \in Records : r \o [i \in 1..0 |-> Mine] = r /\ r \o [i \in 1..0 |-> Theirs] = r
    <3>1. [i \in 1..0 |-> Mine] = <<>> /\ [i \in 1..0 |-> Theirs] = <<>>
      OBVIOUS
    <3> QED BY <3>1 DEF Records
  <2>2. Cardinality({}) = 0 /\ \A n : Cardinality({n}) = 1
    BY FS_EmptySet, FS_Singleton
  <2>3. CASE Coming = {} /\ News = {} /\ Len(server.record) = Len(client.record)
    <3>1. server.record = client.record
      BY <1>1, <2>3, SameIs, EqualRecords
    <3> QED BY <1>1, <2>1, <2>2, <2>3, <3>1, SameIs
  <2>4. CASE /\ \E n \in Int : Coming = {n}
             /\ News = {} /\ Len(server.record) + 1 = Len(client.record) /\ Len(server.record) % 2 = 0
    <3>1. server.record \o [i \in 1..1 |-> Mine] = client.record
      BY <1>1, <2>4, SameIs, OneMore
    <3>2. Cardinality(Coming) = 1 /\ Cardinality(News) = 0
      BY <2>2, <2>4
    <3> QED BY <1>1, <2>1, <3>1, <3>2, SameIs
  <2>5. CASE /\ \E n \in Int : News = {n}
             /\ Coming = {} /\ Len(server.record) = Len(client.record) + 1 /\ Len(client.record) % 2 = 1
    <3>1. ~(Len(client.record) % 2 = 0)
      BY <1>1, <2>5, SameIs, Parity
    <3>2. client.record \o [i \in 1..1 |-> Theirs] = server.record
      BY <1>1, <2>5, <3>1, SameIs, OneMore
    <3>3. Cardinality(Coming) = 0 /\ Cardinality(News) = 1
      BY <2>2, <2>5
    <3> QED BY <1>1, <2>1, <3>2, <3>3, SameIs
  <2> QED BY <1>1, <2>3, <2>4, <2>5 DEF LinkInv, Same
<1>2. ASSUME Synced
      PROVE  /\ \A i \in DOMAIN toClient : toClient[i].index = client.got + i
             /\ server.sent = client.got + Len(toClient)
  <2>1. DOMAIN toClient = 1..Len(toClient)
    BY <1>2, SameIs
  <2> QED BY <1>2, <2>1 DEF LinkInv, FromServer
<1>3. link # "refused"
  BY DEF LinkInv
<1> QED BY <1>1, <1>2, <1>3, Zenon DEF InStep, Synced

\* Through lost connections, repeated and crossing lines, the player and the
\* server agree on the match, however many moves and lines there are.
THEOREM PlayersStayInStep == LinkSpec => []InStep
<1> QED BY LinkInvariance, InvIsInStep, PTL

-----------------------------------------------------------------------------
\* The rate limiter.
USE BoundAssumption, AddressAssumption

\* The parts of InExpiryOrder that speak of a table alone.
Sorted(es) == \A i, j \in 1..Len(es) : i < j =>
                /\ es[i].resetAt <= es[j].resetAt
                /\ es[i].address # es[j].address
Between(es, low, high) == \A i \in 1..Len(es) : es[i].resetAt > low /\ es[i].resetAt <= high

Table(es, stamp) == /\ es \in Seq(Entry)
                    /\ Sorted(es)
                    /\ Between(es, stamp, stamp + Window)
                    /\ Len(es) <= Capacity

TypeInv == /\ now \in 0..MaxSafe
           /\ lastNow \in Times
           /\ reply \in Reply
IInv == TypeInv /\ Table(entries, lastNow)

-----------------------------------------------------------------------------
\* The stamp is a time of the limiter and never before the last one.
LEMMA StampIsMonotone ==
  ASSUME NEW n \in 0..MaxSafe, n + Window <= MaxSafe, lastNow \in Times
  PROVE  Stamp(n) \in Times /\ Stamp(n) >= lastNow
BY DEF Stamp, Times

\* A table has a length, and its entries have numbers in their fields.
LEMMA Fields ==
  ASSUME NEW es \in Seq(Entry)
  PROVE  /\ Len(es) \in Nat
         /\ \A i \in 1..Len(es) : /\ es[i] \in Entry
                                  /\ es[i].resetAt \in Nat
                                  /\ es[i].count \in Nat
<1>1. Len(es) \in Nat /\ \A i \in 1..Len(es) : es[i] \in Entry
  OBVIOUS
<1>2. \A e \in Entry : e.resetAt \in Nat /\ e.count \in Nat
  BY DEF Entry
<1> QED BY <1>1, <1>2

\* A set of naturals has a least member.
LEMMA Least ==
  ASSUME NEW T \in SUBSET Nat, T # {}
  PROVE  \E n \in T : \A m \in T : n <= m
<1> DEFINE R == OpToRel(<, Nat)
<1>1. IsWellFoundedOn(R, Nat)
  BY NatLessThanWellFounded, Zenon
<1>2. \A x, y \in Nat : <<y, x>> \notin R => x <= y
  BY DEF OpToRel
<1> HIDE DEF R
<1>3. \E x \in T : \A y \in T : <<y, x>> \notin R
  BY <1>1, WFMin, Zenon
<1> QED BY <1>2, <1>3

\* Reclaiming from the front stops at the first window that has not ended.
LEMMA PurgeIsSuffix ==
  ASSUME NEW es \in Seq(Entry), NEW stamp \in Nat
  PROVE  \E k \in 0..Len(es) :
           /\ Purged(es, stamp) = SubSeq(es, k + 1, Len(es))
           /\ \A i \in 1..k : es[i].resetAt <= stamp
           /\ k < Len(es) => es[k + 1].resetAt > stamp
<1> DEFINE live == Live(es, stamp)
<1>1. Len(es) \in Nat /\ \A i \in 1..Len(es) : es[i].resetAt \in Nat
  BY Fields
<1>2. CASE live = {}
  <2>1. Purged(es, stamp) = <<>>
    BY <1>2 DEF Purged
  <2>2. SubSeq(es, Len(es) + 1, Len(es)) = <<>>
    BY <1>1
  <2>3. \A i \in 1..Len(es) : es[i].resetAt <= stamp
    BY <1>1, <1>2 DEF Live
  <2> QED BY <1>1, <2>1, <2>2, <2>3
<1>3. CASE live # {}
  <2> DEFINE first == CHOOSE i \in live : \A j \in live : i <= j
  <2>1. live \subseteq 1..Len(es) /\ live \in SUBSET Nat
    BY <1>1 DEF Live
  <2>2. first \in live /\ \A j \in live : first <= j
    BY <1>3, <2>1, Least, Zenon
  <2>3. Purged(es, stamp) = SubSeq(es, first, Len(es))
    BY <1>3 DEF Purged
  <2> HIDE DEF first
  <2>4. first \in 1..Len(es) /\ es[first].resetAt > stamp
    BY <2>2 DEF Live
  <2>5. \A i \in 1..(first - 1) : es[i].resetAt <= stamp
    BY <1>1, <2>2, <2>4 DEF Live
  <2>6. first - 1 \in 0..Len(es) /\ (first - 1) + 1 = first
    BY <1>1, <2>4
  <2> QED BY <1>1, <2>3, <2>4, <2>5, <2>6
<1> QED BY <1>2, <1>3

\* What is left of a table in order is in order and holds no ended window.
LEMMA PurgeKeepsOrder ==
  ASSUME NEW es \in Seq(Entry), NEW stamp \in Nat, NEW high \in Nat,
         Sorted(es), \A i \in 1..Len(es) : es[i].resetAt <= high, Len(es) <= Capacity
  PROVE  LET p == Purged(es, stamp)
         IN /\ p \in Seq(Entry) /\ Sorted(p)
            /\ Between(p, stamp, high) /\ Len(p) <= Capacity
<1> PICK k \in 0..Len(es) :
           /\ Purged(es, stamp) = SubSeq(es, k + 1, Len(es))
           /\ \A i \in 1..k : es[i].resetAt <= stamp
           /\ k < Len(es) => es[k + 1].resetAt > stamp
  BY PurgeIsSuffix
<1> DEFINE p == SubSeq(es, k + 1, Len(es))
<1>1. Len(es) \in Nat /\ \A i \in 1..Len(es) : es[i] \in Entry /\ es[i].resetAt \in Nat
  BY Fields
<1>2. p \in Seq(Entry) /\ Len(p) = Len(es) - k /\ \A i \in 1..Len(p) : p[i] = es[i + k]
  BY <1>1
<1> HIDE DEF p
<1>3. \A i \in 1..Len(p) : i + k \in 1..Len(es)
  BY <1>1, <1>2
<1>4. Sorted(p)
  <2> SUFFICES ASSUME NEW i \in 1..Len(p), NEW j \in 1..Len(p), i < j
               PROVE  /\ p[i].resetAt <= p[j].resetAt
                      /\ p[i].address # p[j].address
    BY DEF Sorted
  <2>1. i + k \in 1..Len(es) /\ j + k \in 1..Len(es) /\ i + k < j + k
    BY <1>1, <1>2, <1>3
  <2>2. /\ es[i + k].resetAt <= es[j + k].resetAt
        /\ es[i + k].address # es[j + k].address
    BY <2>1 DEF Sorted
  <2>3. p[i] = es[i + k] /\ p[j] = es[j + k]
    BY <1>2
  <2> QED BY <2>2, <2>3
<1>5. \A i \in 1..Len(p) : es[i + k].resetAt > stamp
  <2> TAKE i \in 1..Len(p)
  <2>1. k + 1 \in 1..Len(es) /\ i + k \in 1..Len(es) /\ k + 1 <= i + k /\ k < Len(es)
    BY <1>1, <1>2, <1>3
  <2>2. es[k + 1].resetAt > stamp /\ es[k + 1].resetAt \in Nat /\ es[i + k].resetAt \in Nat
    BY <1>1, <2>1
  <2>3. es[k + 1].resetAt <= es[i + k].resetAt
    BY <2>1, <2>2 DEF Sorted
  <2> QED BY <2>2, <2>3
<1>6. Between(p, stamp, high)
  BY <1>2, <1>3, <1>5 DEF Between
<1> QED BY <1>1, <1>2, <1>4, <1>6 DEF p

\* No window that has not ended is reclaimed.
LEMMA PurgeKeepsLive ==
  ASSUME NEW es \in Seq(Entry), NEW stamp \in Nat, NEW i \in 1..Len(es),
         es[i].resetAt > stamp
  PROVE  \E j \in 1..Len(Purged(es, stamp)) : Purged(es, stamp)[j] = es[i]
<1> PICK k \in 0..Len(es) :
           /\ Purged(es, stamp) = SubSeq(es, k + 1, Len(es))
           /\ \A n \in 1..k : es[n].resetAt <= stamp
           /\ k < Len(es) => es[k + 1].resetAt > stamp
  BY PurgeIsSuffix
<1> DEFINE p == SubSeq(es, k + 1, Len(es))
<1>1. Len(es) \in Nat /\ \A n \in 1..Len(es) : es[n] \in Entry /\ es[n].resetAt \in Nat
  BY Fields
<1>2. Len(p) = Len(es) - k /\ \A n \in 1..Len(p) : p[n] = es[n + k]
  BY <1>1
<1>3. i > k
  BY <1>1
<1>4. i - k \in 1..Len(p) /\ p[i - k] = es[i]
  BY <1>1, <1>2, <1>3
<1> QED BY <1>4

\* A window opened now ends last, and its address is new to the table.
LEMMA AppendKeepsTable ==
  ASSUME NEW stamp \in Times, NEW es, Table(es, stamp), NEW a \in Addresses,
         ~Holds(es, a), Len(es) < Capacity
  PROVE  Table(Append(es, NewEntry(a, stamp)), stamp)
<1> DEFINE e == NewEntry(a, stamp)
           fs == Append(es, e)
<1>1. /\ es \in Seq(Entry) /\ Len(es) \in Nat
      /\ \A i \in 1..Len(es) : /\ es[i] \in Entry /\ es[i].resetAt \in Nat
                               /\ es[i].resetAt > stamp
                               /\ es[i].resetAt <= stamp + Window
                               /\ es[i].address # a
  BY Fields DEF Table, Between, Holds
<1>2. e \in Entry /\ e.address = a /\ e.resetAt = stamp + Window
  BY DEF NewEntry, Entry, Times
<1>3. stamp \in Nat /\ stamp + Window > stamp
  BY DEF Times
<1> HIDE DEF e
<1>4. /\ fs \in Seq(Entry) /\ Len(fs) = Len(es) + 1
      /\ \A i \in 1..Len(es) : fs[i] = es[i]
      /\ fs[Len(es) + 1] = e
  BY <1>1, <1>2
<1> HIDE DEF fs
<1>5. Sorted(fs)
  <2> SUFFICES ASSUME NEW i \in 1..Len(fs), NEW j \in 1..Len(fs), i < j
               PROVE  /\ fs[i].resetAt <= fs[j].resetAt
                      /\ fs[i].address # fs[j].address
    BY DEF Sorted
  <2>1. i \in 1..Len(es) /\ (j \in 1..Len(es) \/ j = Len(es) + 1)
    BY <1>1, <1>4
  <2>2. CASE j \in 1..Len(es)
    <3>1. es[i].resetAt <= es[j].resetAt /\ es[i].address # es[j].address
      BY <2>1, <2>2 DEF Table, Sorted
    <3> QED BY <3>1, <2>1, <2>2, <1>4
  <2>3. CASE j = Len(es) + 1
    BY <2>1, <2>3, <1>1, <1>2, <1>4
  <2> QED BY <2>1, <2>2, <2>3
<1>6. Between(fs, stamp, stamp + Window)
  <2> SUFFICES ASSUME NEW i \in 1..Len(fs)
               PROVE  fs[i].resetAt > stamp /\ fs[i].resetAt <= stamp + Window
    BY DEF Between
  <2>1. i \in 1..Len(es) \/ i = Len(es) + 1
    BY <1>1, <1>4
  <2> QED BY <2>1, <1>1, <1>2, <1>3, <1>4
<1>7. Len(fs) <= Capacity
  BY <1>1, <1>4
<1> QED BY <1>4, <1>5, <1>6, <1>7 DEF Table, fs, e

\* Counting an attempt moves nothing.
LEMMA CountKeepsTable ==
  ASSUME NEW stamp \in Times, NEW es, Table(es, stamp), NEW i \in 1..Len(es),
         es[i].count < Limit
  PROVE  Table([es EXCEPT ![i] = [es[i] EXCEPT !.count = @ + 1]], stamp)
<1> DEFINE e == [es[i] EXCEPT !.count = @ + 1]
           fs == [es EXCEPT ![i] = e]
<1>1. /\ es \in Seq(Entry) /\ Len(es) \in Nat
      /\ \A n \in 1..Len(es) : es[n] \in Entry
  BY Fields DEF Table
<1>2. e \in Entry /\ e.address = es[i].address /\ e.resetAt = es[i].resetAt
  <2>1. es[i] \in Entry
    BY <1>1
  <2> QED BY <2>1 DEF Entry
<1> HIDE DEF e
<1>3. /\ fs \in Seq(Entry) /\ Len(fs) = Len(es)
      /\ \A n \in 1..Len(es) : fs[n].address = es[n].address /\ fs[n].resetAt = es[n].resetAt
  BY <1>1, <1>2
<1> HIDE DEF fs
<1>4. Sorted(fs)
  BY <1>3 DEF Table, Sorted
<1>5. Between(fs, stamp, stamp + Window)
  BY <1>3 DEF Table, Between
<1> QED BY <1>3, <1>4, <1>5 DEF Table, fs, e

-----------------------------------------------------------------------------
\* What a call works on: the table once the ended windows are reclaimed.
LEMMA CallTable ==
  ASSUME IInv, ClockValid
  PROVE  /\ Stamp(now) \in Times /\ Stamp(now) >= lastNow
         /\ Table(Purged(entries, Stamp(now)), Stamp(now))
<1> DEFINE stamp == Stamp(now)
<1>1. stamp \in Times /\ stamp >= lastNow
  BY StampIsMonotone DEF IInv, TypeInv, ClockValid
<1> HIDE DEF stamp
<1>2. stamp \in Nat /\ stamp + Window \in Nat /\ lastNow \in Nat
  BY <1>1 DEF IInv, TypeInv, Times
<1>3. /\ entries \in Seq(Entry) /\ Sorted(entries) /\ Len(entries) <= Capacity
      /\ \A i \in 1..Len(entries) : entries[i].resetAt <= stamp + Window
  <2>1. /\ entries \in Seq(Entry) /\ Sorted(entries) /\ Len(entries) <= Capacity
        /\ \A i \in 1..Len(entries) : entries[i].resetAt <= lastNow + Window
    BY DEF IInv, Table, Between
  <2>2. \A i \in 1..Len(entries) : entries[i].resetAt \in Nat
    BY <2>1, Fields
  <2> QED BY <1>1, <1>2, <2>1, <2>2
<1>4. Table(Purged(entries, stamp), stamp)
  BY <1>2, <1>3, PurgeKeepsOrder DEF Table
<1> QED BY <1>1, <1>4 DEF stamp

LEMMA KeyIsAddress ==
  ASSUME NEW peer \in Spellings, NEW forwarded \in Spellings
  PROVE  ClientAddress(peer, forwarded) \in Addresses
BY DEF ClientAddress

LEMMA AnswerIsReply ==
  ASSUME NEW e \in Entry
  PROVE  /\ Allowed(e) \in Reply
         /\ \A r \in {"capacity_exceeded", "limit_exceeded"} : Refused(r, e) \in Reply
<1>1. e.count \in 1..Limit /\ e.resetAt \in 1..MaxSafe
  BY DEF Entry
<1>2. Limit - e.count \in 0..Limit /\ 0 \in 0..Limit
  BY <1>1
<1> QED BY <1>1, <1>2 DEF Allowed, Refused, Reply

\* consume for an address without a window.
LEMMA NewStep ==
  ASSUME NEW es, NEW stamp \in Times, NEW a \in Addresses, Table(es, stamp),
         ConsumeNew(es, a, stamp)
  PROVE  Table(entries', stamp) /\ reply' \in Reply
<1>1. CASE Len(es) >= Capacity
  <2>1. entries' = es /\ reply' = Refused("capacity_exceeded", es[1])
    BY <1>1 DEF ConsumeNew
  <2>2. es[1] \in Entry
    BY <1>1, Fields DEF Table
  <2> QED BY <2>1, <2>2, AnswerIsReply
<1>2. CASE ~(Len(es) >= Capacity)
  <2>1. entries' = Append(es, NewEntry(a, stamp)) /\ reply' = Allowed(NewEntry(a, stamp))
    BY <1>2 DEF ConsumeNew
  <2>2. Len(es) < Capacity /\ ~Holds(es, a)
    BY <1>2, Fields DEF ConsumeNew, Table
  <2>3. NewEntry(a, stamp) \in Entry
    BY DEF NewEntry, Entry, Times
  <2> QED BY <2>1, <2>2, <2>3, AppendKeepsTable, AnswerIsReply
<1> QED BY <1>1, <1>2

LEMMA IndexIsThere ==
  ASSUME NEW es, NEW a, Holds(es, a)
  PROVE  IndexOf(es, a) \in 1..Len(es) /\ es[IndexOf(es, a)].address = a
BY DEF Holds, IndexOf

\* consume for an address with a window.
LEMMA KnownStep ==
  ASSUME NEW es, NEW stamp \in Times, NEW a \in Addresses, Table(es, stamp),
         ConsumeKnown(es, a)
  PROVE  Table(entries', stamp) /\ reply' \in Reply
<1> DEFINE i == IndexOf(es, a)
           e == [es[i] EXCEPT !.count = @ + 1]
<1>1. i \in 1..Len(es) /\ es[i] \in Entry
  BY IndexIsThere, Fields DEF ConsumeKnown, Table
<1>2. CASE es[i].count >= Limit
  <2>1. entries' = es /\ reply' = Refused("limit_exceeded", es[i])
    BY <1>2 DEF ConsumeKnown
  <2> QED BY <1>1, <2>1, AnswerIsReply
<1>3. CASE ~(es[i].count >= Limit)
  <2>1. entries' = [es EXCEPT ![i] = e] /\ reply' = Allowed(e)
    BY <1>3 DEF ConsumeKnown
  <2>2. es[i].count < Limit
    BY <1>1, <1>3 DEF Entry
  <2>3. e \in Entry
    BY <1>1, <2>2 DEF Entry
  <2>4. Table(entries', stamp)
    BY <1>1, <2>1, <2>2, CountKeepsTable
  <2> QED BY <2>1, <2>3, <2>4, AnswerIsReply
<1> QED BY <1>2, <1>3

\* Every step keeps the invariant.
LEMMA Preserved ==
  ASSUME IInv, [LimiterNext]_limiterVars
  PROVE  IInv'
<1>1. ASSUME NEW n \in 0..MaxSafe, SetClock(n)
      PROVE  IInv'
  BY <1>1 DEF SetClock, IInv, TypeInv, Table, Between, Sorted
<1>2. ASSUME NEW peer \in Spellings, NEW forwarded \in Spellings, Consume(peer, forwarded)
      PROVE  IInv'
  <2> DEFINE stamp == Stamp(now)
             a == ClientAddress(peer, forwarded)
             es == Purged(entries, stamp)
  <2>1. /\ ClockValid /\ lastNow' = stamp /\ now' = now
        /\ ConsumeNew(es, a, stamp) \/ ConsumeKnown(es, a)
    BY <1>2 DEF Consume
  <2>2. stamp \in Times /\ Table(es, stamp) /\ a \in Addresses
    BY <2>1, CallTable, KeyIsAddress
  <2> HIDE DEF stamp, a, es
  <2>3. Table(entries', stamp) /\ reply' \in Reply
    BY <2>1, <2>2, NewStep, KnownStep
  <2> QED BY <2>1, <2>2, <2>3 DEF IInv, TypeInv, Table, Between, Sorted
<1>3. CASE Snapshot
  <2>1. /\ Stamp(now) \in Times
        /\ Table(Purged(entries, Stamp(now)), Stamp(now))
    BY <1>3, CallTable DEF Snapshot
  <2>2. /\ lastNow' = Stamp(now) /\ entries' = Purged(entries, Stamp(now))
        /\ now' = now /\ reply' = reply
    BY <1>3 DEF Snapshot
  <2> QED BY <2>1, <2>2 DEF IInv, TypeInv, Table, Between, Sorted
<1>4. CASE UNCHANGED limiterVars
  BY <1>4 DEF limiterVars, IInv, TypeInv, Table, Between, Sorted
<1> QED BY <1>1, <1>2, <1>3, <1>4 DEF LimiterNext

\* The invariant of the limiter holds always.
THEOREM Invariance == LimiterSpec => []IInv
<1>1. LimiterInit => IInv
  <2> SUFFICES ASSUME LimiterInit PROVE IInv
    OBVIOUS
  <2>1. <<>> \in Seq(Entry) /\ Len(<<>>) = 0
    OBVIOUS
  <2>2. Table(<<>>, 0)
    BY <2>1 DEF Table, Sorted, Between
  <2>3. 0 \in Times /\ [reason |-> "none"] \in Reply
    BY DEF Times, Reply
  <2> QED BY <2>2, <2>3 DEF LimiterInit, IInv, TypeInv
<1> QED BY <1>1, Preserved, PTL DEF LimiterSpec

\* The table is in expiry order, one entry per address, none ended and none
\* later than a window from now, whatever the system clock does.
THEOREM ExpiryOrder == LimiterSpec => []InExpiryOrder
<1>1. IInv => InExpiryOrder
  BY DEF IInv, Table, Sorted, Between, InExpiryOrder
<1> QED BY <1>1, Invariance, PTL

\* Stamps, entries and answers have their types.
THEOREM TypeCorrect == LimiterSpec => []TypeOK
<1>1. IInv => TypeOK
  BY DEF IInv, TypeInv, Table, TypeOK
<1> QED BY <1>1, Invariance, PTL

-----------------------------------------------------------------------------
\* Entry f still stands for entry e.
Stands(e, f) == f.address = e.address /\ f.resetAt = e.resetAt /\ f.count >= e.count

\* A call neither removes nor moves a window of the table it works on.
LEMMA CallKeeps ==
  ASSUME NEW es, NEW stamp \in Times, NEW a \in Addresses, Table(es, stamp),
         ConsumeNew(es, a, stamp) \/ ConsumeKnown(es, a)
  PROVE  \A i \in 1..Len(es) : \E j \in 1..Len(entries') : Stands(es[i], entries'[j])
<1>1. /\ es \in Seq(Entry) /\ Len(es) \in Nat
      /\ \A i \in 1..Len(es) : es[i] \in Entry /\ es[i].count \in Nat
  BY Fields DEF Table
<1>2. CASE entries' = es
  BY <1>1, <1>2 DEF Stands
<1>3. CASE \E e \in Entry : entries' = Append(es, e)
  <2>1. PICK e \in Entry : entries' = Append(es, e)
    BY <1>3
  <2>2. /\ Len(entries') = Len(es) + 1
        /\ \A i \in 1..Len(es) : entries'[i] = es[i]
    BY <1>1, <2>1
  <2>3. \A i \in 1..Len(es) : i \in 1..Len(entries') /\ Stands(es[i], entries'[i])
    BY <1>1, <2>2 DEF Stands
  <2> QED BY <2>3
<1>4. CASE \E i \in 1..Len(es) :
             entries' = [es EXCEPT ![i] = [es[i] EXCEPT !.count = @ + 1]]
  <2>1. PICK i \in 1..Len(es) : entries' = [es EXCEPT ![i] = [es[i] EXCEPT !.count = @ + 1]]
    BY <1>4
  <2> DEFINE e == [es[i] EXCEPT !.count = @ + 1]
  <2>2. Stands(es[i], e)
    BY <1>1 DEF Stands, Entry
  <2> HIDE DEF e
  <2>3. /\ Len(entries') = Len(es)
        /\ \A j \in 1..Len(es) : entries'[j] = IF j = i THEN e ELSE es[j]
    BY <1>1, <2>1 DEF e
  <2>4. \A j \in 1..Len(es) : j \in 1..Len(entries') /\ Stands(es[j], entries'[j])
    BY <1>1, <2>2, <2>3 DEF Stands
  <2> QED BY <2>4
<1>5. ASSUME ConsumeNew(es, a, stamp)
      PROVE  entries' = es \/ \E e \in Entry : entries' = Append(es, e)
  <2>1. NewEntry(a, stamp) \in Entry
    BY DEF NewEntry, Entry, Times
  <2> QED BY <1>5, <2>1 DEF ConsumeNew
<1>6. ASSUME ConsumeKnown(es, a)
      PROVE  \/ entries' = es
             \/ \E i \in 1..Len(es) :
                  entries' = [es EXCEPT ![i] = [es[i] EXCEPT !.count = @ + 1]]
  <2>1. IndexOf(es, a) \in 1..Len(es)
    BY <1>6, IndexIsThere DEF ConsumeKnown
  <2> QED BY <1>6, <2>1 DEF ConsumeKnown
<1> QED BY <1>2, <1>3, <1>4, <1>5, <1>6

\* An active limit stands until the limiter's time reaches its announced end.
THEOREM LimitsStand == LimiterSpec => ActiveLimitsStand
<1> DEFINE Stand == \A i \in 1..Len(entries) : entries[i].resetAt > lastNow' =>
                      \E j \in 1..Len(entries') : Stands(entries[i], entries'[j])
<1>1. ASSUME IInv, LimiterNext
      PROVE  Stand
  <2>1. \A i \in 1..Len(entries) : entries[i].count \in Nat
    BY <1>1, Fields DEF IInv, Table
  <2>2. CASE entries' = entries
    BY <2>1, <2>2 DEF Stands
  <2>3. ASSUME ClockValid, lastNow' = Stamp(now)
        PROVE  \A i \in 1..Len(entries) : entries[i].resetAt > lastNow' =>
                 \E j \in 1..Len(Purged(entries, Stamp(now))) :
                   Purged(entries, Stamp(now))[j] = entries[i]
    <3>1. Stamp(now) \in Nat /\ entries \in Seq(Entry)
      BY <1>1, <2>3, CallTable DEF IInv, Table, Times
    <3> QED BY <3>1, <2>3, PurgeKeepsLive
  <2>4. ASSUME NEW peer \in Spellings, NEW forwarded \in Spellings, Consume(peer, forwarded)
        PROVE  Stand
    <3> DEFINE stamp == Stamp(now)
               es == Purged(entries, stamp)
    <3>1. /\ ClockValid /\ lastNow' = stamp
          /\ \/ ConsumeNew(es, ClientAddress(peer, forwarded), stamp)
             \/ ConsumeKnown(es, ClientAddress(peer, forwarded))
      BY <2>4 DEF Consume
    <3>2. stamp \in Times /\ Table(es, stamp)
      BY <1>1, <3>1, CallTable
    <3>3. \A i \in 1..Len(es) : \E j \in 1..Len(entries') : Stands(es[i], entries'[j])
      BY <3>1, <3>2, CallKeeps, KeyIsAddress
    <3>4. \A i \in 1..Len(entries) : entries[i].resetAt > lastNow' =>
            \E j \in 1..Len(es) : es[j] = entries[i]
      BY <2>3, <3>1
    <3> HIDE DEF stamp, es
    <3> QED BY <3>3, <3>4
  <2>5. CASE Snapshot
    <3>1. /\ ClockValid /\ lastNow' = Stamp(now)
          /\ entries' = Purged(entries, Stamp(now))
      BY <2>5 DEF Snapshot
    <3>2. \A i \in 1..Len(entries) : entries[i].resetAt > lastNow' =>
            \E j \in 1..Len(entries') : entries'[j] = entries[i]
      BY <2>3, <3>1
    <3> QED BY <2>1, <3>2 DEF Stands
  <2> QED BY <1>1, <2>2, <2>4, <2>5 DEF LimiterNext, SetClock
<1>2. IInv /\ [LimiterNext]_limiterVars =>
        [\A i \in 1..Len(entries) : entries[i].resetAt > lastNow' =>
           \E j \in 1..Len(entries') : /\ entries'[j].address = entries[i].address
                                       /\ entries'[j].resetAt = entries[i].resetAt
                                       /\ entries'[j].count >= entries[i].count]_limiterVars
  BY <1>1 DEF Stands
<1> QED BY <1>2, Invariance, PTL DEF LimiterSpec, ActiveLimitsStand

-----------------------------------------------------------------------------
(***************************************************************************)
(* The table implements FixedWindow: the windows are its entries.           *)
(***************************************************************************)
Contents(es) == {es[i] : i \in 1..Len(es)}

\* Entries have distinct addresses, so there are as many windows as entries.
LEMMA ContentsCount ==
  ASSUME NEW es \in Seq(Entry), Sorted(es)
  PROVE  Cardinality(Contents(es)) = Len(es)
<1> DEFINE f == [i \in 1..Len(es) |-> es[i]]
<1>1. Len(es) \in Nat
  BY Fields
<1>2. \A i, j \in 1..Len(es) : es[i] = es[j] => i = j
  BY <1>1 DEF Sorted
<1>3. f \in Bijection(1..Len(es), Contents(es))
  <2>1. f \in [1..Len(es) -> Contents(es)] /\ \A i \in 1..Len(es) : f[i] = es[i]
    BY DEF Contents
  <2>2. \A w \in Contents(es) : \E i \in 1..Len(es) : f[i] = w
    BY <2>1 DEF Contents
  <2> HIDE DEF f
  <2>3. \A i, j \in 1..Len(es) : f[i] = f[j] => i = j
    BY <1>2, <2>1
  <2> QED BY <2>1, <2>2, <2>3 DEF Bijection, Injection, Surjection, IsInjective
<1>4. ExistsBijection(1..Len(es), Contents(es))
  BY <1>3 DEF ExistsBijection
<1> QED BY <1>1, <1>4, FS_CountingElements

\* Reclaiming from the front removes all ended windows and only those.
LEMMA PurgeIsExact ==
  ASSUME NEW es \in Seq(Entry), NEW stamp \in Nat, NEW high \in Nat,
         Sorted(es), \A i \in 1..Len(es) : es[i].resetAt <= high, Len(es) <= Capacity
  PROVE  {w \in Contents(es) : w.resetAt > stamp} = Contents(Purged(es, stamp))
<1> DEFINE p == Purged(es, stamp)
<1>1. Len(es) \in Nat
  BY Fields
<1>2. \A j \in 1..Len(p) : p[j].resetAt > stamp
  BY PurgeKeepsOrder DEF Between
<1>3. \A j \in 1..Len(p) : p[j] \in Contents(es)
  <2> PICK k \in 0..Len(es) : p = SubSeq(es, k + 1, Len(es))
    BY PurgeIsSuffix
  <2> HIDE DEF p
  <2>1. Len(p) = Len(es) - k /\ \A j \in 1..Len(p) : p[j] = es[j + k]
    BY <1>1
  <2>2. \A j \in 1..Len(p) : j + k \in 1..Len(es)
    BY <1>1, <2>1
  <2> QED BY <2>1, <2>2 DEF Contents
<1>4. \A i \in 1..Len(es) : es[i].resetAt > stamp => es[i] \in Contents(p)
  <2> SUFFICES ASSUME NEW i \in 1..Len(es), es[i].resetAt > stamp
               PROVE  es[i] \in Contents(p)
    OBVIOUS
  <2>1. PICK j \in 1..Len(p) : p[j] = es[i]
    BY PurgeKeepsLive
  <2> QED BY <2>1 DEF Contents
<1> HIDE DEF p
<1> QED BY <1>2, <1>3, <1>4 DEF Contents, p

LEMMA ContentsAppend ==
  ASSUME NEW es \in Seq(Entry), NEW e \in Entry
  PROVE  Contents(Append(es, e)) = Contents(es) \cup {e}
<1> DEFINE fs == Append(es, e)
<1>1. Len(es) \in Nat
  BY Fields
<1>2. /\ Len(fs) = Len(es) + 1 /\ fs[Len(es) + 1] = e
      /\ \A i \in 1..Len(es) : fs[i] = es[i]
  BY <1>1
<1> HIDE DEF fs
<1>3. 1..Len(fs) = (1..Len(es)) \cup {Len(es) + 1}
  BY <1>1, <1>2
<1>4. Contents(fs) = Contents(es) \cup {e}
  BY <1>2, <1>3 DEF Contents
<1> QED BY <1>4 DEF fs

LEMMA ContentsReplace ==
  ASSUME NEW es \in Seq(Entry), Sorted(es), NEW i \in 1..Len(es), NEW e \in Entry
  PROVE  Contents([es EXCEPT ![i] = e]) = (Contents(es) \ {es[i]}) \cup {e}
<1> DEFINE fs == [es EXCEPT ![i] = e]
<1>1. Len(es) \in Nat
  BY Fields
<1>2. Len(fs) = Len(es) /\ \A j \in 1..Len(es) : fs[j] = IF j = i THEN e ELSE es[j]
  BY <1>1
<1>3. \A j \in 1..Len(es) : es[j] = es[i] => j = i
  BY <1>1 DEF Sorted
<1> HIDE DEF fs
<1>4. Contents(fs) = (Contents(es) \ {es[i]}) \cup {e}
  BY <1>2, <1>3 DEF Contents
<1> QED BY <1>4 DEF fs

LEMMA SameCardinality == \A S : Fixed!Cardinality(S) = Cardinality(S)
BY DEF Fixed!Cardinality, Cardinality

\* A call for an address without a window is First or NoRoom.
LEMMA NewIsFixed ==
  ASSUME NEW es, NEW stamp \in Times, NEW a \in Addresses, Table(es, stamp),
         ConsumeNew(es, a, stamp), Fixed!Open(stamp) = Contents(es)
  PROVE  Fixed!First(a, stamp) \/ Fixed!NoRoom(a, stamp)
<1>1. es \in Seq(Entry) /\ Len(es) \in Nat /\ Sorted(es)
  BY Fields DEF Table
<1>2. Fixed!OpenOf(a, stamp) = {}
  BY DEF Fixed!OpenOf, Contents, ConsumeNew, Holds
<1>3. Cardinality(Fixed!Open(stamp)) = Len(es)
  BY <1>1, ContentsCount
<1>4. CASE Len(es) >= Capacity
  <2>1. entries' = es /\ reply' = Refused("capacity_exceeded", es[1])
    BY <1>4 DEF ConsumeNew
  <2>2. 1 \in 1..Len(es)
    BY <1>1, <1>4
  <2>3. es[1] \in Contents(es) /\ \A v \in Contents(es) : es[1].resetAt <= v.resetAt
    <3>1. \A i \in 1..Len(es) : es[i].resetAt \in Nat
      BY <1>1, Fields
    <3>2. \A i \in 1..Len(es) : es[1].resetAt <= es[i].resetAt
      <4> TAKE i \in 1..Len(es)
      <4>1. CASE i = 1
        BY <3>1, <4>1
      <4>2. CASE 1 < i
        BY <1>1, <2>2, <4>2 DEF Sorted
      <4> QED BY <1>1, <4>1, <4>2
    <3> QED BY <2>2, <3>2 DEF Contents
  <2>4. Fixed!Refuse("capacity_exceeded", es[1])
    BY <2>1 DEF Fixed!Refuse, Refused
  <2>5. {entries'[i] : i \in 1..Len(entries')} = Contents(es)
    BY <2>1 DEF Contents
  <2>6. Fixed!Cardinality(Fixed!Open(stamp)) >= Capacity
    BY <1>3, <1>4, SameCardinality
  <2>7. \E v \in Fixed!Open(stamp) :
          /\ \A u \in Fixed!Open(stamp) : v.resetAt <= u.resetAt
          /\ Fixed!Refuse("capacity_exceeded", v)
    BY <2>3, <2>4
  <2>8. {entries'[i] : i \in 1..Len(entries')} = Fixed!Open(stamp)
    BY <2>5
  <2> QED BY ONLY <1>2, <2>6, <2>7, <2>8 DEF Fixed!NoRoom
<1>5. CASE ~(Len(es) >= Capacity)
  <2> DEFINE e == NewEntry(a, stamp)
  <2>1. entries' = Append(es, e) /\ reply' = Allowed(e)
    BY <1>5 DEF ConsumeNew
  <2>2. e \in Entry /\ e = [address |-> a, count |-> 1, resetAt |-> stamp + Window]
    BY DEF NewEntry, Entry, Times
  <2> HIDE DEF e
  <2>3. {entries'[i] : i \in 1..Len(entries')} = Contents(es) \cup {e}
    BY <1>1, <2>1, <2>2, ContentsAppend DEF Contents
  <2>4. Fixed!Allow(e)
    BY <2>1 DEF Fixed!Allow, Allowed
  <2>5. Fixed!Cardinality(Fixed!Open(stamp)) < Capacity
    BY <1>1, <1>3, <1>5, SameCardinality, BoundAssumption
  <2>6. {entries'[i] : i \in 1..Len(entries')} = Fixed!Open(stamp) \cup {e}
    BY <2>3
  <2> QED BY ONLY <1>2, <2>2, <2>4, <2>5, <2>6 DEF Fixed!First
<1> QED BY <1>4, <1>5

\* A call for an address with a window is Again.
LEMMA KnownIsFixed ==
  ASSUME NEW es, NEW stamp \in Times, NEW a \in Addresses, Table(es, stamp),
         ConsumeKnown(es, a), Fixed!Open(stamp) = Contents(es)
  PROVE  Fixed!Again(a, stamp)
<1> DEFINE i == IndexOf(es, a)
           w == es[i]
           e == [w EXCEPT !.count = @ + 1]
<1>1. es \in Seq(Entry) /\ Sorted(es)
  BY DEF Table
<1>2. i \in 1..Len(es) /\ w \in Entry /\ w.address = a
  BY <1>1, IndexIsThere, Fields DEF ConsumeKnown
<1>3. w \in Fixed!OpenOf(a, stamp)
  BY <1>2 DEF Fixed!OpenOf, Contents
<1>4. CASE w.count >= Limit
  <2>1. entries' = es /\ reply' = Refused("limit_exceeded", w)
    BY <1>4 DEF ConsumeKnown
  <2>2. ~(w.count < Limit)
    BY <1>2, <1>4 DEF Entry
  <2>3. {entries'[n] : n \in 1..Len(entries')} = Contents(es)
    BY <2>1 DEF Contents
  <2>4. Fixed!Refuse("limit_exceeded", w)
    BY <2>1 DEF Fixed!Refuse, Refused
  <2> HIDE DEF w
  <2> QED BY <1>3, <2>2, <2>3, <2>4 DEF Fixed!Again
<1>5. CASE ~(w.count >= Limit)
  <2>1. entries' = [es EXCEPT ![i] = e] /\ reply' = Allowed(e)
    BY <1>5 DEF ConsumeKnown
  <2>2. w.count < Limit
    BY <1>2, <1>5 DEF Entry
  <2>3. e \in Entry
    BY <1>2, <2>2 DEF Entry
  <2>4. {entries'[n] : n \in 1..Len(entries')} = (Contents(es) \ {w}) \cup {e}
    <3> HIDE DEF i, e
    <3>1. Contents([es EXCEPT ![i] = e]) = (Contents(es) \ {es[i]}) \cup {e}
      BY <1>1, <1>2, <2>3, ContentsReplace
    <3> QED BY <2>1, <3>1 DEF Contents
  <2>5. Fixed!Allow(e)
    BY <2>1 DEF Fixed!Allow, Allowed
  <2> HIDE DEF w
  <2> QED BY <1>3, <2>2, <2>4, <2>5 DEF Fixed!Again
<1> QED BY <1>4, <1>5

\* A call is an Attempt at the limiter's time.
LEMMA CallIsFixed ==
  ASSUME NEW es, NEW stamp \in Times, NEW a \in Addresses, Table(es, stamp),
         ConsumeNew(es, a, stamp) \/ ConsumeKnown(es, a),
         stamp >= lastNow, lastNow' = stamp,
         {w \in Contents(entries) : w.resetAt > stamp} = Contents(es)
  PROVE  Fixed!Attempt
<1>1. Fixed!Pass(stamp) /\ Fixed!Open(stamp) = Contents(es)
  BY DEF Fixed!Pass, Fixed!Open, Contents
<1>2. Fixed!First(a, stamp) \/ Fixed!NoRoom(a, stamp) \/ Fixed!Again(a, stamp)
  BY <1>1, NewIsFixed, KnownIsFixed
<1> QED BY <1>1, <1>2 DEF Fixed!Attempt

LEMMA LookIsFixed ==
  ASSUME NEW es, NEW stamp \in Times, stamp >= lastNow, lastNow' = stamp,
         {w \in Contents(entries) : w.resetAt > stamp} = Contents(es),
         entries' = es, reply' = reply
  PROVE  Fixed!Inspect
<1>1. Fixed!Pass(stamp) /\ Fixed!Open(stamp) = Contents(es)
  BY DEF Fixed!Pass, Fixed!Open, Contents
<1>2. {entries'[i] : i \in 1..Len(entries')} = Fixed!Open(stamp)
  BY <1>1 DEF Contents
<1> QED BY <1>1, <1>2 DEF Fixed!Inspect

\* Every answer is that of a table whose windows vanish the moment they end.
THEOREM Refinement == LimiterSpec => ImplementsFixedWindow
<1>1. LimiterInit => Fixed!FWInit
  <2> SUFFICES ASSUME LimiterInit PROVE Fixed!FWInit
    OBVIOUS
  <2>1. Len(<<>>) = 0 /\ 1..0 = {}
    OBVIOUS
  <2> QED BY <2>1 DEF LimiterInit, Fixed!FWInit
<1>2. ASSUME IInv, [LimiterNext]_limiterVars
      PROVE  [Fixed!Attempt \/ Fixed!Inspect]_(Fixed!fwVars)
  <2>1. ASSUME ClockValid
        PROVE  LET stamp == Stamp(now)
                   es == Purged(entries, stamp)
               IN /\ stamp \in Times /\ stamp >= lastNow /\ Table(es, stamp)
                  /\ {w \in Contents(entries) : w.resetAt > stamp} = Contents(es)
    <3> DEFINE stamp == Stamp(now)
    <3>1. stamp \in Times /\ stamp >= lastNow /\ Table(Purged(entries, stamp), stamp)
      BY <1>2, <2>1, CallTable
    <3> HIDE DEF stamp
    <3>2. stamp \in Nat /\ stamp + Window \in Nat /\ lastNow \in Nat
      BY <1>2, <3>1 DEF IInv, TypeInv, Times
    <3>3. /\ entries \in Seq(Entry) /\ Sorted(entries) /\ Len(entries) <= Capacity
          /\ \A i \in 1..Len(entries) : entries[i].resetAt <= lastNow + Window
      BY <1>2 DEF IInv, Table, Between
    <3>4. \A i \in 1..Len(entries) : entries[i].resetAt <= stamp + Window
      <4>1. \A i \in 1..Len(entries) : entries[i].resetAt \in Nat
        BY <3>3, Fields
      <4> QED BY <3>1, <3>2, <3>3, <4>1
    <3>5. {w \in Contents(entries) : w.resetAt > stamp} = Contents(Purged(entries, stamp))
      BY <3>2, <3>3, <3>4, PurgeIsExact
    <3> QED BY <3>1, <3>5 DEF stamp
  <2>2. ASSUME NEW peer \in Spellings, NEW forwarded \in Spellings, Consume(peer, forwarded)
        PROVE  Fixed!Attempt
    <3> DEFINE stamp == Stamp(now)
               a == ClientAddress(peer, forwarded)
               es == Purged(entries, stamp)
    <3>1. /\ ClockValid /\ lastNow' = stamp
          /\ ConsumeNew(es, a, stamp) \/ ConsumeKnown(es, a)
      BY <2>2 DEF Consume
    <3>2. /\ a \in Addresses /\ stamp \in Times /\ stamp >= lastNow /\ Table(es, stamp)
          /\ {w \in Contents(entries) : w.resetAt > stamp} = Contents(es)
      BY <2>1, <3>1, KeyIsAddress
    <3> QED BY <3>1, <3>2, CallIsFixed
  <2>3. CASE Snapshot
    <3>1. /\ ClockValid /\ lastNow' = Stamp(now) /\ reply' = reply
          /\ entries' = Purged(entries, Stamp(now))
      BY <2>3 DEF Snapshot
    <3> QED BY <2>1, <3>1, LookIsFixed
  <2>4. (\E n \in 0..MaxSafe : SetClock(n)) \/ UNCHANGED limiterVars => UNCHANGED Fixed!fwVars
    BY DEF SetClock, limiterVars, Fixed!fwVars
  <2> QED BY <1>2, <2>2, <2>3, <2>4 DEF LimiterNext
<1> QED BY <1>1, <1>2, Invariance, PTL DEF LimiterSpec, ImplementsFixedWindow, Fixed!FWSpec
=============================================================================
