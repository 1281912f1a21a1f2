----------------------- MODULE BattleConnectionProofs -----------------------
(***************************************************************************)
(* Proofs about the connections of one match, for any connections, bearers *)
(* and deadlines: one open connection speaks for a side, every absence is  *)
(* timed, nobody is told what is not stored, and who was dismissed is out. *)
(*                                                                         *)
(* The handlers work on a state that is passed from operator to operator,  *)
(* so the invariant is stated on such a state w, together with what is     *)
(* still owed: cut is a connection about to be ended or destroyed, and     *)
(* shut are connections known to stay closed meanwhile.                    *)
(***************************************************************************)
EXTENDS BattleConnection, TLAPS

Phases == {"none", "found", "started", "finishing", "finished", "reset"}
Matches == [phase : Phases, winner : Sides \cup {None},
            reason : {"play", "resign", "disconnect"} \cup {None}, age : Nat, retry : Nat]
Peers == [socket : Conns \cup {None}, ready : BOOLEAN, bearer : Bearers \cup {None},
          absent : Nat \cup {None}, reset : BOOLEAN]
Links == [link : {"open", "ended", "destroyed", "closed"}, side : Sides \cup {None}]
Tickets == [bearer : Bearers, age : Nat] \cup {None}
Worlds == [match : Matches, peer : [Sides -> Peers], conn : [Conns -> Links],
           ticket : [Sides -> Tickets], active : [Sides -> BOOLEAN],
           stored : Sides \cup {None}, told : [Sides -> Sides \cup {None}]]

\* A connection that is open and not about to be cut.
Live(conns, cut, c) == c # cut /\ conns[c].link = "open"

\* A live connection is its side's socket.
LiveIsSocket(peers, conns, cut) ==
  \A c \in Conns : Live(conns, cut, c) =>
    conns[c].side \in Sides /\ peers[conns[c].side].socket = c

\* A socket is a connection of its side whose close has not been reported.
SocketIsHeld(p, conns, side) ==
  p.socket # None => conns[p.socket].link # "closed" /\ conns[p.socket].side = side

\* In a started match a player is in the game, timed, or cut off.
Timed(p, conns, cut) ==
  p.ready \/ p.absent # None \/ (p.socket # None /\ ~Live(conns, cut, p.socket))

\* What holds of one side: its peer p, ticket t and place in activeByUser.
SideFine(p, conns, t, isActive, phase, cut, side) ==
  /\ SocketIsHeld(p, conns, side)
  /\ p.ready => p.socket # None
  /\ phase = "started" => Timed(p, conns, cut)
  /\ t # None => isActive
  /\ p.reset /\ p.socket # None => ~Live(conns, cut, p.socket)

\* Nobody is told a result before there is one, and then the stored one.
TellingFine(m, result, heard) ==
  /\ \A side \in Sides : heard[side] # None =>
       m.phase \notin {"found", "started", "finishing"} /\ heard[side] = result
  /\ m.phase = "finished" => m.winner = result
  /\ m.phase \in {"found", "started", "finishing"} => result = None
  /\ m.phase = "found" => m.winner = None
  /\ m.phase = "started" => m.reason = None

Fine(w, cut, shut) ==
  /\ w \in Worlds
  /\ LiveIsSocket(w.peer, w.conn, cut)
  /\ \A side \in Sides :
       SideFine(w.peer[side], w.conn, w.ticket[side], w.active[side], w.match.phase, cut, side)
  /\ TellingFine(w.match, w.stored, w.told)
  /\ shut \subseteq Conns
  /\ \A c \in shut : w.conn[c].link = "closed"

IInv == Fine(World, None, {})

-----------------------------------------------------------------------------
(***************************************************************************)
(* What the assignments of the handlers do to a state.                     *)
(***************************************************************************)
LEMMA PeerSet ==
  ASSUME NEW w \in Worlds, NEW side \in Sides, NEW p \in Peers
  PROVE  LET n == WithPeer(w, side, p) IN
         /\ n \in Worlds
         /\ n.peer[side] = p /\ \A other \in Sides \ {side} : n.peer[other] = w.peer[other]
         /\ n.conn = w.conn /\ n.ticket = w.ticket /\ n.active = w.active
         /\ n.match = w.match /\ n.stored = w.stored /\ n.told = w.told
BY DEF WithPeer, Worlds

LEMMA ConnSet ==
  ASSUME NEW w \in Worlds, NEW c \in Conns, NEW k \in Links
  PROVE  LET n == WithConn(w, c, k) IN
         /\ n \in Worlds
         /\ n.conn[c] = k /\ \A d \in Conns \ {c} : n.conn[d] = w.conn[d]
         /\ n.peer = w.peer /\ n.ticket = w.ticket /\ n.active = w.active
         /\ n.match = w.match /\ n.stored = w.stored /\ n.told = w.told
BY DEF WithConn, Worlds

LEMMA TicketSet ==
  ASSUME NEW w \in Worlds, NEW side \in Sides, NEW t \in Tickets
  PROVE  LET n == WithTicket(w, side, t) IN
         /\ n \in Worlds
         /\ n.ticket[side] = t /\ \A other \in Sides \ {side} : n.ticket[other] = w.ticket[other]
         /\ n.peer = w.peer /\ n.conn = w.conn /\ n.active = w.active
         /\ n.match = w.match /\ n.stored = w.stored /\ n.told = w.told
BY DEF WithTicket, Worlds

LEMMA GoneSet ==
  ASSUME NEW p \in Peers, NEW phase
  PROVE  LET n == Gone(p, phase) IN
         /\ n \in Peers /\ n.socket = None /\ ~n.ready /\ n.reset = p.reset
         /\ n.bearer = p.bearer
         /\ phase = "started" => n.absent # None
<1> DEFINE absent == Since(p.absent, phase)
<1>1. absent \in Nat \cup {None} /\ (phase = "started" => absent # None)
  BY NoneAssumption DEF Since, Peers
<1>2. Gone(p, phase) = [p EXCEPT !.socket = None, !.ready = FALSE, !.absent = absent]
  BY DEF Gone
<1> HIDE DEF absent
<1> QED BY <1>1, <1>2 DEF Peers

-----------------------------------------------------------------------------
(***************************************************************************)
(* Ending and destroying a connection.                                     *)
(***************************************************************************)
LEMMA CutKeeps ==
  ASSUME NEW c, NEW w \in Worlds
  PROVE  \A n \in {Ended(w, c), Destroyed(w, c)} :
           /\ n.peer = w.peer /\ n.ticket = w.ticket /\ n.active = w.active
           /\ n.match = w.match /\ n.stored = w.stored /\ n.told = w.told
BY DEF Ended, Destroyed, WithConn, Worlds

LEMMA CutIsFine ==
  ASSUME NEW c \in Conns \cup {None}, NEW shut, NEW w, Fine(w, c, shut)
  PROVE  Fine(Ended(w, c), None, shut) /\ Fine(Destroyed(w, c), None, shut)
<1> DEFINE CutFrom(n) ==
  /\ n \in Worlds
  /\ n.peer = w.peer /\ n.ticket = w.ticket /\ n.active = w.active
  /\ n.match = w.match /\ n.stored = w.stored /\ n.told = w.told
  /\ \A d \in Conns : /\ n.conn[d].side = w.conn[d].side
                      /\ n.conn[d].link = "closed" <=> w.conn[d].link = "closed"
                      /\ n.conn[d].link = "open" => Live(w.conn, c, d)
<1>1. ASSUME NEW n, CutFrom(n) PROVE Fine(n, None, shut)
  <2> USE <1>1
  <2>1. \A d \in Conns : Live(n.conn, None, d) => Live(w.conn, c, d)
    BY DEF Live
  <2>2. LiveIsSocket(n.peer, n.conn, None)
    BY <2>1 DEF Fine, LiveIsSocket
  <2>3. ASSUME NEW side \in Sides
        PROVE  SideFine(n.peer[side], n.conn, n.ticket[side], n.active[side], n.match.phase,
                        None, side)
    <3> DEFINE p == w.peer[side]
    <3>1. SideFine(p, w.conn, w.ticket[side], w.active[side], w.match.phase, c, side)
      BY DEF Fine
    <3>2. p.socket \in Conns \cup {None}
      BY DEF Fine, Worlds, Peers
    <3> HIDE DEF p
    <3>3. SocketIsHeld(p, n.conn, side)
      BY <3>1, <3>2 DEF SideFine, SocketIsHeld
    <3>4. Timed(p, w.conn, c) => Timed(p, n.conn, None)
      BY <2>1, <3>2 DEF Timed
    <3>5. p.reset /\ p.socket # None => ~Live(n.conn, None, p.socket)
      BY <2>1, <3>1, <3>2 DEF SideFine
    <3> QED BY <3>1, <3>3, <3>4, <3>5 DEF SideFine, p
  <2>4. \A d \in shut : n.conn[d].link = "closed"
    BY DEF Fine
  <2> QED BY <2>2, <2>3, <2>4 DEF Fine
<1>2. w \in Worlds
  BY DEF Fine
<1>3. CASE c = None
  <2>1. Ended(w, c) = w /\ Destroyed(w, c) = w
    BY <1>3 DEF Ended, Destroyed
  <2> QED BY <1>3, <2>1
<1>4. CASE c # None
  <2>1. c \in Conns /\ w.conn[c] \in Links
    BY <1>2, <1>4 DEF Worlds
  <2>2. ASSUME NEW l \in {"ended", "destroyed"}, w.conn[c].link \in {"open", "ended"}
        PROVE  CutFrom(WithConn(w, c, [w.conn[c] EXCEPT !.link = l]))
    <3> DEFINE k == [w.conn[c] EXCEPT !.link = l]
               n == WithConn(w, c, k)
    <3>1. k \in Links /\ k.link = l /\ k.side = w.conn[c].side
      BY <2>1 DEF Links
    <3> HIDE DEF k
    <3>2. /\ n \in Worlds
          /\ n.conn[c] = k /\ \A d \in Conns \ {c} : n.conn[d] = w.conn[d]
          /\ n.peer = w.peer /\ n.ticket = w.ticket /\ n.active = w.active
          /\ n.match = w.match /\ n.stored = w.stored /\ n.told = w.told
      BY <1>2, <2>1, <3>1, ConnSet
    <3> HIDE DEF n
    <3>3. CutFrom(n)
      BY <2>2, <3>1, <3>2 DEF Live
    <3> QED BY <3>3 DEF n, k
  <2>3. w.conn[c].link # "open" => CutFrom(w)
    BY <1>2 DEF Live
  <2> HIDE DEF CutFrom
  <2>4. CutFrom(Ended(w, c)) /\ CutFrom(Destroyed(w, c))
    BY <1>4, <2>2, <2>3 DEF Ended, Destroyed
  <2> QED BY <1>1, <2>4
<1> QED BY <1>3, <1>4

\* Cutting any connection is harmless.
LEMMA AnyCutIsFine ==
  ASSUME NEW c \in Conns \cup {None}, NEW shut, NEW w, Fine(w, None, shut)
  PROVE  Fine(Ended(w, c), None, shut) /\ Fine(Destroyed(w, c), None, shut)
<1>1. \A d \in Conns : Live(w.conn, c, d) => Live(w.conn, None, d)
  BY NoneAssumption DEF Live
<1>2. \A side \in Sides : w.peer[side].socket \in Conns \cup {None}
  BY DEF Fine, Worlds, Peers
<1>3. Fine(w, c, shut)
  BY <1>1, <1>2 DEF Fine, LiveIsSocket, SideFine, Timed
<1> QED BY <1>3, CutIsFine

-----------------------------------------------------------------------------
(***************************************************************************)
(* A player's half of the match changes, and at most the cut connection.   *)
(***************************************************************************)
\* n is w but for side's peer, ticket and place in activeByUser.
SideOnly(w, n, side) ==
  /\ n \in Worlds
  /\ n.match = w.match /\ n.stored = w.stored /\ n.told = w.told /\ n.conn = w.conn
  /\ \A other \in Sides \ {side} :
       n.peer[other] = w.peer[other] /\ n.ticket[other] = w.ticket[other]
       /\ n.active[other] = w.active[other]

LEMMA SideChanges ==
  ASSUME NEW w, NEW shut, Fine(w, None, shut), NEW n, NEW side \in Sides, SideOnly(w, n, side),
         NEW c \in Conns \cup {None},
         \/ n.peer[side].socket = w.peer[side].socket
         \/ c = w.peer[side].socket,
         SideFine(n.peer[side], n.conn, n.ticket[side], n.active[side], n.match.phase, c, side)
  PROVE  Fine(n, c, shut)
<1>1. LiveIsSocket(n.peer, n.conn, c)
  <2> SUFFICES ASSUME NEW d \in Conns, Live(w.conn, c, d)
               PROVE  w.conn[d].side \in Sides /\ n.peer[w.conn[d].side].socket = d
    BY DEF LiveIsSocket, SideOnly
  <2>1. w.conn[d].side \in Sides /\ w.peer[w.conn[d].side].socket = d
    BY NoneAssumption DEF Fine, LiveIsSocket, Live
  <2> QED BY <2>1 DEF SideOnly, Live
<1>2. ASSUME NEW other \in Sides
      PROVE  SideFine(n.peer[other], n.conn, n.ticket[other], n.active[other], n.match.phase,
                      c, other)
  <2>1. CASE other # side
    <3>1. SideFine(n.peer[other], n.conn, n.ticket[other], n.active[other], n.match.phase,
                   None, other)
      BY <2>1 DEF Fine, SideOnly
    <3>2. \A d \in Conns : Live(n.conn, c, d) => Live(n.conn, None, d)
      BY NoneAssumption DEF Live
    <3>3. n.peer[other].socket \in Conns \cup {None}
      BY DEF SideOnly, Worlds, Peers
    <3> QED BY <3>1, <3>2, <3>3 DEF SideFine, Timed
  <2> QED BY <2>1
<1> QED BY <1>1, <1>2 DEF Fine, SideOnly

-----------------------------------------------------------------------------
(***************************************************************************)
(* Closing a revoked peer and writing to the players.                      *)
(***************************************************************************)
LEMMA RevokedClosedIsFine ==
  ASSUME NEW w, NEW shut, Fine(w, None, shut), NEW side \in Sides
  PROVE  LET n == RevokedClosed(w, side) IN
         /\ Fine(n, None, shut)
         /\ n.match = w.match /\ n.stored = w.stored /\ n.told = w.told
<1> DEFINE p == w.peer[side]
           g == Gone(p, w.match.phase)
           n == WithPeer(w, side, g)
<1>1. w \in Worlds /\ p \in Peers /\ p.socket \in Conns \cup {None}
  BY DEF Fine, Worlds, Peers
<1>2. /\ g \in Peers /\ g.socket = None /\ ~g.ready /\ g.reset = p.reset
      /\ w.match.phase = "started" => g.absent # None
  BY <1>1, GoneSet
<1>3. SideFine(p, w.conn, w.ticket[side], w.active[side], w.match.phase, None, side)
  BY DEF Fine
<1> HIDE DEF g
<1>4. /\ SideOnly(w, n, side)
      /\ n.peer[side] = g /\ n.ticket[side] = w.ticket[side] /\ n.active[side] = w.active[side]
  BY <1>1, <1>2, PeerSet DEF SideOnly
<1> HIDE DEF n
<1>5. SideFine(n.peer[side], n.conn, n.ticket[side], n.active[side], n.match.phase, p.socket, side)
  BY <1>2, <1>3, <1>4 DEF SideFine, SideOnly, SocketIsHeld, Timed
<1>6. Fine(n, p.socket, shut)
  BY <1>1, <1>4, <1>5, SideChanges DEF p
<1>7. Fine(Destroyed(n, p.socket), None, shut)
  BY <1>1, <1>6, CutIsFine
<1>8. n \in Worlds
  BY <1>4 DEF SideOnly
<1>9. LET x == Destroyed(n, p.socket) IN
      x.match = n.match /\ x.stored = n.stored /\ x.told = n.told
  BY <1>1, <1>8, CutKeeps
<1> QED BY <1>4, <1>7, <1>9 DEF RevokedClosed, n, g, p, SideOnly

\* A result may be written once the match is finished, if it is the stored one.
Tellable(w, result) == result = None \/ (w.match.phase = "finished" /\ result = w.stored)

LEMMA SentIsFine ==
  ASSUME NEW w, NEW shut, Fine(w, None, shut), NEW side \in Sides,
         NEW result \in Sides \cup {None}, Tellable(w, result)
  PROVE  LET n == Sent(w, side, result) IN
         Fine(n, None, shut) /\ n.match = w.match /\ n.stored = w.stored
<1> DEFINE n == [w EXCEPT !.told = [@ EXCEPT ![side] = result]]
<1>1. w \in Worlds
  BY DEF Fine
<1>2. ASSUME result # None PROVE Fine(n, None, shut) /\ n.match = w.match /\ n.stored = w.stored
  <2>1. /\ n \in Worlds
        /\ n.peer = w.peer /\ n.conn = w.conn /\ n.ticket = w.ticket /\ n.active = w.active
        /\ n.match = w.match /\ n.stored = w.stored
        /\ \A other \in Sides : n.told[other] = result \/ n.told[other] = w.told[other]
    BY <1>1 DEF Worlds
  <2> HIDE DEF n
  <2>2. TellingFine(n.match, n.stored, n.told)
    BY <1>2, <2>1 DEF Fine, TellingFine, Tellable
  <2> QED BY <2>1, <2>2 DEF Fine
<1> HIDE DEF n
<1> QED BY <1>2, RevokedClosedIsFine DEF Sent, n

LEMMA SentBothIsFine ==
  ASSUME NEW w, NEW shut, Fine(w, None, shut),
         NEW result \in Sides \cup {None}, Tellable(w, result)
  PROVE  LET n == SentBoth(w, result) IN
         Fine(n, None, shut) /\ n.match = w.match /\ n.stored = w.stored
<1> DEFINE x == Sent(w, "black", result)
<1>1. "black" \in Sides /\ "white" \in Sides
  BY DEF Sides
<1>2. Fine(x, None, shut) /\ x.match = w.match /\ x.stored = w.stored
  BY <1>1, SentIsFine
<1>3. Tellable(x, result)
  BY <1>2 DEF Tellable
<1> HIDE DEF x
<1>4. LET n == Sent(x, "white", result) IN
      Fine(n, None, shut) /\ n.match = x.match /\ n.stored = x.stored
  BY <1>1, <1>2, <1>3, SentIsFine
<1> QED BY <1>2, <1>4 DEF SentBoth, x

-----------------------------------------------------------------------------
(***************************************************************************)
(* Deciding the match and storing the outcome.                             *)
(***************************************************************************)
\* The match alone changes, and not into a started one.
LEMMA MatchChanges ==
  ASSUME NEW w, NEW shut, Fine(w, None, shut), NEW n \in Worlds,
         n.peer = w.peer, n.conn = w.conn, n.ticket = w.ticket, n.active = w.active,
         n.match.phase = "started" => w.match.phase = "started",
         TellingFine(n.match, n.stored, n.told)
  PROVE  Fine(n, None, shut)
BY DEF Fine, SideFine

\* The store has taken the outcome, and nobody is told yet.
Taken(w) == [w EXCEPT !.match = [@ EXCEPT !.phase = "finished", !.retry = 0],
                      !.stored = w.match.winner]

LEMMA TakenIsFine ==
  ASSUME NEW w, NEW shut, Fine(w, None, shut), w.match.phase = "finishing"
  PROVE  LET x == Taken(w) IN
         /\ Fine(x, None, shut) /\ Tellable(x, w.match.winner)
         /\ w.match.winner \in Sides \cup {None}
         /\ x.match.phase = "finished" /\ x.match.winner = w.match.winner
         /\ x.match.reason = w.match.reason /\ x.match.age = w.match.age /\ x.match.retry = 0
         /\ x.stored = w.match.winner
<1> DEFINE m == [w.match EXCEPT !.phase = "finished", !.retry = 0]
           x == [w EXCEPT !.match = m, !.stored = w.match.winner]
<1>1. w \in Worlds /\ w.match \in Matches /\ w.match.winner \in Sides \cup {None}
  BY DEF Fine, Worlds, Matches
<1>2. /\ m \in Matches /\ m.phase = "finished" /\ m.retry = 0
      /\ m.winner = w.match.winner /\ m.reason = w.match.reason /\ m.age = w.match.age
  BY <1>1 DEF Matches, Phases
<1>3. Taken(w) = x
  BY DEF Taken
<1> HIDE DEF m
<1>4. /\ x \in Worlds /\ x.match = m /\ x.stored = w.match.winner
      /\ x.peer = w.peer /\ x.conn = w.conn /\ x.ticket = w.ticket /\ x.active = w.active
      /\ x.told = w.told
  BY <1>1, <1>2 DEF Worlds
<1> HIDE DEF x
<1>5. TellingFine(x.match, x.stored, x.told)
  BY <1>2, <1>4 DEF Fine, TellingFine
<1>6. Fine(x, None, shut)
  BY <1>2, <1>4, <1>5, MatchChanges
<1>7. Tellable(x, w.match.winner)
  BY <1>2, <1>4 DEF Tellable
<1> QED BY <1>1, <1>2, <1>3, <1>4, <1>6, <1>7

LEMMA CommittedIsFine ==
  ASSUME NEW w, NEW shut, Fine(w, None, shut), w.match.phase = "finishing",
         NEW n \in Committed(w)
  PROVE  Fine(n, None, shut)
<1>1. w \in Worlds /\ w.match \in Matches /\ w.match.winner \in Sides \cup {None}
  BY DEF Fine, Worlds, Matches
<1>2. ASSUME n = LeftForRetry(w) PROVE Fine(n, None, shut)
  <2> DEFINE m == [w.match EXCEPT !.retry = 0]
  <2>1. m \in Matches /\ m.phase = w.match.phase /\ m.winner = w.match.winner
    BY <1>1 DEF Matches
  <2> HIDE DEF m
  <2>2. n = [w EXCEPT !.match = m]
    BY <1>2 DEF LeftForRetry, m
  <2>3. /\ n \in Worlds /\ n.match = m
        /\ n.peer = w.peer /\ n.conn = w.conn /\ n.ticket = w.ticket /\ n.active = w.active
        /\ n.stored = w.stored /\ n.told = w.told
    BY <1>1, <2>1, <2>2 DEF Worlds
  <2>4. TellingFine(n.match, n.stored, n.told)
    BY <2>1, <2>3 DEF Fine, TellingFine
  <2> QED BY <2>1, <2>3, <2>4, MatchChanges
<1>3. ASSUME n = Published(w) PROVE Fine(n, None, shut)
  <2>1. n = SentBoth(Taken(w), w.match.winner)
    BY <1>3 DEF Published, Taken
  <2> QED BY <2>1, TakenIsFine, SentBothIsFine
<1> QED BY <1>2, <1>3 DEF Committed

LEMMA DecidedIsFine ==
  ASSUME NEW w, NEW shut, Fine(w, None, shut), w.match.phase \in {"found", "started"},
         NEW winner \in Sides, NEW reason \in {"play", "resign", "disconnect"}
  PROVE  LET x == Decided(w, winner, reason) IN
         Fine(x, None, shut) /\ x.match.phase = "finishing"
<1> DEFINE m == [InPhase("finishing") EXCEPT !.winner = winner, !.reason = reason]
           ps == [side \in Sides |-> [w.peer[side] EXCEPT !.absent = None]]
           x == Decided(w, winner, reason)
<1>1. w \in Worlds
  BY DEF Fine
<1>2. m \in Matches /\ m.phase = "finishing"
  BY DEF InPhase, Matches, Phases
<1>3. /\ ps \in [Sides -> Peers]
      /\ \A side \in Sides : /\ ps[side].socket = w.peer[side].socket
                             /\ ps[side].ready = w.peer[side].ready
                             /\ ps[side].reset = w.peer[side].reset
  BY <1>1 DEF Worlds, Peers
<1>4. x = [w EXCEPT !.match = m, !.peer = ps]
  BY DEF Decided
<1> HIDE DEF m, ps, x
<1>5. /\ x \in Worlds /\ x.match = m /\ x.peer = ps
      /\ x.conn = w.conn /\ x.ticket = w.ticket /\ x.active = w.active
      /\ x.stored = w.stored /\ x.told = w.told
  BY <1>1, <1>2, <1>3, <1>4 DEF Worlds
<1>6. LiveIsSocket(x.peer, x.conn, None)
  BY <1>3, <1>5 DEF Fine, LiveIsSocket
<1>7. \A side \in Sides : SideFine(x.peer[side], x.conn, x.ticket[side], x.active[side],
                                   x.match.phase, None, side)
  BY <1>2, <1>3, <1>5 DEF Fine, SideFine, SocketIsHeld
<1>8. TellingFine(x.match, x.stored, x.told)
  BY <1>2, <1>5 DEF Fine, TellingFine
<1>9. Fine(x, None, shut) /\ x.match.phase = "finishing"
  BY <1>2, <1>5, <1>6, <1>7, <1>8 DEF Fine
<1> QED BY <1>9 DEF x

LEMMA FinishedIsFine ==
  ASSUME NEW w, NEW shut, Fine(w, None, shut), w.match.phase # "none",
         NEW winner \in Sides, NEW reason \in {"play", "resign", "disconnect"},
         NEW n \in Finished(w, winner, reason)
  PROVE  Fine(n, None, shut)
<1>1. w.match.phase \in Phases
  BY DEF Fine, Worlds, Matches
<1>2. CASE w.match.phase \in {"finished", "reset"}
  BY <1>2 DEF Finished
<1>3. CASE w.match.phase = "finishing"
  BY <1>3, CommittedIsFine DEF Finished
<1>4. CASE w.match.phase \in {"found", "started"}
  <2>1. n \in Committed(Decided(w, winner, reason))
    BY <1>4 DEF Finished
  <2> QED BY <1>4, <2>1, DecidedIsFine, CommittedIsFine
<1> QED BY <1>1, <1>2, <1>3, <1>4 DEF Phases

-----------------------------------------------------------------------------
(***************************************************************************)
(* The deadlines.                                                          *)
(***************************************************************************)
\* Leaving the memory takes the peers, connections and tickets along.
LEMMA ForgottenIsFine ==
  ASSUME NEW w, NEW shut, Fine(w, None, shut)
  PROVE  Fine(Forgotten(w), None, shut)
<1> DEFINE n == Forgotten(w)
           m == InPhase("none")
           idle == [side \in Sides |-> FALSE]
<1>1. w \in Worlds
  BY DEF Fine
<1>2. m \in Matches /\ m.phase = "none"
  BY DEF InPhase, Matches, Phases
<1>3. /\ NoPeers \in [Sides -> Peers]
      /\ \A side \in Sides : NoPeers[side].socket = None /\ ~NoPeers[side].ready
  BY DEF NoPeers, Peers
<1>4. NoConns \in [Conns -> Links] /\ \A c \in Conns : NoConns[c].link = "closed"
  BY DEF NoConns, Links
<1>5. NoTickets \in [Sides -> Tickets] /\ \A side \in Sides : NoTickets[side] = None
  BY DEF NoTickets, Tickets
<1>6. n = [w EXCEPT !.match = m, !.peer = NoPeers, !.conn = NoConns,
                    !.ticket = NoTickets, !.active = idle]
  BY DEF Forgotten
<1>7. idle \in [Sides -> BOOLEAN]
  OBVIOUS
<1> HIDE DEF n, m, idle
<1>8. /\ n \in Worlds /\ n.match = m /\ n.peer = NoPeers /\ n.conn = NoConns
      /\ n.ticket = NoTickets /\ n.stored = w.stored /\ n.told = w.told
  BY <1>1, <1>2, <1>3, <1>4, <1>5, <1>6, <1>7 DEF Worlds
<1>9. LiveIsSocket(n.peer, n.conn, None)
  BY <1>4, <1>8 DEF LiveIsSocket, Live
<1>10. \A side \in Sides : SideFine(n.peer[side], n.conn, n.ticket[side], n.active[side],
                                    n.match.phase, None, side)
  BY <1>2, <1>3, <1>5, <1>8 DEF SideFine, SocketIsHeld
<1>11. TellingFine(n.match, n.stored, n.told)
  BY <1>2, <1>8 DEF Fine, TellingFine
<1>12. shut \subseteq Conns /\ \A c \in shut : n.conn[c].link = "closed"
  BY <1>4, <1>8 DEF Fine
<1> QED BY <1>8, <1>9, <1>10, <1>11, <1>12 DEF Fine, n

LEMMA JoinSweptIsFine ==
  ASSUME NEW w, NEW shut, Fine(w, None, shut)
  PROVE  Fine(JoinSwept(w), None, shut)
<1>1. CASE w.match.phase = "found" /\ w.match.age = JoinTimeout
  <2> DEFINE m == [w.match EXCEPT !.phase = "reset", !.age = 0]
             idle == [side \in Sides |-> FALSE]
             x == [w EXCEPT !.match = m, !.ticket = NoTickets, !.active = idle]
             b == x.peer["black"].socket
             y == Ended(x, b)
  <2>1. w \in Worlds /\ w.match \in Matches
    BY DEF Fine, Worlds
  <2>2. m \in Matches /\ m.phase = "reset"
    BY <2>1 DEF Matches, Phases
  <2>3. NoTickets \in [Sides -> Tickets] /\ \A side \in Sides : NoTickets[side] = None
    BY DEF NoTickets, Tickets
  <2>4. idle \in [Sides -> BOOLEAN]
    OBVIOUS
  <2>5. JoinSwept(w) = EndedBoth(x)
    BY <1>1 DEF JoinSwept
  <2> HIDE DEF m, idle
  <2>6. /\ x \in Worlds /\ x.match = m /\ x.peer = w.peer /\ x.conn = w.conn
        /\ x.ticket = NoTickets /\ x.stored = w.stored /\ x.told = w.told
    BY <2>1, <2>2, <2>3, <2>4 DEF Worlds
  <2> HIDE DEF x
  <2>7. \A side \in Sides : SideFine(x.peer[side], x.conn, x.ticket[side], x.active[side],
                                     x.match.phase, None, side)
    BY <2>2, <2>3, <2>6 DEF Fine, SideFine
  <2>8. TellingFine(x.match, x.stored, x.told)
    BY <1>1, <2>2, <2>6 DEF Fine, TellingFine
  <2>9. Fine(x, None, shut)
    BY <2>6, <2>7, <2>8 DEF Fine
  <2>10. \A v \in Worlds, side \in Sides : v.peer[side].socket \in Conns \cup {None}
    BY DEF Worlds, Peers
  <2>11. b \in Conns \cup {None}
    BY <2>6, <2>10 DEF Sides
  <2>12. Fine(y, None, shut)
    BY <2>9, <2>11, AnyCutIsFine
  <2>13. y.peer["white"].socket \in Conns \cup {None}
    BY <2>10, <2>12 DEF Fine, Sides
  <2>14. Fine(Ended(y, y.peer["white"].socket), None, shut)
    BY <2>12, <2>13, AnyCutIsFine
  <2>15. y.peer = x.peer
    BY <2>6, CutKeeps
  <2> QED BY <2>5, <2>14, <2>15 DEF EndedBoth
<1>2. CASE ~(w.match.phase = "found" /\ w.match.age = JoinTimeout)
  BY <1>2 DEF JoinSwept
<1> QED BY <1>1, <1>2

LEMMA ExpiredIsFine ==
  ASSUME NEW w, NEW shut, Fine(w, None, shut), NEW n \in Expired(w)
  PROVE  Fine(n, None, shut)
<1>1. CASE w.match.phase = "none"
  BY <1>1 DEF Expired
<1>2. CASE w.match.phase # "none"
  <2>1. ASSUME NEW v, Fine(v, None, shut), NEW side \in Sides
        PROVE  Fine(RevokedSwept(v, side), None, shut)
    BY <2>1, RevokedClosedIsFine DEF RevokedSwept
  <2>2. ASSUME NEW v, Fine(v, None, shut), NEW x \in RetrySwept(v)
        PROVE  Fine(x, None, shut)
    BY <2>2, CommittedIsFine DEF RetrySwept
  <2>3. ASSUME NEW v, Fine(v, None, shut), NEW x \in AbsenceSwept(v)
        PROVE  Fine(x, None, shut)
    <3>1. Opposite(FirstToLeave(v)) \in Sides
      BY DEF FirstToLeave, Opposite, Sides
    <3> QED BY <2>3, <3>1, FinishedIsFine DEF AbsenceSwept
  <2>4. ASSUME NEW v, Fine(v, None, shut) PROVE Fine(RetentionSwept(v), None, shut)
    BY <2>4, ForgottenIsFine DEF RetentionSwept
  <2> DEFINE a == RevokedSwept(RevokedSwept(w, "black"), "white")
  <2>5. Fine(a, None, shut)
    BY <2>1 DEF Sides
  <2>6. PICK r \in RetrySwept(a) : \E p \in AbsenceSwept(JoinSwept(r)) : n = RetentionSwept(p)
    BY <1>2 DEF Expired
  <2>7. Fine(JoinSwept(r), None, shut)
    BY <2>2, <2>5, <2>6, JoinSweptIsFine
  <2> QED BY <2>3, <2>4, <2>6, <2>7
<1> QED BY <1>1, <1>2

LEMMA SweptSteps ==
  ASSUME NEW w, NEW shut, Fine(w, None, shut), NEW n \in Swept(w)
  PROVE  \E x : /\ Fine(x, None, shut) /\ n \in Expired(x)
                /\ x.match = w.match /\ x.stored = w.stored /\ x.peer = w.peer
<1> DEFINE t == [side \in Sides |-> IF TicketLives(w, side) THEN w.ticket[side] ELSE None]
           x == [w EXCEPT !.ticket = t]
<1>1. w \in Worlds
  BY DEF Fine
<1>2. /\ t \in [Sides -> Tickets]
      /\ \A side \in Sides : t[side] # None => w.ticket[side] # None
  BY <1>1 DEF Worlds, Tickets
<1>3. n \in Expired(x)
  BY DEF Swept
<1> HIDE DEF t
<1>4. /\ x \in Worlds /\ x.ticket = t
      /\ x.match = w.match /\ x.peer = w.peer /\ x.conn = w.conn /\ x.active = w.active
      /\ x.stored = w.stored /\ x.told = w.told
  BY <1>1, <1>2 DEF Worlds
<1> HIDE DEF x
<1>5. Fine(x, None, shut)
  BY <1>2, <1>4 DEF Fine, SideFine
<1> QED BY <1>3, <1>4, <1>5

LEMMA SweptIsFine ==
  ASSUME NEW w, NEW shut, Fine(w, None, shut), NEW n \in Swept(w)
  PROVE  Fine(n, None, shut)
BY SweptSteps, ExpiredIsFine

-----------------------------------------------------------------------------
(***************************************************************************)
(* The actions.                                                            *)
(***************************************************************************)
LEMMA BecomesFine ==
  ASSUME NEW w, NEW shut, Fine(w, None, shut), Becomes(w)
  PROVE  IInv'
<1>1. World' = w
  BY DEF World, Becomes, Fine, Worlds
<1>2. Fine(w, None, {})
  BY DEF Fine
<1> QED BY <1>1, <1>2 DEF IInv

LEMMA WorldTyped ==
  ASSUME IInv
  PROVE  /\ match \in Matches /\ peer \in [Sides -> Peers] /\ conn \in [Conns -> Links]
         /\ ticket \in [Sides -> Tickets] /\ active \in [Sides -> BOOLEAN]
         /\ stored \in Sides \cup {None} /\ told \in [Sides -> Sides \cup {None}]
BY DEF IInv, Fine, World, Worlds

LEMMA WorldPrimed ==
  ASSUME World' \in Worlds, LiveIsSocket(peer', conn', None), TellingFine(match', stored', told'),
         \A side \in Sides : SideFine(peer'[side], conn', ticket'[side], active'[side],
                                     match'.phase, None, side)
  PROVE  IInv'
BY DEF IInv, Fine, World

LEMMA IssueTicketIsFine ==
  ASSUME IInv, NEW b \in Bearers, IssueTicket(b) PROVE IInv'
<1> DEFINE side == Owner[b]
           t == [bearer |-> b, age |-> 0]
<1>1. PICK w \in Swept(World) : w.active[side] /\ Becomes(WithTicket(w, side, t))
  BY DEF IssueTicket
<1>2. Fine(w, None, {})
  BY <1>1, SweptIsFine DEF IInv
<1>3. side \in Sides /\ t \in Tickets
  BY OwnerAssumption DEF Tickets
<1> HIDE DEF side, t
<1> DEFINE n == WithTicket(w, side, t)
<1>4. /\ n \in Worlds
      /\ n.ticket[side] = t /\ \A other \in Sides \ {side} : n.ticket[other] = w.ticket[other]
      /\ n.peer = w.peer /\ n.conn = w.conn /\ n.active = w.active
      /\ n.match = w.match /\ n.stored = w.stored /\ n.told = w.told
  BY <1>2, <1>3, TicketSet DEF Fine
<1> HIDE DEF n
<1>5. SideFine(n.peer[side], n.conn, n.ticket[side], n.active[side], n.match.phase, None, side)
  BY <1>1, <1>2, <1>3, <1>4 DEF Fine, SideFine
<1>6. Fine(n, None, {})
  BY <1>2, <1>3, <1>4, <1>5, SideChanges DEF SideOnly
<1> QED BY <1>1, <1>6, BecomesFine DEF n

LEMMA DismissIsFine ==
  ASSUME IInv, NEW b \in Bearers, Dismiss(b) PROVE IInv'
<1> DEFINE side == Owner[b]
           w == World
           p == [w.peer[side] EXCEPT !.reset = TRUE]
           x == WithTicket(w, side, None)
           y == WithPeer(x, side, p)
           n == [y EXCEPT !.active = [@ EXCEPT ![side] = FALSE]]
           s == w.peer[side].socket
<1>1. Becomes(Ended(n, s))
  BY DEF Dismiss, Dismissed
<1>2. Fine(w, None, {}) /\ w \in Worlds
  BY DEF IInv, Fine
<1>3. side \in Sides /\ w.peer[side] \in Peers /\ s \in Conns \cup {None}
  BY <1>2, OwnerAssumption DEF Worlds, Peers
<1> HIDE DEF side, w
<1>4. /\ p \in Peers /\ p.socket = s /\ p.ready = w.peer[side].ready
      /\ p.absent = w.peer[side].absent
  BY <1>3 DEF Peers
<1>5. None \in Tickets
  BY DEF Tickets
<1>6. /\ x \in Worlds
      /\ x.ticket[side] = None /\ \A other \in Sides \ {side} : x.ticket[other] = w.ticket[other]
      /\ x.peer = w.peer /\ x.conn = w.conn /\ x.active = w.active
      /\ x.match = w.match /\ x.stored = w.stored /\ x.told = w.told
  BY <1>2, <1>3, <1>5, TicketSet
<1> HIDE DEF x, p
<1>7. /\ y \in Worlds
      /\ y.peer[side] = p /\ \A other \in Sides \ {side} : y.peer[other] = x.peer[other]
      /\ y.conn = x.conn /\ y.ticket = x.ticket /\ y.active = x.active
      /\ y.match = x.match /\ y.stored = x.stored /\ y.told = x.told
  BY <1>3, <1>4, <1>6, PeerSet
<1> HIDE DEF y
<1>8. /\ n \in Worlds
      /\ \A other \in Sides \ {side} : n.active[other] = y.active[other]
      /\ n.peer = y.peer /\ n.conn = y.conn /\ n.ticket = y.ticket
      /\ n.match = y.match /\ n.stored = y.stored /\ n.told = y.told
  BY <1>7 DEF Worlds
<1> HIDE DEF n
<1>9. SideOnly(w, n, side) /\ n.peer[side] = p /\ n.ticket[side] = None
  BY <1>6, <1>7, <1>8 DEF SideOnly
<1>10. SideFine(w.peer[side], w.conn, w.ticket[side], w.active[side], w.match.phase, None, side)
  BY <1>2, <1>3 DEF Fine
<1>11. SideFine(n.peer[side], n.conn, n.ticket[side], n.active[side], n.match.phase, s, side)
  BY <1>4, <1>9, <1>10 DEF SideFine, SideOnly, SocketIsHeld, Timed, Live
<1> HIDE DEF s
<1>12. Fine(n, s, {})
  BY <1>2, <1>3, <1>9, <1>11, SideChanges DEF s
<1> QED BY <1>1, <1>3, <1>12, CutIsFine, BecomesFine

LEMMA BoundIsFine ==
  ASSUME NEW w, NEW c \in Conns, Fine(w, None, {c}), NEW side \in Sides, w.ticket[side] # None,
         ~w.peer[side].reset
  PROVE  Fine(Bound(w, c, side), None, {})
<1> DEFINE k == [link |-> "open", side |-> side]
           q == w.peer[side]
           p == LoggedIn(q, c, w.ticket[side].bearer, w.match.phase)
           x == WithTicket(w, side, None)
           y == WithConn(x, c, k)
           n == WithPeer(y, side, p)
           s == q.socket
<1>1. Bound(w, c, side) = Destroyed(n, s)
  BY DEF Bound
<1>2. w \in Worlds /\ w.conn[c].link = "closed"
  BY DEF Fine
<1>3. q \in Peers /\ s \in Conns \cup {None}
  BY <1>2 DEF Worlds, Peers
<1>4. /\ p \in Peers /\ p.socket = c /\ ~p.ready /\ ~p.reset
      /\ w.match.phase = "started" => p.absent # None
  <2> DEFINE absent == Since(q.absent, w.match.phase)
             bearer == w.ticket[side].bearer
  <2>1. absent \in Nat \cup {None} /\ (w.match.phase = "started" => absent # None)
    BY <1>3, NoneAssumption DEF Since, Peers
  <2>2. bearer \in Bearers
    BY <1>2 DEF Worlds, Tickets
  <2>3. p = [q EXCEPT !.socket = c, !.ready = FALSE, !.bearer = bearer, !.absent = absent]
    BY DEF LoggedIn
  <2> HIDE DEF absent, bearer, q
  <2>4. ~q.reset
    BY DEF q
  <2> QED BY <1>3, <2>1, <2>2, <2>3, <2>4 DEF Peers
<1>5. None \in Tickets /\ k \in Links /\ k.link = "open" /\ k.side = side
  BY DEF Tickets, Links
<1>6. /\ x \in Worlds
      /\ x.ticket[side] = None /\ \A other \in Sides \ {side} : x.ticket[other] = w.ticket[other]
      /\ x.peer = w.peer /\ x.conn = w.conn /\ x.active = w.active
      /\ x.match = w.match /\ x.stored = w.stored /\ x.told = w.told
  BY <1>2, <1>5, TicketSet
<1> HIDE DEF x, p, k
<1>7. /\ y \in Worlds
      /\ y.conn[c] = k /\ \A d \in Conns \ {c} : y.conn[d] = x.conn[d]
      /\ y.peer = x.peer /\ y.ticket = x.ticket /\ y.active = x.active
      /\ y.match = x.match /\ y.stored = x.stored /\ y.told = x.told
  BY <1>5, <1>6, ConnSet
<1> HIDE DEF y
<1>8. /\ n \in Worlds
      /\ n.peer[side] = p /\ \A other \in Sides \ {side} : n.peer[other] = y.peer[other]
      /\ n.conn = y.conn /\ n.ticket = y.ticket /\ n.active = y.active
      /\ n.match = y.match /\ n.stored = y.stored /\ n.told = y.told
  BY <1>4, <1>7, PeerSet
<1> HIDE DEF n
<1>9. \A t \in Sides : /\ SideFine(w.peer[t], w.conn, w.ticket[t], w.active[t],
                                    w.match.phase, None, t)
                       /\ w.peer[t].socket # c /\ w.peer[t].socket \in Conns \cup {None}
  BY <1>2, NoneAssumption DEF Fine, SideFine, SocketIsHeld, Worlds, Peers
<1>10. s # c
  BY <1>9
<1>11. LiveIsSocket(n.peer, n.conn, s)
  <2> SUFFICES ASSUME NEW d \in Conns, Live(n.conn, s, d)
               PROVE  n.conn[d].side \in Sides /\ n.peer[n.conn[d].side].socket = d
    BY DEF LiveIsSocket
  <2>1. CASE d = c
    BY <1>4, <1>5, <1>7, <1>8, <2>1
  <2>2. CASE d # c
    <3>1. n.conn[d] = w.conn[d] /\ Live(w.conn, None, d)
      BY <1>6, <1>7, <1>8, <2>2, NoneAssumption DEF Live
    <3>2. w.conn[d].side \in Sides /\ w.peer[w.conn[d].side].socket = d
      BY <3>1 DEF Fine, LiveIsSocket
    <3>3. w.conn[d].side # side
      BY <3>2 DEF Live
    <3> QED BY <1>6, <1>7, <1>8, <3>1, <3>2, <3>3
  <2> QED BY <2>1, <2>2
<1>12. ASSUME NEW t \in Sides
       PROVE  SideFine(n.peer[t], n.conn, n.ticket[t], n.active[t], n.match.phase, s, t)
  <2>1. CASE t = side
    BY <1>4, <1>5, <1>6, <1>7, <1>8, <2>1, NoneAssumption DEF SideFine, SocketIsHeld, Timed
  <2>2. CASE t # side
    <3> DEFINE o == w.peer[t]
    <3>1. /\ SideFine(o, w.conn, w.ticket[t], w.active[t], w.match.phase, None, t)
          /\ o.socket # c /\ o.socket \in Conns \cup {None}
      BY <1>9
    <3>2. n.peer[t] = o /\ n.ticket[t] = w.ticket[t] /\ n.active[t] = w.active[t]
          /\ n.match = w.match
      BY <1>6, <1>7, <1>8, <2>2
    <3>3. o.socket # None => n.conn[o.socket] = w.conn[o.socket]
      BY <1>6, <1>7, <1>8, <3>1
    <3> HIDE DEF o
    <3>4. o.socket # None =>
            /\ n.conn[o.socket].link = w.conn[o.socket].link
            /\ n.conn[o.socket].side = w.conn[o.socket].side
            /\ Live(n.conn, s, o.socket) => Live(w.conn, None, o.socket)
      BY <3>3 DEF Live
    <3> QED BY <3>1, <3>2, <3>4 DEF SideFine, SocketIsHeld, Timed
  <2> QED BY <2>1, <2>2
<1>13. Fine(n, s, {})
  BY <1>6, <1>7, <1>8, <1>11, <1>12 DEF Fine
<1> QED BY <1>1, <1>3, <1>13, CutIsFine

LEMMA LoginIsFine ==
  ASSUME IInv, NEW c \in Conns, NEW side \in Sides, Login(c, side) PROVE IInv'
<1>1. PICK w \in Expired(World) :
        Becomes(IF Accepts(w, side) THEN Bound(w, c, side) ELSE WithTicket(w, side, None))
  BY DEF Login
<1>2. Fine(World, None, {c})
  BY DEF IInv, Fine, Login, World
<1>3. Fine(w, None, {c})
  BY <1>1, <1>2, ExpiredIsFine
<1>4. CASE Accepts(w, side)
  <2>1. Fine(Bound(w, c, side), None, {})
    BY <1>3, <1>4, BoundIsFine DEF Accepts, TicketLives
  <2> QED BY <1>1, <1>4, <2>1, BecomesFine
<1>5. CASE ~Accepts(w, side)
  <2> DEFINE n == WithTicket(w, side, None)
  <2>1. /\ n \in Worlds
        /\ n.ticket[side] = None /\ \A other \in Sides \ {side} : n.ticket[other] = w.ticket[other]
        /\ n.peer = w.peer /\ n.conn = w.conn /\ n.active = w.active
        /\ n.match = w.match /\ n.stored = w.stored /\ n.told = w.told
    BY <1>3, TicketSet DEF Fine, Tickets
  <2> HIDE DEF n
  <2>2. SideFine(n.peer[side], n.conn, n.ticket[side], n.active[side], n.match.phase, None, side)
    BY <1>3, <2>1 DEF Fine, SideFine
  <2>3. Fine(n, None, {c})
    BY <1>3, <2>1, <2>2, SideChanges DEF SideOnly
  <2> QED BY <1>1, <1>5, <2>3, BecomesFine DEF n
<1> QED BY <1>4, <1>5

\* The connection of an obeyed line is open and its side's socket.
LEMMA ObeyedLine ==
  ASSUME NEW w, NEW shut, Fine(w, None, shut), NEW c \in Conns, Obeyed(w, c)
  PROVE  /\ w.conn[c].side \in Sides /\ w.peer[w.conn[c].side].socket = c
         /\ w.conn[c].link = "open"
BY NoneAssumption DEF Obeyed, Fine, LiveIsSocket, Live

\* A player whose peer is set, with the connection kept.
LEMMA PeerIsFine ==
  ASSUME NEW w, Fine(w, None, {}), NEW side \in Sides, NEW p \in Peers,
         p.socket = w.peer[side].socket, p.reset = w.peer[side].reset,
         NEW cut \in Conns \cup {None},
         p.ready => p.socket # None,
         w.match.phase = "started" => Timed(p, w.conn, cut)
  PROVE  Fine(WithPeer(w, side, p), cut, {})
<1> DEFINE n == WithPeer(w, side, p)
<1>1. /\ n \in Worlds
      /\ n.peer[side] = p /\ \A other \in Sides \ {side} : n.peer[other] = w.peer[other]
      /\ n.conn = w.conn /\ n.ticket = w.ticket /\ n.active = w.active
      /\ n.match = w.match /\ n.stored = w.stored /\ n.told = w.told
  BY PeerSet DEF Fine
<1> HIDE DEF n
<1>2. SideFine(w.peer[side], w.conn, w.ticket[side], w.active[side], w.match.phase, None, side)
  BY DEF Fine
<1>3. p.socket \in Conns \cup {None}
  BY DEF Peers
<1>4. p.socket # None /\ Live(w.conn, cut, p.socket) => Live(w.conn, None, p.socket)
  BY DEF Live
<1>5. SideFine(p, n.conn, n.ticket[side], n.active[side], n.match.phase, cut, side)
  BY <1>1, <1>2, <1>3, <1>4 DEF SideFine, SocketIsHeld
<1>6. Fine(n, cut, {})
  BY <1>1, <1>5, SideChanges DEF SideOnly
<1> QED BY <1>6 DEF n

LEMMA PlayGameIsFine ==
  ASSUME IInv, NEW c \in Conns, NEW winner \in Sides \cup {None}, PlayGame(c, winner)
  PROVE  IInv'
<1>1. PICK w \in Expired(World) :
        LET side == w.conn[c].side
            ready == WithPeer(w, side, [w.peer[side] EXCEPT !.ready = TRUE, !.absent = None]) IN
        /\ Obeyed(w, c)
        /\ \/ /\ w.match.phase = "found" /\ winner = None
              /\ Becomes(IF \A other \in Sides : ready.peer[other].ready
                         THEN [ready EXCEPT !.match = InPhase("started")] ELSE ready)
           \/ /\ w.match.phase = "started" /\ winner # None
              /\ \E x \in Finished(ready, winner, "play") : Becomes(x)
           \/ /\ w.match.phase # "found" /\ winner = None
              /\ Becomes(IF w.match.phase = "finished" THEN Sent(ready, side, w.match.winner)
                         ELSE ready)
  BY DEF PlayGame
<1> DEFINE side == w.conn[c].side
           p == [w.peer[side] EXCEPT !.ready = TRUE, !.absent = None]
           ready == WithPeer(w, side, p)
<1>2. Fine(w, None, {}) /\ w \in Worlds
  <2>1. w \in Expired(World)
    BY <1>1
  <2>2. Fine(w, None, {})
    BY <2>1, ExpiredIsFine DEF IInv
  <2> QED BY <2>2 DEF Fine
<1>3. side \in Sides /\ w.peer[side].socket = c /\ w.peer[side] \in Peers
  BY <1>1, <1>2, ObeyedLine DEF Worlds
<1>4. p \in Peers /\ p.ready /\ p.socket = c /\ p.reset = w.peer[side].reset
  BY <1>3 DEF Peers
<1>5. /\ ready.match = w.match /\ ready.stored = w.stored /\ ready.told = w.told
      /\ ready \in Worlds
  BY <1>2, <1>3, <1>4, PeerSet
<1>6. Fine(ready, None, {})
  BY <1>2, <1>3, <1>4, NoneAssumption, PeerIsFine DEF Timed
<1>7. \/ /\ w.match.phase = "found" /\ winner = None
         /\ Becomes(IF \A other \in Sides : ready.peer[other].ready
                    THEN [ready EXCEPT !.match = InPhase("started")] ELSE ready)
      \/ /\ w.match.phase = "started" /\ winner # None
         /\ \E x \in Finished(ready, winner, "play") : Becomes(x)
      \/ /\ w.match.phase # "found" /\ winner = None
         /\ Becomes(IF w.match.phase = "finished" THEN Sent(ready, side, w.match.winner)
                    ELSE ready)
  BY <1>1
<1> HIDE DEF ready
<1>8. ASSUME w.match.phase = "found", \A other \in Sides : ready.peer[other].ready
      PROVE  Fine([ready EXCEPT !.match = InPhase("started")], None, {})
  <2> DEFINE m == InPhase("started")
             n == [ready EXCEPT !.match = m]
  <2>1. m \in Matches /\ m.phase = "started" /\ m.reason = None
    BY DEF InPhase, Matches, Phases
  <2> HIDE DEF m
  <2>2. /\ n \in Worlds /\ n.match = m
        /\ n.peer = ready.peer /\ n.conn = ready.conn /\ n.ticket = ready.ticket
        /\ n.active = ready.active /\ n.stored = ready.stored /\ n.told = ready.told
    BY <1>5, <2>1 DEF Worlds
  <2> HIDE DEF n
  <2>3. \A t \in Sides : SideFine(n.peer[t], n.conn, n.ticket[t], n.active[t], n.match.phase,
                                  None, t)
    BY <1>6, <1>8, <2>2 DEF Fine, SideFine, Timed
  <2>4. TellingFine(n.match, n.stored, n.told)
    BY <1>5, <1>6, <1>8, <2>1, <2>2 DEF Fine, TellingFine
  <2>5. Fine(n, None, {})
    BY <1>6, <2>2, <2>3, <2>4 DEF Fine
  <2> QED BY <2>5 DEF n, m
<1>9. ASSUME w.match.phase = "started", winner # None, NEW x \in Finished(ready, winner, "play")
      PROVE  Fine(x, None, {})
  BY <1>5, <1>6, <1>9, FinishedIsFine
<1>10. ASSUME w.match.phase = "finished" PROVE Fine(Sent(ready, side, w.match.winner), None, {})
  <2>1. w.match.winner \in Sides \cup {None} /\ Tellable(ready, w.match.winner)
    BY <1>2, <1>5, <1>10 DEF Fine, TellingFine, Tellable, Worlds, Matches
  <2> QED BY <1>3, <1>6, <2>1, SentIsFine
<1> QED BY <1>6, <1>7, <1>8, <1>9, <1>10, BecomesFine

LEMMA RejectIsFine ==
  ASSUME IInv, NEW c \in Conns, Reject(c) PROVE IInv'
<1>1. PICK w \in Expired(World) :
        LET side == w.conn[c].side IN
        /\ Obeyed(w, c)
        /\ Becomes(Ended(WithPeer(w, side, [w.peer[side] EXCEPT !.ready = FALSE]), c))
  BY DEF Reject
<1> DEFINE side == w.conn[c].side
           p == [w.peer[side] EXCEPT !.ready = FALSE]
           n == WithPeer(w, side, p)
<1>2. Fine(w, None, {}) /\ w \in Worlds
  <2>1. w \in Expired(World)
    BY <1>1
  <2>2. Fine(w, None, {})
    BY <2>1, ExpiredIsFine DEF IInv
  <2> QED BY <2>2 DEF Fine
<1>3. side \in Sides /\ w.peer[side].socket = c /\ w.peer[side] \in Peers
  BY <1>1, <1>2, ObeyedLine DEF Worlds
<1>4. p \in Peers /\ ~p.ready /\ p.socket = c /\ p.reset = w.peer[side].reset
  BY <1>3 DEF Peers
<1>5. Timed(p, w.conn, c)
  BY <1>4, NoneAssumption DEF Timed, Live
<1>6. Fine(n, c, {})
  BY <1>2, <1>3, <1>4, <1>5, PeerIsFine
<1>7. Becomes(Ended(n, c))
  BY <1>1
<1> QED BY <1>6, <1>7, CutIsFine, BecomesFine

LEMMA RefusedLineIsFine ==
  ASSUME IInv, NEW c \in Conns, RefusedLine(c) PROVE IInv'
<1>1. PICK w \in Expired(World) : Becomes(Refused(w, c, conn[c].side))
  BY DEF RefusedLine
<1>2. Fine(w, None, {})
  BY <1>1, ExpiredIsFine DEF IInv
<1>3. conn[c].side \in Sides
  BY NoneAssumption DEF IInv, Fine, LiveIsSocket, Live, World, RefusedLine
<1>4. Fine(Refused(w, c, conn[c].side), None, {})
  BY <1>2, <1>3, RevokedClosedIsFine, AnyCutIsFine DEF Refused
<1> QED BY <1>1, <1>4, BecomesFine

LEMMA PlayedIsFine ==
  ASSUME NEW w, Fine(w, None, {}), w.match.phase # "none",
         NEW winner \in Sides \cup {None}, NEW reason \in {"play", "resign"},
         NEW x \in Played(w, winner, reason)
  PROVE  Fine(x, None, {})
<1>1. CASE winner = None
  BY <1>1, SentBothIsFine DEF Played, Tellable
<1>2. CASE winner # None
  BY <1>2, FinishedIsFine DEF Played
<1> QED BY <1>1, <1>2

LEMMA CommandIsFine ==
  ASSUME IInv, NEW c \in Conns, NEW winner \in Sides \cup {None},
         NEW reason \in {"play", "resign"}, Command(c, winner, reason)
  PROVE  IInv'
<1>1. PICK w \in Expired(World) :
        w.match.phase = "started" /\ \E x \in Played(w, winner, reason) : Becomes(x)
  BY DEF Command
<1>2. Fine(w, None, {})
  BY <1>1, ExpiredIsFine DEF IInv
<1> QED BY <1>1, <1>2, PlayedIsFine, BecomesFine

LEMMA ContinuationIsFine ==
  ASSUME IInv, NEW winner \in Sides \cup {None}, Continuation(winner) PROVE IInv'
<1>1. World.match.phase # "none" /\ \E x \in Played(World, winner, "play") : Becomes(x)
  BY DEF Continuation, World
<1> QED BY <1>1, PlayedIsFine, BecomesFine DEF IInv

LEMMA TimerTickIsFine ==
  ASSUME IInv, NEW winner \in Sides \cup {None}, TimerTick(winner) PROVE IInv'
<1>1. PICK w \in IF winner = None THEN {World} ELSE Finished(World, winner, "play") :
        \E x \in Swept(w) : Becomes(x)
  BY DEF TimerTick
<1>2. World.match.phase # "none"
  BY DEF TimerTick, World
<1>3. Fine(w, None, {})
  BY <1>1, <1>2, FinishedIsFine DEF IInv
<1> QED BY <1>1, <1>3, SweptIsFine, BecomesFine

LEMMA CrashIsFine == ASSUME IInv, Crash PROVE IInv'
BY ForgottenIsFine, BecomesFine DEF IInv, Crash

\* A close is reported: the peer is released only if it still has the connection.
LEMMA CloseEventIsFine == ASSUME IInv, NEW c \in Conns, CloseEvent(c) PROVE IInv'
<1> DEFINE k == [link |-> "closed", side |-> None]
           g == [side \in Sides |-> IF peer[side].socket = c
                                    THEN Gone(peer[side], match.phase) ELSE peer[side]]
<1>1. /\ match \in Matches /\ peer \in [Sides -> Peers] /\ conn \in [Conns -> Links]
      /\ ticket \in [Sides -> Tickets] /\ active \in [Sides -> BOOLEAN]
      /\ stored \in Sides \cup {None} /\ told \in [Sides -> Sides \cup {None}]
  BY WorldTyped
<1>2. /\ conn' = [conn EXCEPT ![c] = k] /\ peer' = g
      /\ UNCHANGED <<match, ticket, active, stored, told, authorized>>
  BY DEF CloseEvent
<1>3. k \in Links /\ k.link = "closed"
  BY DEF Links
<1> HIDE DEF k
<1>4. conn' \in [Conns -> Links] /\ conn'[c].link = "closed"
      /\ \A d \in Conns \ {c} : conn'[d] = conn[d]
  BY <1>1, <1>2, <1>3
<1>5. ASSUME NEW side \in Sides
      PROVE  /\ g[side] \in Peers
             /\ peer[side].socket # c => g[side] = peer[side]
             /\ peer[side].socket = c =>
                  /\ g[side].socket = None /\ ~g[side].ready
                  /\ match.phase = "started" => g[side].absent # None
  BY <1>1, GoneSet
<1>6. g \in [Sides -> Peers]
  BY <1>5
<1> HIDE DEF g
<1>7. World' \in Worlds
  BY <1>1, <1>2, <1>4, <1>6 DEF World, Worlds
<1>8. LiveIsSocket(peer, conn, None) /\ TellingFine(match, stored, told)
      /\ \A side \in Sides : SideFine(peer[side], conn, ticket[side], active[side], match.phase,
                                      None, side)
  BY DEF IInv, Fine, World
<1>9. LiveIsSocket(peer', conn', None)
  BY <1>2, <1>4, <1>5, <1>8 DEF LiveIsSocket, Live
<1>10. ASSUME NEW side \in Sides
       PROVE  SideFine(peer'[side], conn', ticket'[side], active'[side], match'.phase, None, side)
  <2>1. CASE peer[side].socket = c
    BY <1>2, <1>5, <1>8, <2>1 DEF SideFine, SocketIsHeld, Timed
  <2>2. CASE peer[side].socket # c
    <3> DEFINE p == peer[side]
    <3>1. p.socket \in Conns \cup {None}
      BY <1>1 DEF Peers
    <3>2. p.socket # None => conn'[p.socket] = conn[p.socket]
      BY <1>4, <2>2, <3>1
    <3>3. SideFine(p, conn, ticket[side], active[side], match.phase, None, side)
      BY <1>8
    <3>4. peer'[side] = p
      BY <1>2, <1>5, <2>2
    <3> HIDE DEF p
    <3>5. p.socket # None => /\ conn'[p.socket].link = conn[p.socket].link
                             /\ conn'[p.socket].side = conn[p.socket].side
                             /\ Live(conn', None, p.socket) = Live(conn, None, p.socket)
      BY <3>2 DEF Live
    <3> QED BY <1>2, <3>3, <3>4, <3>5 DEF SideFine, SocketIsHeld, Timed
  <2> QED BY <2>1, <2>2
<1> QED BY <1>2, <1>7, <1>8, <1>9, <1>10, WorldPrimed

LEMMA TickIsFine == ASSUME IInv, Tick PROVE IInv'
<1>1. /\ match \in Matches /\ peer \in [Sides -> Peers] /\ conn \in [Conns -> Links]
      /\ ticket \in [Sides -> Tickets] /\ active \in [Sides -> BOOLEAN]
      /\ stored \in Sides \cup {None} /\ told \in [Sides -> Sides \cup {None}]
  BY WorldTyped
<1>2. \A age \in Nat : \A limit : Older(age, limit) \in Nat
  BY DEF Older
<1>3. /\ match' \in Matches /\ match'.phase = match.phase
      /\ match'.winner = match.winner /\ match'.reason = match.reason
  <2> DEFINE age == Older(match.age, AgeLimit(match.phase))
             retry == IF match.phase = "finishing" THEN Older(match.retry, RetryDelay)
                      ELSE match.retry
  <2>1. age \in Nat /\ retry \in Nat
    BY <1>1, <1>2 DEF Matches
  <2>2. match' = [match EXCEPT !.age = age, !.retry = retry]
    BY DEF Tick
  <2> HIDE DEF age, retry
  <2> QED BY <1>1, <2>1, <2>2 DEF Matches
<1>4. peer' \in [Sides -> Peers]
      /\ \A side \in Sides : /\ peer'[side].socket = peer[side].socket
                             /\ peer'[side].ready = peer[side].ready
                             /\ peer'[side].reset = peer[side].reset
                             /\ peer[side].absent # None => peer'[side].absent # None
  <2> DEFINE absent(side) == IF peer[side].absent = None \/ match.phase # "started"
                             THEN peer[side].absent ELSE Older(peer[side].absent, MaxAbsence)
  <2>1. \A side \in Sides : /\ absent(side) \in Nat \cup {None}
                            /\ peer[side].absent # None => absent(side) # None
    BY <1>1, <1>2, NoneAssumption DEF Peers
  <2>2. peer' = [side \in Sides |-> [peer[side] EXCEPT !.absent = absent(side)]]
    BY DEF Tick
  <2> HIDE DEF absent
  <2> QED BY <1>1, <2>1, <2>2 DEF Peers
<1>5. ticket' \in [Sides -> Tickets] /\ \A side \in Sides : ticket'[side] # None => ticket[side] # None
  <2>1. ticket' = [side \in Sides |-> IF ticket[side] = None THEN None
                                      ELSE [ticket[side] EXCEPT !.age = Older(@, TicketLife)]]
    BY DEF Tick
  <2>2. \A t \in Tickets : t # None => [t EXCEPT !.age = Older(@, TicketLife)] \in Tickets
    BY <1>2 DEF Tickets
  <2>3. None \in Tickets
    BY DEF Tickets
  <2> QED BY <1>1, <2>1, <2>2, <2>3
<1>6. UNCHANGED <<conn, active, stored, told>>
  BY DEF Tick
<1>7. World' \in Worlds
  BY <1>1, <1>3, <1>4, <1>5, <1>6 DEF World, Worlds
<1>8. LiveIsSocket(peer, conn, None) /\ TellingFine(match, stored, told)
      /\ \A side \in Sides : SideFine(peer[side], conn, ticket[side], active[side], match.phase,
                                      None, side)
  BY DEF IInv, Fine, World
<1>9. LiveIsSocket(peer', conn', None)
  BY <1>4, <1>6, <1>8 DEF LiveIsSocket
<1>10. \A side \in Sides : SideFine(peer'[side], conn', ticket'[side], active'[side], match'.phase,
                                    None, side)
  BY <1>3, <1>4, <1>5, <1>6, <1>8 DEF SideFine, SocketIsHeld, Timed
<1>11. TellingFine(match', stored', told')
  BY <1>3, <1>6, <1>8 DEF TellingFine
<1> QED BY <1>7, <1>9, <1>10, <1>11, WorldPrimed

-----------------------------------------------------------------------------
(***************************************************************************)
(* What one step may do to the life of the match and to the absences.      *)
(***************************************************************************)
SameLife(w, n) ==
  n.match.phase = w.match.phase /\ n.match.winner = w.match.winner /\ n.stored = w.stored
Cancels(w, n) ==
  /\ w.match.phase = "found" /\ n.match.phase = "reset"
  /\ n.match.winner = w.match.winner /\ n.stored = w.stored
Decides(w, n) ==
  /\ w.match.phase = "started" /\ n.match.winner \in Sides
  /\ \/ n.match.phase = "finishing" /\ n.stored = w.stored
     \/ n.match.phase = "finished" /\ n.stored = n.match.winner
Publishes(w, n) ==
  /\ w.match.phase = "finishing" /\ n.stored = w.match.winner
  /\ \/ n.match.phase = "finished" /\ n.match.winner = w.match.winner
     \/ n.match.phase = "none" /\ n.match.winner = None
Leaves(w, n) ==
  /\ w.match.phase # "none" /\ n.match.phase = "none"
  /\ n.match.winner = None /\ n.stored = w.stored
Starts(w, n) ==
  /\ w.match.phase = "found" /\ n.match.phase = "started"
  /\ n.match.winner = w.match.winner /\ n.stored = w.stored

\* What the deadlines may do.
Sweeps(w, n) ==
  SameLife(w, n) \/ Cancels(w, n) \/ Decides(w, n) \/ Publishes(w, n) \/ Leaves(w, n)

\* Who loses by disconnection was away for the whole grace, and away first.
FairLoss(w, n) ==
  w.match.phase = "started" /\ n.match.reason = "disconnect" =>
    LET loser == Opposite(n.match.winner) IN
    /\ w.peer[loser].absent # None
    /\ w.peer[loser].absent >= ReconnectGrace
    /\ w.peer[n.match.winner].absent # None =>
         w.peer[n.match.winner].absent <= w.peer[loser].absent

GraceKept(w, n) ==
  \A side \in Sides :
    w.peer[side].absent # None /\ n.match.phase = "started" =>
      IF n.peer[side].absent = None
      THEN n.peer[side].ready /\ (w.match.phase = "started" => w.peer[side].absent < ReconnectGrace)
      ELSE n.peer[side].absent >= w.peer[side].absent

Step(w, n) == (Sweeps(w, n) \/ Starts(w, n)) /\ FairLoss(w, n) /\ GraceKept(w, n)

\* The match stays, and no running absence is touched.
Quiet(w, n) ==
  /\ n.match = w.match /\ n.stored = w.stored
  /\ \A side \in Sides : \/ n.peer[side].absent = w.peer[side].absent
                         \/ w.peer[side].absent = None /\ n.peer[side].absent = 0

LEMMA QuietTwice == ASSUME NEW w, NEW x, NEW n, Quiet(w, x), Quiet(x, n) PROVE Quiet(w, n)
BY DEF Quiet

LEMMA QuietCut ==
  ASSUME NEW w \in Worlds, NEW c, NEW n \in {Ended(w, c), Destroyed(w, c)} PROVE Quiet(w, n)
BY CutKeeps DEF Quiet

LEMMA QuietPeer ==
  ASSUME NEW w \in Worlds, NEW side \in Sides, NEW p \in Peers,
         \/ p.absent = w.peer[side].absent
         \/ w.peer[side].absent = None /\ p.absent = 0
  PROVE  Quiet(w, WithPeer(w, side, p))
BY PeerSet DEF Quiet

LEMMA QuietTicket ==
  ASSUME NEW w \in Worlds, NEW side \in Sides, NEW t \in Tickets
  PROVE  Quiet(w, WithTicket(w, side, t))
BY TicketSet DEF Quiet

LEMMA QuietRevoked ==
  ASSUME NEW w \in Worlds, NEW side \in Sides PROVE Quiet(w, RevokedClosed(w, side))
<1> DEFINE g == Gone(w.peer[side], w.match.phase)
           n == WithPeer(w, side, g)
<1>1. w.peer[side] \in Peers
  BY DEF Worlds
<1>2. g \in Peers
  BY <1>1, GoneSet
<1>3. g.absent = Since(w.peer[side].absent, w.match.phase)
  BY <1>1 DEF Gone, Peers
<1>4. Quiet(w, n)
  BY <1>2, <1>3, QuietPeer DEF Since
<1>5. n \in Worlds
  BY <1>2, PeerSet
<1>6. Quiet(n, Destroyed(n, w.peer[side].socket))
  BY <1>5, QuietCut
<1> QED BY <1>4, <1>6, QuietTwice DEF RevokedClosed

LEMMA QuietSent ==
  ASSUME NEW w \in Worlds, NEW side \in Sides, NEW result PROVE Quiet(w, Sent(w, side, result))
<1>1. Quiet(w, w) /\ Quiet(w, [w EXCEPT !.told = [@ EXCEPT ![side] = result]])
  BY DEF Quiet, Worlds
<1> QED BY <1>1, QuietRevoked DEF Sent

LEMMA QuietSentBoth ==
  ASSUME NEW w, NEW shut, Fine(w, None, shut),
         NEW result \in Sides \cup {None}, Tellable(w, result)
  PROVE  Quiet(w, SentBoth(w, result))
<1> DEFINE x == Sent(w, "black", result)
<1>1. w \in Worlds /\ "black" \in Sides /\ "white" \in Sides
  BY DEF Fine, Sides
<1>2. Quiet(w, x) /\ x \in Worlds
  BY <1>1, QuietSent, SentIsFine DEF Fine
<1> HIDE DEF x
<1>3. Quiet(x, Sent(x, "white", result))
  BY <1>1, <1>2, QuietSent
<1> QED BY <1>2, <1>3, QuietTwice DEF SentBoth, x

LEMMA CommittedSteps ==
  ASSUME NEW w, NEW shut, Fine(w, None, shut), w.match.phase = "finishing",
         NEW n \in Committed(w)
  PROVE  /\ n.match.winner = w.match.winner /\ n.match.reason = w.match.reason
         /\ n.match.age = w.match.age /\ n.match.retry = 0
         /\ \/ n.match.phase = "finishing" /\ n.stored = w.stored
            \/ n.match.phase = "finished" /\ n.stored = w.match.winner
<1>1. w \in Worlds /\ w.match \in Matches /\ w.match.winner \in Sides \cup {None}
  BY DEF Fine, Worlds, Matches
<1>2. CASE n = LeftForRetry(w)
  BY <1>1, <1>2 DEF LeftForRetry, Worlds, Matches
<1>3. CASE n = Published(w)
  <2>1. n = SentBoth(Taken(w), w.match.winner)
    BY <1>3 DEF Published, Taken
  <2>2. Quiet(Taken(w), n)
    BY <2>1, TakenIsFine, QuietSentBoth
  <2> QED BY <2>2, TakenIsFine DEF Quiet
<1> QED BY <1>2, <1>3 DEF Committed

LEMMA FinishedSteps ==
  ASSUME NEW w, NEW shut, Fine(w, None, shut), w.match.phase = "started",
         NEW winner \in Sides, NEW reason \in {"play", "resign", "disconnect"},
         NEW n \in Finished(w, winner, reason)
  PROVE  /\ Decides(w, n) /\ n.match.winner = winner /\ n.match.reason = reason
         /\ n.match.age = 0 /\ n.match.retry = 0
<1> DEFINE x == Decided(w, winner, reason)
<1>1. w \in Worlds
  BY DEF Fine
<1>2. Fine(x, None, shut) /\ n \in Committed(x)
  BY DecidedIsFine DEF Finished
<1>3. /\ x.match.phase = "finishing" /\ x.match.winner = winner /\ x.match.reason = reason
      /\ x.match.age = 0 /\ x.stored = w.stored
  BY <1>1 DEF Decided, InPhase, Worlds
<1> HIDE DEF x
<1> QED BY <1>2, <1>3, CommittedSteps DEF Decides

LEMMA EndedTyped == ASSUME NEW w \in Worlds, NEW c PROVE Ended(w, c) \in Worlds
<1>1. ASSUME c \in Conns PROVE [w.conn[c] EXCEPT !.link = "ended"] \in Links
  BY <1>1 DEF Worlds, Links
<1>2. CASE c \in Conns
  BY <1>1, <1>2, ConnSet DEF Ended
<1>3. CASE c \notin Conns
  BY <1>3 DEF Ended, WithConn, Worlds
<1> QED BY <1>2, <1>3

LEMMA JoinSweptSteps ==
  ASSUME NEW w \in Worlds
  PROVE  \/ JoinSwept(w) = w
         \/ /\ JoinSwept(w).match.phase = "reset" /\ JoinSwept(w).match.age = 0
            /\ JoinSwept(w).match.winner = w.match.winner /\ JoinSwept(w).stored = w.stored
<1> DEFINE idle == [side \in Sides |-> FALSE]
           x == [w EXCEPT !.match = [@ EXCEPT !.phase = "reset", !.age = 0],
                          !.ticket = NoTickets, !.active = idle]
           y == Ended(x, x.peer["black"].socket)
<1>1. /\ x.match.phase = "reset" /\ x.match.age = 0 /\ x.match.winner = w.match.winner
      /\ x.stored = w.stored /\ x \in Worlds
  BY DEF Worlds, Matches, Phases, NoTickets, Tickets
<1>2. JoinSwept(w) = w \/ JoinSwept(w) = EndedBoth(x)
  BY DEF JoinSwept
<1> HIDE DEF x
<1>3. y.match = x.match /\ y.stored = x.stored /\ y \in Worlds
  BY <1>1, CutKeeps, EndedTyped
<1> HIDE DEF y
<1>4. \A c : LET z == Ended(y, c) IN z.match = y.match /\ z.stored = y.stored
  BY <1>3, CutKeeps
<1> QED BY <1>1, <1>2, <1>3, <1>4 DEF EndedBoth, y

\* What the deadlines do, and that a match they leave in play is as it was.
LEMMA ExpiredSteps ==
  ASSUME NEW w, NEW shut, Fine(w, None, shut), NEW n \in Expired(w)
  PROVE  /\ Sweeps(w, n) /\ FairLoss(w, n)
         /\ n.match.phase \in {"found", "started"} =>
              /\ Quiet(w, n)
              /\ \A side \in Sides : n.match.phase = "started" /\ n.peer[side].absent # None =>
                   n.peer[side].absent < ReconnectGrace
         /\ w.match.phase \in {"finishing", "finished"} /\ w.match.age = 0 /\ w.match.retry = 0 =>
              n.match = w.match /\ n.stored = w.stored
<1>1. CASE w.match.phase = "none"
  BY <1>1 DEF Expired, Sweeps, SameLife, FairLoss
<1>2. CASE w.match.phase # "none"
  <2> DEFINE b == RevokedSwept(w, "black")
             a == RevokedSwept(b, "white")
  <2>1. PICK r \in RetrySwept(a) : \E p \in AbsenceSwept(JoinSwept(r)) : n = RetentionSwept(p)
    BY <1>2 DEF Expired
  <2>2. PICK p \in AbsenceSwept(JoinSwept(r)) : n = RetentionSwept(p)
    BY <2>1
  <2>3. ASSUME NEW v, Fine(v, None, shut), NEW side \in Sides
        PROVE  Fine(RevokedSwept(v, side), None, shut) /\ Quiet(v, RevokedSwept(v, side))
    <3>1. v \in Worlds /\ Quiet(v, v)
      BY <2>3 DEF Fine, Quiet
    <3> QED BY <2>3, <3>1, RevokedClosedIsFine, QuietRevoked DEF RevokedSwept
  <2>4. Fine(b, None, shut) /\ Quiet(w, b)
    BY <2>3 DEF Sides
  <2> HIDE DEF b
  <2>5. Fine(a, None, shut) /\ Quiet(b, a)
    BY <2>3, <2>4 DEF Sides
  <2>6. Quiet(w, a) /\ a \in Worlds
    BY <2>4, <2>5, QuietTwice DEF Fine
  <2> HIDE DEF a
  <2>7. a.match = w.match /\ a.stored = w.stored /\ w.match.phase \in Phases /\ w.match.age \in Nat
    BY <2>6 DEF Quiet, Worlds, Matches
  <2>8. 0 # RetryDelay /\ 0 # ResultRetention /\ ReconnectGrace \in Nat \ {0}
    BY LimitAssumption
  <2>9. ASSUME NEW v PROVE
          \/ RetentionSwept(v) = v
          \/ /\ RetentionSwept(v) = Forgotten(v)
             /\ v.match.phase \in {"finished", "reset"} /\ v.match.age = ResultRetention
    BY DEF RetentionSwept
  <2>10. ASSUME NEW v \in Worlds
         PROVE  Forgotten(v).match.phase = "none" /\ Forgotten(v).match.winner = None
                /\ Forgotten(v).match.reason = None /\ Forgotten(v).stored = v.stored
    BY DEF Forgotten, InPhase, Worlds
  <2>11. Fine(r, None, shut)
    BY <2>1, <2>5, CommittedIsFine DEF RetrySwept
  <2>12. Fine(JoinSwept(r), None, shut)
    BY <2>11, JoinSweptIsFine
  <2>13. CASE w.match.phase = "found"
    <3>1. r = a
      BY <2>1, <2>7, <2>13 DEF RetrySwept
    <3>2. \/ JoinSwept(r) = a
          \/ /\ JoinSwept(r).match.phase = "reset" /\ JoinSwept(r).match.age = 0
             /\ JoinSwept(r).match.winner = w.match.winner /\ JoinSwept(r).stored = w.stored
      BY <2>6, <2>7, <3>1, JoinSweptSteps
    <3>3. p = JoinSwept(r)
      BY <2>2, <2>7, <2>13, <3>2 DEF AbsenceSwept
    <3>4. n = p
      BY <2>2, <2>7, <2>8, <2>9, <2>13, <3>2, <3>3
    <3> QED BY <2>6, <2>7, <2>13, <3>2, <3>3, <3>4
            DEF Sweeps, SameLife, Cancels, FairLoss
  <2>14. CASE w.match.phase = "started"
    <3>1. r = a /\ JoinSwept(r) = a
      BY <2>1, <2>7, <2>14 DEF RetrySwept, JoinSwept
    <3> DEFINE first == FirstToLeave(a)
    <3>2. first \in Sides /\ Opposite(first) \in Sides /\ Opposite(Opposite(first)) = first
          /\ Opposite(first) # first
      BY DEF FirstToLeave, Opposite, Sides
    <3>3. \A side \in Sides : a.peer[side].absent \in Nat \cup {None}
      BY <2>6 DEF Worlds, Peers
    <3>4. \A side \in Sides : Absence(a, side) \in Nat /\ Absence(a, side) <= Absence(a, first)
      BY <3>3 DEF Absence, FirstToLeave, Sides
    <3>5. CASE Lost(a, first)
      <4>1. p \in Finished(a, Opposite(first), "disconnect")
        BY <2>2, <2>7, <2>14, <3>1, <3>5 DEF AbsenceSwept
      <4>2. /\ Decides(a, p) /\ p.match.winner = Opposite(first) /\ p.match.reason = "disconnect"
            /\ p.match.age = 0
        BY <2>5, <2>7, <2>14, <3>2, <4>1, FinishedSteps
      <4>3. n = p
        BY <2>2, <2>8, <2>9, <4>2
      <4>4. a.peer[first].absent # None /\ a.peer[first].absent >= ReconnectGrace
        BY <2>8, <3>2, <3>3, <3>5 DEF Lost, Absence
      <4>5. w.peer[first].absent = a.peer[first].absent
        BY <2>6, <2>8, <3>2, <4>4 DEF Quiet
      <4>6. w.peer[Opposite(first)].absent # None =>
              w.peer[Opposite(first)].absent <= a.peer[first].absent
        BY <2>6, <3>2, <3>4, <4>4 DEF Quiet, Absence
      <4> HIDE DEF first
      <4>7. FairLoss(w, n)
        BY <3>2, <4>2, <4>3, <4>4, <4>5, <4>6 DEF FairLoss
      <4> QED BY <2>7, <2>14, <4>2, <4>3, <4>7 DEF Sweeps, Decides
    <3>6. CASE ~Lost(a, first)
      <4>1. p = a
        BY <2>2, <3>1, <3>6 DEF AbsenceSwept
      <4>2. n = a
        BY <2>2, <2>7, <2>9, <2>14, <4>1
      <4>3. \A side \in Sides : a.peer[side].absent # None => a.peer[side].absent < ReconnectGrace
        BY <2>8, <3>2, <3>4, <3>6 DEF Lost, Absence
      <4>4. w.match.reason # "disconnect"
        BY <2>14, NoneAssumption DEF Fine, TellingFine
      <4> QED BY <2>6, <2>7, <2>14, <4>2, <4>3, <4>4 DEF Sweeps, SameLife, FairLoss
    <3> QED BY <3>5, <3>6
  <2>15. CASE w.match.phase = "finishing"
    <3>1. \/ r = a
          \/ /\ w.match.retry = RetryDelay /\ r \in Committed(a)
      BY <2>1, <2>7, <2>15 DEF RetrySwept
    <3>2. /\ r.match.winner = w.match.winner
          /\ w.match.age = 0 /\ w.match.retry = 0 => r = a
          /\ \/ r.match.phase = "finishing" /\ r.stored = w.stored
             \/ r.match.phase = "finished" /\ r.stored = w.match.winner
      BY <2>5, <2>7, <2>8, <2>15, <3>1, CommittedSteps
    <3>3. JoinSwept(r) = r /\ p = r
      BY <2>2, <3>2 DEF JoinSwept, AbsenceSwept
    <3>4. n = r \/ (r.match.phase = "finished" /\ n = Forgotten(r))
      BY <2>2, <2>9, <3>2, <3>3
    <3>5. r \in Worlds
      BY <2>11 DEF Fine
    <3>6. Sweeps(w, n) /\ n.match.phase \notin {"found", "started"}
      BY <2>10, <2>15, <3>2, <3>4, <3>5 DEF Sweeps, SameLife, Publishes
    <3>7. w.match.age = 0 /\ w.match.retry = 0 => n.match = w.match /\ n.stored = w.stored
      BY <2>7, <2>15, <3>2, <3>4
    <3> QED BY <2>15, <3>6, <3>7 DEF FairLoss
  <2>16. CASE w.match.phase \in {"finished", "reset"}
    <3>1. r = a /\ JoinSwept(r) = a /\ p = a
      BY <2>1, <2>2, <2>7, <2>16 DEF RetrySwept, JoinSwept, AbsenceSwept
    <3>2. n = a \/ (n = Forgotten(a) /\ w.match.age # 0)
      BY <2>2, <2>7, <2>8, <2>9, <3>1
    <3>3. Sweeps(w, n) /\ n.match.phase \notin {"found", "started"}
      BY <2>6, <2>7, <2>10, <2>16, <3>2 DEF Sweeps, SameLife, Leaves
    <3> QED BY <2>7, <2>16, <3>2, <3>3 DEF FairLoss
  <2> QED BY <1>2, <2>7, <2>13, <2>14, <2>15, <2>16 DEF Phases
<1> QED BY <1>1, <1>2

\* A handler that leaves the match alone after the deadlines were applied.
LEMMA QuietAfter ==
  ASSUME NEW w, NEW shut, Fine(w, None, shut), NEW x \in Expired(w), NEW n, Quiet(x, n)
  PROVE  Step(w, n)
<1>1. /\ Sweeps(w, x) /\ FairLoss(w, x)
      /\ x.match.phase = "started" => Quiet(w, x)
  BY ExpiredSteps
<1>2. n.match = x.match /\ n.stored = x.stored
  BY DEF Quiet
<1>3. Sweeps(w, n) /\ FairLoss(w, n)
  BY <1>1, <1>2 DEF Sweeps, SameLife, Cancels, Decides, Publishes, Leaves, FairLoss
<1>4. GraceKept(w, n)
  <2> SUFFICES ASSUME NEW side \in Sides, w.peer[side].absent # None, n.match.phase = "started"
               PROVE  n.peer[side].absent = w.peer[side].absent /\ w.peer[side].absent \in Nat
    BY DEF GraceKept
  <2>1. Quiet(w, n)
    BY <1>1, <1>2, QuietTwice
  <2>2. w.peer[side].absent \in Nat \cup {None}
    BY DEF Fine, Worlds, Peers
  <2> QED BY <2>1, <2>2 DEF Quiet
<1> QED BY <1>3, <1>4 DEF Step

LEMMA QuietStep ==
  ASSUME NEW w, NEW shut, Fine(w, None, shut), NEW n, Quiet(w, n) PROVE Step(w, n)
<1>1. Sweeps(w, n)
  BY DEF Sweeps, SameLife, Quiet
<1>2. FairLoss(w, n)
  BY NoneAssumption DEF FairLoss, Quiet, Fine, TellingFine
<1>3. GraceKept(w, n)
  <2>1. \A side \in Sides : w.peer[side].absent \in Nat \cup {None}
    BY DEF Fine, Worlds, Peers
  <2> QED BY <2>1 DEF GraceKept, Quiet
<1> QED BY <1>1, <1>2, <1>3 DEF Step

\* A handler that decides the match, but not by disconnection.
LEMMA DecidesStep ==
  ASSUME NEW w, NEW n, Decides(w, n), n.match.reason \in {"play", "resign"}
  PROVE  Step(w, n)
BY DEF Decides, Step, Sweeps, FairLoss, GraceKept

\* Only match, stored outcome and absences matter for a step.
LEMMA StepFrom ==
  ASSUME NEW w, NEW x, NEW n, Step(x, n),
         x.match = w.match, x.stored = w.stored, x.peer = w.peer
  PROVE  Step(w, n)
BY DEF Step, Sweeps, SameLife, Cancels, Decides, Publishes, Leaves, Starts, FairLoss, GraceKept

LEMMA BecomesStep ==
  ASSUME NEW w, NEW shut, Fine(w, None, shut), Becomes(w), Step(World, w)
  PROVE  Step(World, World')
<1>1. World' = w
  BY DEF World, Becomes, Fine, Worlds
<1> QED BY <1>1

LEMMA SweptStep ==
  ASSUME NEW w, NEW shut, Fine(w, None, shut), NEW x \in Swept(w), NEW n, Quiet(x, n)
  PROVE  Step(w, n)
BY SweptSteps, QuietAfter, StepFrom

LEMMA IssueTicketSteps ==
  ASSUME IInv, NEW b \in Bearers, IssueTicket(b) PROVE Step(World, World')
<1> DEFINE side == Owner[b]
           t == [bearer |-> b, age |-> 0]
<1>1. PICK w \in Swept(World) : Becomes(WithTicket(w, side, t))
  BY DEF IssueTicket
<1>2. Fine(w, None, {}) /\ w \in Worlds
  <2>1. Fine(w, None, {})
    BY <1>1, SweptIsFine DEF IInv
  <2> QED BY <2>1 DEF Fine
<1>3. side \in Sides /\ t \in Tickets
  BY OwnerAssumption DEF Tickets
<1> HIDE DEF side, t
<1> DEFINE n == WithTicket(w, side, t)
<1>4. Quiet(w, n) /\ n \in Worlds
  BY <1>2, <1>3, QuietTicket, TicketSet
<1> HIDE DEF n
<1>5. Step(World, n)
  BY <1>1, <1>4, SweptStep DEF IInv
<1>6. World' = n
  BY <1>1, <1>4 DEF n, World, Becomes, Worlds
<1> QED BY <1>5, <1>6

LEMMA DismissSteps ==
  ASSUME IInv, NEW b \in Bearers, Dismiss(b) PROVE Step(World, World')
<1> DEFINE side == Owner[b]
           w == World
           p == [w.peer[side] EXCEPT !.reset = TRUE]
           x == WithTicket(w, side, None)
           y == WithPeer(x, side, p)
           n == [y EXCEPT !.active = [@ EXCEPT ![side] = FALSE]]
           z == Ended(n, w.peer[side].socket)
<1>1. Becomes(z)
  BY DEF Dismiss, Dismissed
<1>2. Fine(w, None, {}) /\ w \in Worlds /\ w.match.phase \in {"finished", "reset"}
  BY DEF IInv, Fine, Dismiss, World
<1>3. side \in Sides /\ w.peer[side] \in Peers
  BY <1>2, OwnerAssumption DEF Worlds
<1> HIDE DEF side, w
<1>4. p \in Peers /\ None \in Tickets
  BY <1>3 DEF Peers, Tickets
<1>5. x \in Worlds /\ x.match = w.match /\ x.stored = w.stored
  BY <1>2, <1>3, <1>4, TicketSet
<1> HIDE DEF x, p
<1>6. y \in Worlds /\ y.match = w.match /\ y.stored = w.stored
  BY <1>3, <1>4, <1>5, PeerSet
<1> HIDE DEF y
<1>7. n \in Worlds /\ n.match = w.match /\ n.stored = w.stored
  BY <1>6 DEF Worlds
<1> HIDE DEF n
<1>8. z \in Worlds /\ z.match = w.match /\ z.stored = w.stored
  BY <1>7, CutKeeps, EndedTyped
<1> HIDE DEF z
<1>9. World' = z
  BY <1>1, <1>8 DEF World, Becomes, Worlds
<1>10. Step(w, z)
  BY <1>2, <1>8 DEF Step, Sweeps, SameLife, FairLoss, GraceKept
<1> QED BY <1>9, <1>10 DEF w

LEMMA BoundIsQuiet ==
  ASSUME NEW w \in Worlds, NEW c \in Conns, NEW side \in Sides, w.ticket[side] # None
  PROVE  Quiet(w, Bound(w, c, side))
<1> DEFINE k == [link |-> "open", side |-> side]
           q == w.peer[side]
           p == LoggedIn(q, c, w.ticket[side].bearer, w.match.phase)
           x == WithTicket(w, side, None)
           y == WithConn(x, c, k)
           n == WithPeer(y, side, p)
<1>1. q \in Peers /\ w.ticket[side].bearer \in Bearers
  BY DEF Worlds, Tickets
<1>2. None \in Tickets /\ k \in Links
  BY DEF Tickets, Links
<1>3. /\ p \in Peers
      /\ p.absent = q.absent \/ (q.absent = None /\ p.absent = 0)
  <2> DEFINE absent == Since(q.absent, w.match.phase)
             bearer == w.ticket[side].bearer
  <2>1. /\ absent \in Nat \cup {None}
        /\ absent = q.absent \/ (q.absent = None /\ absent = 0)
    BY <1>1 DEF Since, Peers
  <2>2. p = [q EXCEPT !.socket = c, !.ready = FALSE, !.bearer = bearer, !.absent = absent]
    BY DEF LoggedIn
  <2>3. bearer \in Bearers
    BY <1>1
  <2> HIDE DEF absent, bearer, q
  <2> QED BY <1>1, <2>1, <2>2, <2>3 DEF Peers
<1>4. x \in Worlds /\ x.peer = w.peer /\ x.match = w.match /\ x.stored = w.stored
  BY <1>2, TicketSet
<1> HIDE DEF x, p, k
<1>5. y \in Worlds /\ y.peer = w.peer /\ y.match = w.match /\ y.stored = w.stored
  BY <1>2, <1>4, ConnSet
<1> HIDE DEF y
<1>6. n \in Worlds /\ Quiet(y, n)
  BY <1>3, <1>5, PeerSet, QuietPeer
<1> HIDE DEF n
<1>7. Quiet(w, n)
  BY <1>5, <1>6 DEF Quiet
<1>8. Quiet(n, Destroyed(n, q.socket))
  BY <1>6, QuietCut
<1>9. Bound(w, c, side) = Destroyed(n, q.socket)
  BY DEF Bound, n, y, x, p, k
<1> QED BY <1>7, <1>8, <1>9, QuietTwice

LEMMA LoginSteps ==
  ASSUME IInv, NEW c \in Conns, NEW side \in Sides, Login(c, side) PROVE Step(World, World')
<1>1. PICK w \in Expired(World) :
        Becomes(IF Accepts(w, side) THEN Bound(w, c, side) ELSE WithTicket(w, side, None))
  BY DEF Login
<1>2. Fine(World, None, {c})
  BY DEF IInv, Fine, Login, World
<1>3. Fine(w, None, {c}) /\ w \in Worlds
  <2>1. Fine(w, None, {c})
    BY <1>1, <1>2, ExpiredIsFine
  <2> QED BY <2>1 DEF Fine
<1>4. None \in Tickets
  BY DEF Tickets
<1>5. CASE Accepts(w, side)
  <2> DEFINE n == Bound(w, c, side)
  <2>1. w.ticket[side] # None /\ ~w.peer[side].reset
    BY <1>5 DEF Accepts, TicketLives
  <2>2. Fine(n, None, {})
    BY <1>3, <2>1, BoundIsFine
  <2>3. Quiet(w, n)
    BY <1>3, <2>1, BoundIsQuiet
  <2>4. Becomes(n)
    BY <1>1, <1>5
  <2> HIDE DEF n
  <2> QED BY <1>1, <1>2, <2>2, <2>3, <2>4, QuietAfter, BecomesStep
<1>6. CASE ~Accepts(w, side)
  <2> DEFINE n == WithTicket(w, side, None)
  <2>1. Quiet(w, n) /\ n \in Worlds
    BY <1>3, <1>4, QuietTicket, TicketSet
  <2>2. Becomes(n)
    BY <1>1, <1>6
  <2> HIDE DEF n
  <2>3. World' = n
    BY <2>1, <2>2 DEF World, Becomes, Worlds
  <2> QED BY <1>1, <1>2, <2>1, <2>3, QuietAfter
<1> QED BY <1>5, <1>6

LEMMA RefusedLineSteps ==
  ASSUME IInv, NEW c \in Conns, RefusedLine(c) PROVE Step(World, World')
<1>1. PICK w \in Expired(World) : Becomes(Refused(w, c, conn[c].side))
  BY DEF RefusedLine
<1> DEFINE n == Refused(w, c, conn[c].side)
<1>2. Fine(World, None, {})
  BY DEF IInv
<1>3. Fine(w, None, {}) /\ w \in Worlds
  <2>1. Fine(w, None, {})
    BY <1>1, <1>2, ExpiredIsFine
  <2> QED BY <2>1 DEF Fine
<1>4. conn[c].side \in Sides
  BY NoneAssumption DEF IInv, Fine, LiveIsSocket, Live, World, RefusedLine
<1>5. Fine(n, None, {})
  BY <1>3, <1>4, RevokedClosedIsFine, AnyCutIsFine DEF Refused
<1>6. Quiet(w, w)
  BY DEF Quiet
<1>7. Quiet(w, n)
  BY <1>3, <1>4, <1>6, QuietRevoked, QuietCut DEF Refused
<1> HIDE DEF n
<1> QED BY <1>1, <1>2, <1>5, <1>7, QuietAfter, BecomesStep DEF n

LEMMA RejectSteps ==
  ASSUME IInv, NEW c \in Conns, Reject(c) PROVE Step(World, World')
<1>1. PICK w \in Expired(World) :
        LET side == w.conn[c].side IN
        /\ Obeyed(w, c)
        /\ Becomes(Ended(WithPeer(w, side, [w.peer[side] EXCEPT !.ready = FALSE]), c))
  BY DEF Reject
<1> DEFINE side == w.conn[c].side
           p == [w.peer[side] EXCEPT !.ready = FALSE]
           n == WithPeer(w, side, p)
           z == Ended(n, c)
<1>2. w \in Expired(World) /\ Obeyed(w, c) /\ Becomes(z)
  BY <1>1
<1>3. Fine(World, None, {})
  BY DEF IInv
<1>4. Fine(w, None, {}) /\ w \in Worlds
  <2>1. Fine(w, None, {})
    BY <1>2, <1>3, ExpiredIsFine
  <2> QED BY <2>1 DEF Fine
<1>5. side \in Sides /\ w.peer[side] \in Peers
  BY <1>2, <1>4, ObeyedLine DEF Worlds
<1>6. p \in Peers /\ p.absent = w.peer[side].absent
  BY <1>5 DEF Peers
<1>7. Quiet(w, n) /\ n \in Worlds
  BY <1>4, <1>5, <1>6, QuietPeer, PeerSet
<1> HIDE DEF n
<1>8. Quiet(n, z) /\ z \in Worlds
  BY <1>7, QuietCut, EndedTyped
<1> HIDE DEF z
<1>9. Quiet(w, z)
  BY <1>7, <1>8, QuietTwice
<1>10. World' = z
  BY <1>2, <1>8 DEF World, Becomes, Worlds
<1> QED BY <1>2, <1>3, <1>9, <1>10, QuietAfter

LEMMA PlayedSteps ==
  ASSUME NEW w, Fine(w, None, {}), w.match.phase = "started",
         NEW winner \in Sides \cup {None}, NEW reason \in {"play", "resign"},
         NEW x \in Played(w, winner, reason)
  PROVE  Quiet(w, x) \/ (Decides(w, x) /\ x.match.reason \in {"play", "resign"})
<1>1. CASE winner = None
  BY <1>1, QuietSentBoth DEF Played, Tellable
<1>2. CASE winner # None
  BY <1>2, FinishedSteps DEF Played
<1> QED BY <1>1, <1>2

LEMMA CommandSteps ==
  ASSUME IInv, NEW c \in Conns, NEW winner \in Sides \cup {None},
         NEW reason \in {"play", "resign"}, Command(c, winner, reason)
  PROVE  Step(World, World')
<1>1. PICK w \in Expired(World) :
        w.match.phase = "started" /\ \E x \in Played(w, winner, reason) : Becomes(x)
  BY DEF Command
<1>2. PICK x \in Played(w, winner, reason) : Becomes(x)
  BY <1>1
<1>3. Fine(World, None, {}) /\ Fine(w, None, {})
  BY <1>1, ExpiredIsFine DEF IInv
<1>4. Fine(x, None, {})
  BY <1>1, <1>2, <1>3, PlayedIsFine
<1>5. CASE Quiet(w, x)
  BY <1>1, <1>2, <1>3, <1>4, <1>5, QuietAfter, BecomesStep
<1>6. CASE Decides(w, x) /\ x.match.reason \in {"play", "resign"}
  <2>1. w.match = World.match /\ w.stored = World.stored
    BY <1>1, <1>3, ExpiredSteps DEF Quiet
  <2>2. Decides(World, x)
    BY <1>6, <2>1 DEF Decides
  <2> QED BY <1>2, <1>4, <1>6, <2>2, DecidesStep, BecomesStep
<1> QED BY <1>1, <1>2, <1>3, <1>5, <1>6, PlayedSteps

LEMMA ContinuationSteps ==
  ASSUME IInv, NEW winner \in Sides \cup {None}, Continuation(winner) PROVE Step(World, World')
<1>1. World.match.phase = "started"
  BY DEF Continuation, World
<1>2. PICK x \in Played(World, winner, "play") : Becomes(x)
  BY DEF Continuation
<1>3. Fine(World, None, {})
  BY DEF IInv
<1>4. Fine(x, None, {})
  BY <1>1, <1>2, <1>3, PlayedIsFine
<1>5. Step(World, x)
  BY <1>1, <1>2, <1>3, PlayedSteps, QuietStep, DecidesStep
<1> QED BY <1>2, <1>4, <1>5, BecomesStep

LEMMA TimerTickSteps ==
  ASSUME IInv, NEW winner \in Sides \cup {None}, TimerTick(winner) PROVE Step(World, World')
<1>1. PICK w \in IF winner = None THEN {World} ELSE Finished(World, winner, "play") :
        \E x \in Swept(w) : Becomes(x)
  BY DEF TimerTick
<1>2. PICK x \in Swept(w) : Becomes(x)
  BY <1>1
<1>3. Fine(World, None, {}) /\ World.match.phase # "none"
  BY DEF IInv, TimerTick, World
<1>4. Fine(w, None, {})
  BY <1>1, <1>3, FinishedIsFine
<1>5. Fine(x, None, {})
  BY <1>2, <1>4, SweptIsFine
<1>6. CASE winner = None
  <2>1. w = World /\ Quiet(x, x)
    BY <1>1, <1>6 DEF Quiet
  <2> QED BY <1>2, <1>3, <1>5, <2>1, SweptStep, BecomesStep
<1>7. CASE winner # None
  <2>1. World.match.phase = "started"
    BY <1>7 DEF TimerTick, World
  <2>2. /\ Decides(World, w) /\ w.match.reason = "play"
        /\ w.match.age = 0 /\ w.match.retry = 0
    BY <1>1, <1>3, <1>7, <2>1, FinishedSteps
  <2>3. PICK v : Fine(v, None, {}) /\ x \in Expired(v) /\ v.match = w.match /\ v.stored = w.stored
    BY <1>2, <1>4, SweptSteps
  <2>4. x.match = w.match /\ x.stored = w.stored
    BY <2>2, <2>3, ExpiredSteps DEF Decides
  <2>5. Decides(World, x) /\ x.match.reason = "play"
    BY <2>2, <2>4 DEF Decides
  <2> QED BY <1>2, <1>5, <2>5, DecidesStep, BecomesStep
<1> QED BY <1>6, <1>7

LEMMA PlayGameSteps ==
  ASSUME IInv, NEW c \in Conns, NEW winner \in Sides \cup {None}, PlayGame(c, winner)
  PROVE  Step(World, World')
<1>1. PICK w \in Expired(World) :
        LET side == w.conn[c].side
            ready == WithPeer(w, side, [w.peer[side] EXCEPT !.ready = TRUE, !.absent = None]) IN
        /\ Obeyed(w, c)
        /\ \/ /\ w.match.phase = "found" /\ winner = None
              /\ Becomes(IF \A other \in Sides : ready.peer[other].ready
                         THEN [ready EXCEPT !.match = InPhase("started")] ELSE ready)
           \/ /\ w.match.phase = "started" /\ winner # None
              /\ \E x \in Finished(ready, winner, "play") : Becomes(x)
           \/ /\ w.match.phase # "found" /\ winner = None
              /\ Becomes(IF w.match.phase = "finished" THEN Sent(ready, side, w.match.winner)
                         ELSE ready)
  BY DEF PlayGame
<1> DEFINE side == w.conn[c].side
           p == [w.peer[side] EXCEPT !.ready = TRUE, !.absent = None]
           ready == WithPeer(w, side, p)
<1>2. Fine(World, None, {}) /\ Fine(w, None, {}) /\ w \in Worlds
  <2>1. w \in Expired(World)
    BY <1>1
  <2>2. Fine(w, None, {})
    BY <2>1, ExpiredIsFine DEF IInv
  <2> QED BY <2>2 DEF Fine, IInv
<1>3. side \in Sides /\ w.peer[side].socket = c /\ w.peer[side] \in Peers
  BY <1>1, <1>2, ObeyedLine DEF Worlds
<1>4. p \in Peers /\ p.ready /\ p.absent = None /\ p.socket = c /\ p.reset = w.peer[side].reset
  BY <1>3 DEF Peers
<1>5. /\ w \in Expired(World)
      /\ \/ /\ w.match.phase = "found" /\ winner = None
            /\ Becomes(IF \A other \in Sides : ready.peer[other].ready
                       THEN [ready EXCEPT !.match = InPhase("started")] ELSE ready)
         \/ /\ w.match.phase = "started" /\ winner # None
            /\ \E x \in Finished(ready, winner, "play") : Becomes(x)
         \/ /\ w.match.phase # "found" /\ winner = None
            /\ Becomes(IF w.match.phase = "finished" THEN Sent(ready, side, w.match.winner)
                       ELSE ready)
  BY <1>1
<1> HIDE DEF p
<1>6. /\ ready.match = w.match /\ ready.stored = w.stored /\ ready \in Worlds
      /\ ready.peer[side].absent = None /\ ready.peer[side].ready
      /\ \A other \in Sides \ {side} : ready.peer[other] = w.peer[other]
  BY <1>2, <1>3, <1>4, PeerSet
<1>7. Fine(ready, None, {})
  BY <1>2, <1>3, <1>4, NoneAssumption, PeerIsFine DEF Timed
<1> HIDE DEF ready
<1>8. /\ Sweeps(World, w) /\ FairLoss(World, w)
      /\ w.match.phase \in {"found", "started"} =>
           /\ Quiet(World, w)
           /\ \A s \in Sides : w.match.phase = "started" /\ w.peer[s].absent # None =>
                w.peer[s].absent < ReconnectGrace
  BY <1>2, <1>5, ExpiredSteps
\* What coming back in time leaves of the absences.
<1>9. ASSUME NEW n, n.peer = ready.peer, w.match.phase \in {"found", "started"}
      PROVE  GraceKept(World, n)
  <2> SUFFICES ASSUME NEW s \in Sides, World.peer[s].absent # None
               PROVE  IF n.peer[s].absent = None
                      THEN /\ n.peer[s].ready
                           /\ World.match.phase = "started" => World.peer[s].absent < ReconnectGrace
                      ELSE n.peer[s].absent >= World.peer[s].absent
    BY DEF GraceKept
  <2>1. w.peer[s].absent = World.peer[s].absent /\ w.match = World.match
    BY <1>8, <1>9 DEF Quiet
  <2>2. World.peer[s].absent \in Nat \cup {None}
    BY <1>2 DEF Fine, Worlds, Peers
  <2>3. CASE s = side
    BY <1>6, <1>8, <1>9, <2>1, <2>3
  <2>4. CASE s # side
    BY <1>6, <1>9, <2>1, <2>2, <2>4
  <2> QED BY <2>3, <2>4
<1>10. CASE w.match.phase = "found" /\ winner = None
  <2>1. World.match = w.match /\ World.stored = w.stored
    BY <1>8, <1>10 DEF Quiet
  <2>2. w.match.winner = None
    BY <1>2, <1>10 DEF Fine, TellingFine
  <2>3. ASSUME NEW n, n \in Worlds, Becomes(n), n.peer = ready.peer, n.stored = w.stored,
               \/ n.match = w.match
               \/ n.match.phase = "started" /\ n.match.winner = None
        PROVE  Step(World, World')
    <3>1. World' = n
      BY <2>3 DEF World, Becomes, Worlds
    <3>2. Sweeps(World, n) \/ Starts(World, n)
      BY <1>10, <2>1, <2>2, <2>3 DEF Sweeps, SameLife, Starts
    <3>3. FairLoss(World, n) /\ GraceKept(World, n)
      BY <1>9, <1>10, <2>1, <2>3 DEF FairLoss
    <3> QED BY <3>1, <3>2, <3>3 DEF Step
  <2>4. CASE Becomes(ready)
    BY <1>6, <2>3, <2>4
  <2>5. CASE Becomes([ready EXCEPT !.match = InPhase("started")])
    <3> DEFINE m == InPhase("started")
               n == [ready EXCEPT !.match = m]
    <3>1. m \in Matches /\ m.phase = "started" /\ m.winner = None
      BY DEF InPhase, Matches, Phases
    <3> HIDE DEF m
    <3>2. n \in Worlds /\ n.peer = ready.peer /\ n.stored = w.stored /\ n.match = m
      BY <1>6, <3>1 DEF Worlds
    <3>3. Becomes(n)
      BY <2>5 DEF m
    <3> HIDE DEF n
    <3> QED BY <2>3, <3>1, <3>2, <3>3
  <2> QED BY <1>5, <1>10, <2>4, <2>5
<1>11. CASE w.match.phase = "started" /\ winner # None
  <2>1. PICK x \in Finished(ready, winner, "play") : Becomes(x)
    BY <1>5, <1>11
  <2>2. Decides(ready, x) /\ x.match.reason = "play" /\ Fine(x, None, {})
    BY <1>6, <1>7, <1>11, <2>1, FinishedSteps, FinishedIsFine
  <2>3. Decides(World, x)
    BY <1>6, <1>8, <1>11, <2>2 DEF Decides, Quiet
  <2> QED BY <2>1, <2>2, <2>3, DecidesStep, BecomesStep
<1>12. CASE w.match.phase # "found" /\ winner = None
  <2> DEFINE n == IF w.match.phase = "finished" THEN Sent(ready, side, w.match.winner) ELSE ready
  <2>1. Becomes(n)
    BY <1>5, <1>12
  <2>2. w.match.winner \in Sides \cup {None}
    BY <1>2 DEF Worlds, Matches
  <2>3. w.match.phase = "finished" => Tellable(ready, w.match.winner)
    BY <1>2, <1>6 DEF Fine, TellingFine, Tellable
  <2>4. Fine(n, None, {}) /\ n.match = w.match /\ n.stored = w.stored
    BY <1>3, <1>6, <1>7, <2>2, <2>3, SentIsFine
  <2>5. w.match.phase = "started" => n.peer = ready.peer
    OBVIOUS
  <2> HIDE DEF n
  <2>6. Sweeps(World, n) /\ FairLoss(World, n)
    BY <1>8, <2>4 DEF Sweeps, SameLife, Cancels, Decides, Publishes, Leaves, FairLoss
  <2>7. GraceKept(World, n)
    <3>1. CASE w.match.phase = "started"
      BY <1>9, <2>5, <3>1
    <3>2. CASE w.match.phase # "started"
      BY <2>4, <3>2 DEF GraceKept
    <3> QED BY <3>1, <3>2
  <2> QED BY <2>1, <2>4, <2>6, <2>7, BecomesStep DEF Step
<1> QED BY <1>5, <1>10, <1>11, <1>12

LEMMA CloseEventSteps ==
  ASSUME IInv, NEW c \in Conns, CloseEvent(c) PROVE Step(World, World')
<1>1. peer \in [Sides -> Peers]
  BY WorldTyped
<1>2. /\ peer' = [side \in Sides |-> IF peer[side].socket = c
                                    THEN Gone(peer[side], match.phase) ELSE peer[side]]
      /\ match' = match /\ stored' = stored
  BY DEF CloseEvent
<1>3. \A side \in Sides : Gone(peer[side], match.phase).absent = Since(peer[side].absent, match.phase)
  BY <1>1 DEF Gone, Peers
<1>4. \A side \in Sides : \/ peer'[side].absent = peer[side].absent
                          \/ peer[side].absent = None /\ peer'[side].absent = 0
  BY <1>2, <1>3 DEF Since
<1>5. Quiet(World, World')
  BY <1>2, <1>4 DEF Quiet, World
<1> QED BY <1>5, QuietStep DEF IInv

LEMMA TickSteps == ASSUME IInv, Tick PROVE Step(World, World')
<1>1. match \in Matches /\ peer \in [Sides -> Peers]
  BY WorldTyped
<1>2. /\ match'.phase = match.phase /\ match'.winner = match.winner
      /\ match'.reason = match.reason /\ stored' = stored
  BY <1>1 DEF Tick, Matches
<1>3. \A side \in Sides : peer[side].absent # None =>
        peer'[side].absent # None /\ peer'[side].absent >= peer[side].absent
  <2> SUFFICES ASSUME NEW side \in Sides, peer[side].absent # None
               PROVE  peer'[side].absent # None /\ peer'[side].absent >= peer[side].absent
    OBVIOUS
  <2> DEFINE absent == IF peer[side].absent = None \/ match.phase # "started"
                       THEN peer[side].absent ELSE Older(peer[side].absent, MaxAbsence)
  <2>1. peer[side].absent \in Nat /\ peer[side] \in Peers
    BY <1>1 DEF Peers
  <2>2. absent \in Nat /\ absent >= peer[side].absent
    BY <2>1 DEF Older
  <2>3. peer'[side] = [peer[side] EXCEPT !.absent = absent]
    BY DEF Tick
  <2> HIDE DEF absent
  <2> QED BY <2>1, <2>2, <2>3, NoneAssumption DEF Peers
<1>4. match.phase = "started" => match.reason # "disconnect"
  BY NoneAssumption DEF IInv, Fine, TellingFine, World
<1>5. Sweeps(World, World') /\ FairLoss(World, World')
  BY <1>2, <1>4 DEF Sweeps, SameLife, FairLoss, World
<1>6. GraceKept(World, World')
  BY <1>3 DEF GraceKept, World
<1> QED BY <1>5, <1>6 DEF Step

LEMMA CrashSteps == ASSUME IInv, Crash PROVE Step(World, World')
<1> DEFINE n == Forgotten(World)
<1>1. Fine(n, None, {})
  BY ForgottenIsFine DEF IInv
<1>2. /\ n.match.phase = "none" /\ n.match.winner = None /\ n.match.reason = None
      /\ n.stored = World.stored
  BY DEF Forgotten, InPhase, IInv, Fine, Worlds
<1>3. World.match.phase # "none" /\ Becomes(n)
  BY DEF Crash, World
<1> HIDE DEF n
<1>4. Step(World, n)
  BY <1>2, <1>3, NoneAssumption DEF Step, Sweeps, Leaves, FairLoss, GraceKept
<1> QED BY <1>1, <1>3, <1>4, BecomesStep

LEMMA NextSteps == IInv /\ [Next]_vars => Step(World, World')
<1> SUFFICES ASSUME IInv, [Next]_vars PROVE Step(World, World')
  OBVIOUS
<1>1. ASSUME NEW b \in Bearers, IssueTicket(b) \/ Dismiss(b) PROVE Step(World, World')
  BY <1>1, IssueTicketSteps, DismissSteps
<1>2. CASE UNCHANGED <<match, peer, conn, ticket, active, stored, told>>
  <2>1. Quiet(World, World')
    BY <1>2 DEF Quiet, World
  <2> QED BY <2>1, QuietStep DEF IInv
<1>3. ASSUME NEW c \in Conns, NEW side \in Sides, Login(c, side) PROVE Step(World, World')
  BY <1>3, LoginSteps
<1>4. ASSUME NEW c \in Conns, RefusedLine(c) \/ Reject(c) \/ CloseEvent(c)
      PROVE  Step(World, World')
  BY <1>4, RefusedLineSteps, RejectSteps, CloseEventSteps
<1>5. ASSUME NEW c \in Conns, NEW winner \in Sides \cup {None},
             \/ PlayGame(c, winner)
             \/ \E reason \in {"play", "resign"} : Command(c, winner, reason)
      PROVE  Step(World, World')
  BY <1>5, PlayGameSteps, CommandSteps
<1>6. ASSUME NEW winner \in Sides \cup {None}, Continuation(winner) \/ TimerTick(winner)
      PROVE  Step(World, World')
  BY <1>6, ContinuationSteps, TimerTickSteps
<1>7. ASSUME NEW b \in Bearers, Revoke(b)
      PROVE  UNCHANGED <<match, peer, conn, ticket, active, stored, told>>
  BY <1>7 DEF Revoke
<1>8. UNCHANGED vars => UNCHANGED <<match, peer, conn, ticket, active, stored, told>>
  BY DEF vars
<1> QED BY <1>1, <1>2, <1>3, <1>4, <1>5, <1>6, <1>7, <1>8, TickSteps, CrashSteps DEF Next

-----------------------------------------------------------------------------
(***************************************************************************)
(* The theorems.                                                           *)
(***************************************************************************)
LEMMA InitIsFine == Init => IInv
<1> SUFFICES ASSUME Init PROVE IInv
  OBVIOUS
<1>1. match \in Matches /\ match.phase = "found" /\ match.winner = None
  BY DEF Init, InPhase, Matches, Phases
<1>2. peer \in [Sides -> Peers]
      /\ \A side \in Sides : peer[side].socket = None /\ ~peer[side].ready
  BY DEF Init, NoPeers, Peers
<1>3. conn \in [Conns -> Links] /\ \A c \in Conns : conn[c].link = "closed"
  BY DEF Init, NoConns, Links
<1>4. ticket \in [Sides -> Tickets] /\ \A side \in Sides : ticket[side] = None
  BY DEF Init, NoTickets, Tickets
<1>5. active \in [Sides -> BOOLEAN] /\ stored = None
      /\ told \in [Sides -> Sides \cup {None}] /\ \A side \in Sides : told[side] = None
  BY DEF Init
<1>6. World \in Worlds
  BY <1>1, <1>2, <1>3, <1>4, <1>5 DEF World, Worlds
<1>7. LiveIsSocket(peer, conn, None)
  BY <1>3 DEF LiveIsSocket, Live
<1>8. \A side \in Sides : SideFine(peer[side], conn, ticket[side], active[side], match.phase,
                                   None, side)
  BY <1>1, <1>2, <1>4 DEF SideFine, SocketIsHeld
<1>9. TellingFine(match, stored, told)
  BY <1>1, <1>5 DEF TellingFine
<1> QED BY <1>6, <1>7, <1>8, <1>9 DEF IInv, Fine, World

LEMMA NextIsFine == IInv /\ [Next]_vars => IInv'
<1> SUFFICES ASSUME IInv, [Next]_vars PROVE IInv'
  OBVIOUS
<1>1. ASSUME NEW b \in Bearers, IssueTicket(b) \/ Dismiss(b) PROVE IInv'
  BY <1>1, IssueTicketIsFine, DismissIsFine
<1>2. ASSUME NEW b \in Bearers, Revoke(b) PROVE IInv'
  BY <1>2 DEF Revoke, IInv, World
<1>3. ASSUME NEW c \in Conns, NEW side \in Sides, Login(c, side) PROVE IInv'
  BY <1>3, LoginIsFine
<1>4. ASSUME NEW c \in Conns, RefusedLine(c) \/ Reject(c) \/ CloseEvent(c) PROVE IInv'
  BY <1>4, RefusedLineIsFine, RejectIsFine, CloseEventIsFine
<1>5. ASSUME NEW c \in Conns, NEW winner \in Sides \cup {None},
             \/ PlayGame(c, winner)
             \/ \E reason \in {"play", "resign"} : Command(c, winner, reason)
      PROVE  IInv'
  BY <1>5, PlayGameIsFine, CommandIsFine
<1>6. ASSUME NEW winner \in Sides \cup {None}, Continuation(winner) \/ TimerTick(winner)
      PROVE  IInv'
  BY <1>6, ContinuationIsFine, TimerTickIsFine
<1>7. CASE UNCHANGED vars
  BY <1>7 DEF vars, IInv, World
<1> QED BY <1>1, <1>2, <1>3, <1>4, <1>5, <1>6, <1>7, TickIsFine, CrashIsFine DEF Next

\* The match, its peers, connections and tickets fit together in every reachable
\* state, whatever the order of requests, lines, closes, deadlines and crashes.
THEOREM Invariance == Spec => []IInv
<1> QED BY InitIsFine, NextIsFine, PTL DEF Spec

\* Two open connections never speak for one side, and the open one is the one the
\* server writes to (destroySocket of the previous socket at @login).
THEOREM OneConnection == Spec => []OneLiveConnection
<1>1. IInv => OneLiveConnection
  BY NoneAssumption DEF IInv, Fine, World, LiveIsSocket, Live, OneLiveConnection
<1> QED BY <1>1, Invariance, PTL

\* A started match never waits for a player whom nobody is timing (disconnectedAt).
THEOREM EveryAbsenceTimed == Spec => []AbsenceIsTimed
<1>1. IInv => AbsenceIsTimed
  <2> SUFFICES ASSUME IInv, match.phase = "started", NEW side \in Sides
               PROVE  \/ peer[side].ready /\ peer[side].socket # None
                      \/ peer[side].absent # None
                      \/ /\ peer[side].socket # None
                         /\ conn[peer[side].socket].link \in {"ended", "destroyed"}
    BY DEF AbsenceIsTimed
  <2> DEFINE p == peer[side]
  <2>1. SideFine(p, conn, ticket[side], active[side], match.phase, None, side)
    BY DEF IInv, Fine, World
  <2>2. p \in Peers /\ conn \in [Conns -> Links]
    BY WorldTyped
  <2>3. p.socket # None => conn[p.socket].link \in {"open", "ended", "destroyed", "closed"}
    BY <2>2 DEF Peers, Links
  <2> HIDE DEF p
  <2>4. \/ p.ready /\ p.socket # None
        \/ p.absent # None
        \/ p.socket # None /\ conn[p.socket].link \in {"ended", "destroyed"}
    BY <2>1, <2>3 DEF SideFine, SocketIsHeld, Timed, Live
  <2> QED BY <2>4 DEF p
<1> QED BY <1>1, Invariance, PTL

\* Nobody is told a result the account store does not hold (commitCompletion
\* stores before it sends).
THEOREM OnlyStoredIsTold == Spec => []ToldIsStored
<1>1. IInv => ToldIsStored
  BY DEF IInv, Fine, World, TellingFine, ToldIsStored
<1> QED BY <1>1, Invariance, PTL

\* Who does not answer for the match any more has no ticket and, after
\* dismissing it, no open connection (reset, expireMatch).
THEOREM OutIsOut == Spec => []DismissedIsOut
<1>1. IInv => DismissedIsOut
  BY WorldTyped, NoneAssumption DEF IInv, Fine, World, SideFine, Live, DismissedIsOut, Peers
<1> QED BY <1>1, Invariance, PTL

\* While a player is away, only coming back within the grace ends the absence, and
\* nothing shortens it (disconnectedAt ??= now, at every login and close).
THEOREM GraceStands == Spec => GraceIsNotExtended
<1>1. IInv /\ [Next]_vars =>
        [\A side \in Sides :
           LET before == peer[side].absent
               after == peer'[side].absent IN
           before # None /\ match'.phase = "started" =>
             IF after = None THEN /\ peer'[side].ready
                                  /\ match.phase = "started" => before < ReconnectGrace
             ELSE after >= before]_vars
  BY NextSteps DEF Step, GraceKept, World
<1> QED BY <1>1, Invariance, PTL DEF Spec, GraceIsNotExtended

\* A match lost by disconnection is lost by a player away for the whole grace, and
\* by the one who left first (expireMatch sorts by disconnectedAt).
THEOREM FirstLoses == Spec => FirstToLeaveLoses
<1>1. IInv /\ [Next]_vars =>
        [match.phase = "started" /\ match'.reason = "disconnect" =>
           LET loser == Opposite(match'.winner) IN
           /\ peer[loser].absent # None
           /\ peer[loser].absent >= ReconnectGrace
           /\ peer[match'.winner].absent # None =>
                peer[match'.winner].absent <= peer[loser].absent]_vars
  BY NextSteps DEF Step, FairLoss, World
<1> QED BY <1>1, Invariance, PTL DEF Spec, FirstToLeaveLoses

\* Tickets, sockets, revocations and deadlines keep the life of the match: decided
\* once, shown when stored (finish, commitCompletion).
THEOREM Refinement == Spec => ImplementsLifecycle
<1>1. IInv /\ match.phase \in {"found", "started", "finishing"} => stored = None
  BY DEF IInv, Fine, TellingFine, World
<1>2. IInv /\ [Next]_vars => [Lifecycle!Next]_(Lifecycle!lifecycleVars)
  <2> SUFFICES ASSUME IInv, [Next]_vars PROVE [Lifecycle!Next]_(Lifecycle!lifecycleVars)
    OBVIOUS
  <2>1. Sweeps(World, World') \/ Starts(World, World')
    BY NextSteps DEF Step
  <2>2. CASE SameLife(World, World')
    BY <2>2 DEF SameLife, World, Lifecycle!lifecycleVars
  <2>3. CASE Cancels(World, World')
    BY <2>3 DEF Cancels, World, Lifecycle!Next, Lifecycle!CancelJoin
  <2>4. CASE Decides(World, World')
    BY <1>1, <2>4 DEF Decides, World, Lifecycle!Next, Lifecycle!Decide, Lifecycle!DecideAndPublish
  <2>5. CASE Publishes(World, World')
    BY <1>1, <2>5 DEF Publishes, World, Lifecycle!Next, Lifecycle!Publish
  <2>6. CASE Leaves(World, World')
    BY <2>6 DEF Leaves, World, Lifecycle!Next, Lifecycle!Crash
  <2>7. CASE Starts(World, World')
    BY <2>7 DEF Starts, World, Lifecycle!Next, Lifecycle!Start
  <2> QED BY <2>1, <2>2, <2>3, <2>4, <2>5, <2>6, <2>7 DEF Sweeps
<1> QED BY <1>2, Invariance, PTL DEF Spec, ImplementsLifecycle
=============================================================================
