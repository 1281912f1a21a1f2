-------------------------- MODULE BattleConnection --------------------------
(***************************************************************************)
(* One human match and the connections of its two players: the ticket half *)
(* and the socket half of HumanMatchService (human-match-service.mjs).      *)
(* Tickets are issued over HTTP and spent by @login on a socket; playgame   *)
(* completes a (re)connection; sockets close, are replaced, rejected and    *)
(* revoked at any moment; a player absent for longer than the reconnect     *)
(* grace loses; the outcome is stored before anybody is told.               *)
(*                                                                          *)
(* The moves of the game and its clocks are left to two decisions any       *)
(* started match may meet: a clock runs out, or a battle ends the game.     *)
(* Time is kept as ages, as in Matchmaking.                                 *)
(***************************************************************************)
EXTENDS Naturals

CONSTANTS
  Conns,            \* connections that log in; a closed one stands for the next
  Bearers,          \* game session tokens
  Owner,            \* the side whose account each token belongs to
  None,
  JoinTimeout, ReconnectGrace, ResultRetention, RetryDelay, TicketLife,
  Lateness          \* bound on how many Ticks the timer may run late

Sides == {"black", "white"}
Opposite(side) == IF side = "black" THEN "white" ELSE "black"

ASSUME OwnerAssumption == Owner \in [Bearers -> Sides]
ASSUME LimitAssumption ==
  /\ {JoinTimeout, ReconnectGrace, ResultRetention, RetryDelay, TicketLife} \subseteq Nat \ {0}
  /\ Lateness \in Nat
ASSUME NoneAssumption == /\ None \notin Conns /\ None \notin Bearers /\ None \notin Sides
                         /\ None \notin Nat /\ None # "disconnect"

MaxAbsence == ReconnectGrace + Lateness
Older(age, limit) == IF age < limit THEN age + 1 ELSE age

VARIABLES
  match,       \* phase ("none" when forgotten), winner, reason ("play" stands for those the
               \* game itself gives), and ages of the match and its last failed commit
  peer,        \* per side: socket, readiness, bearer, absence, dismissal
  conn,        \* per connection: state of the link and the side it logged in as
  ticket,      \* per side: the unspent login ticket
  active,      \* per side: activeByUser maps the account to this match
  stored,      \* the winner the account store holds
  told,        \* per side: the winner in the match_finish line written to it
  authorized   \* bearers the account store accepts

vars == <<match, peer, conn, ticket, active, stored, told, authorized>>

AgeLimit(phase) ==
  CASE phase = "found" -> JoinTimeout
    [] phase \in {"finishing", "finished", "reset"} -> ResultRetention
    [] OTHER -> 0

\* pair: the match exists, nobody is connected yet.
NoPeers == [side \in Sides |-> [socket |-> None, ready |-> FALSE, bearer |-> None,
                                absent |-> None, reset |-> FALSE]]
NoConns == [c \in Conns |-> [link |-> "closed", side |-> None]]
NoTickets == [side \in Sides |-> None]

InPhase(phase) == [phase |-> phase, winner |-> None, reason |-> None, age |-> 0, retry |-> 0]

Init ==
  /\ match = InPhase("found")
  /\ peer = NoPeers
  /\ conn = NoConns
  /\ ticket = NoTickets
  /\ active = [side \in Sides |-> TRUE]
  /\ stored = None
  /\ told = [side \in Sides |-> None]
  /\ authorized = Bearers

-----------------------------------------------------------------------------
(***************************************************************************)
(* The handlers call each other, so what they share is written as operators *)
(* on the state they find: a record of all variables a handler may change.  *)
(* They return the state they leave, or the set of states they may leave    *)
(* when the account store has a say in it.                                  *)
(***************************************************************************)
World == [match |-> match, peer |-> peer, conn |-> conn, ticket |-> ticket,
          active |-> active, stored |-> stored, told |-> told]

Becomes(w) ==
  /\ match' = w.match
  /\ peer' = w.peer
  /\ conn' = w.conn
  /\ ticket' = w.ticket
  /\ active' = w.active
  /\ stored' = w.stored
  /\ told' = w.told
  /\ UNCHANGED authorized

WithPeer(w, side, p) == [w EXCEPT !.peer = [@ EXCEPT ![side] = p]]
WithConn(w, c, k) == [w EXCEPT !.conn = [@ EXCEPT ![c] = k]]
WithTicket(w, side, t) == [w EXCEPT !.ticket = [@ EXCEPT ![side] = t]]

\* socket?.end() and socket?.destroy(): neither reports the close yet.
Ended(w, c) ==
  IF c # None /\ w.conn[c].link = "open"
  THEN WithConn(w, c, [w.conn[c] EXCEPT !.link = "ended"]) ELSE w
Destroyed(w, c) ==
  IF c # None /\ w.conn[c].link \in {"open", "ended"}
  THEN WithConn(w, c, [w.conn[c] EXCEPT !.link = "destroyed"]) ELSE w

EndedBoth(w) == Ended(Ended(w, w.peer["black"].socket), w.peer["white"].socket)

Authorized(w, side) == w.peer[side].bearer \in authorized

\* peer.disconnectedAt ??= now, while the match is being played.
Since(absent, phase) == IF phase = "started" /\ absent = None THEN 0 ELSE absent

\* Mutant: closing a revoked peer does not start its disconnection clock.
RevokedClosedUntimed(w, side) ==
  Destroyed(WithPeer(w, side, [w.peer[side] EXCEPT !.socket = None, !.ready = FALSE]),
            w.peer[side].socket)

\* The player has no socket any more.
Gone(p, phase) == [p EXCEPT !.socket = None, !.ready = FALSE, !.absent = Since(@, phase)]

\* closeRevokedPeer. (The "terminated" mark it and rejectConnection leave on the
\* connection only repeats that the link is no longer open.)
RevokedClosed(w, side) ==
  Destroyed(WithPeer(w, side, Gone(w.peer[side], w.match.phase)), w.peer[side].socket)

\* sendPeer: a revoked peer is closed instead of written to. result is the
\* winner a match_finish line tells, None for every other line.
Sent(w, side, result) ==
  LET p == w.peer[side] IN
  CASE ~Authorized(w, side) -> IF w.active[side] THEN RevokedClosed(w, side) ELSE w
    [] /\ Authorized(w, side)
       /\ result # None /\ p.ready /\ p.socket # None /\ w.conn[p.socket].link = "open" ->
         [w EXCEPT !.told = [@ EXCEPT ![side] = result]]
    [] OTHER -> w

SentBoth(w, result) == Sent(Sent(w, "black", result), "white", result)

\* Tried again only after RetryDelay.
LeftForRetry(w) == [w EXCEPT !.match = [@ EXCEPT !.retry = 0]]
\* The store has the outcome, and who is connected is told.
Published(w) ==
  SentBoth([w EXCEPT !.match = [@ EXCEPT !.phase = "finished", !.retry = 0],
                     !.stored = w.match.winner],
           w.match.winner)

\* Mutant: the result is told whether or not the store took it.
CommittedTellingFirst(w) ==
  {Published(w), SentBoth(LeftForRetry(w), w.match.winner)}

\* Mutant: a failed commit puts the match back into play.
CommittedRollingBack(w) ==
  {Published(w), [w EXCEPT !.match = [@ EXCEPT !.phase = "started"]]}

\* commitCompletion: the store takes the outcome and it is published, or the
\* store fails and the outcome is left for a retry.
Committed(w) == {Published(w), LeftForRetry(w)}

\* Absences are read while the match is played only, so they are forgotten here.
Decided(w, winner, reason) ==
  [w EXCEPT !.match = [InPhase("finishing") EXCEPT !.winner = winner, !.reason = reason],
            !.peer = [side \in Sides |-> [w.peer[side] EXCEPT !.absent = None]]]

\* finish: the outcome is fixed by the first call only.
Finished(w, winner, reason) ==
  CASE w.match.phase \in {"finished", "reset"} -> {w}
    [] w.match.phase = "finishing" -> Committed(w)
    [] OTHER -> Committed(Decided(w, winner, reason))

-----------------------------------------------------------------------------
(***************************************************************************)
(* expireMatch: the deadlines of this match. It runs on every timer tick,   *)
(* on every ticket request, and before every line of its players.           *)
(***************************************************************************)
\* Mutant: only players in the game are checked for a revoked bearer.
ReadyRevokedSwept(w, side) ==
  IF w.peer[side].ready /\ ~Authorized(w, side) THEN RevokedClosed(w, side) ELSE w

RevokedSwept(w, side) ==
  IF w.peer[side].socket # None /\ ~Authorized(w, side) THEN RevokedClosed(w, side) ELSE w

RetrySwept(w) ==
  IF w.match.phase = "finishing" /\ w.match.retry = RetryDelay THEN Committed(w) ELSE {w}

JoinSwept(w) ==
  IF w.match.phase = "found" /\ w.match.age = JoinTimeout
  THEN EndedBoth([w EXCEPT !.match = [@ EXCEPT !.phase = "reset", !.age = 0],
                           !.ticket = NoTickets, !.active = [side \in Sides |-> FALSE]])
  ELSE w

Absence(w, side) == IF w.peer[side].absent = None THEN 0 ELSE w.peer[side].absent
\* Mutant: the grace ends one Tick late.
LostAfter(w, side) == Absence(w, side) > ReconnectGrace

Lost(w, side) == Absence(w, side) >= ReconnectGrace

\* Mutant: of two lost players the first in SIDES loses.
FirstSideLost(w) == IF Lost(w, "black") THEN "black" ELSE "white"

\* Of two players absent too long the one who left first loses; black, if
\* they left in the same millisecond (the sort is stable).
FirstToLeave(w) == IF Absence(w, "black") >= Absence(w, "white") THEN "black" ELSE "white"

AbsenceSwept(w) ==
  IF w.match.phase = "started" /\ Lost(w, FirstToLeave(w))
  THEN Finished(w, Opposite(FirstToLeave(w)), "disconnect")
  ELSE {w}

\* The match leaves the memory. Its sockets are ended, and their close finds no
\* match to release a peer of: nothing of them matters any more.
Forgotten(w) ==
  [w EXCEPT !.match = InPhase("none"), !.peer = NoPeers, !.conn = NoConns,
            !.ticket = NoTickets, !.active = [side \in Sides |-> FALSE]]

RetentionSwept(w) ==
  IF w.match.phase \in {"finished", "reset"} /\ w.match.age = ResultRetention
  THEN Forgotten(w) ELSE w

Expired(w) ==
  IF w.match.phase = "none" THEN {w}
  ELSE LET checked == {RevokedSwept(x, "white") : x \in {RevokedSwept(w, "black")}}
           retried == UNION {RetrySwept(x) : x \in checked}
           joined == {JoinSwept(x) : x \in retried}
           played == UNION {AbsenceSwept(x) : x \in joined}
       IN {RetentionSwept(x) : x \in played}

TicketLives(w, side) ==
  /\ w.ticket[side] # None
  /\ w.ticket[side].age < TicketLife
  /\ w.ticket[side].bearer \in authorized

\* expireState, as far as this match goes.
Swept(w) ==
  Expired([w EXCEPT !.ticket = [side \in Sides |->
             IF TicketLives(w, side) THEN w.ticket[side] ELSE None]])

-----------------------------------------------------------------------------
(***************************************************************************)
(* Requests over HTTP.                                                      *)
(***************************************************************************)
\* issueTicket: a new ticket replaces the account's previous one.
IssueTicket(b) ==
  /\ b \in authorized
  /\ \E w \in Swept(World) :
       /\ w.active[Owner[b]]
       /\ w.match.phase \in {"found", "started", "finished"}
       /\ Becomes(WithTicket(w, Owner[b], [bearer |-> b, age |-> 0]))

\* Mutant: dismissing leaves the ticket issued before.
DismissedKeepingTicket(w, side) ==
  Ended([WithPeer(w, side, [w.peer[side] EXCEPT !.reset = TRUE])
           EXCEPT !.active = [@ EXCEPT ![side] = FALSE]],
        w.peer[side].socket)
\* Mutant: dismissing leaves the socket open.
DismissedKeepingSocket(w, side) ==
  [WithPeer(WithTicket(w, side, None), side, [w.peer[side] EXCEPT !.reset = TRUE])
     EXCEPT !.active = [@ EXCEPT ![side] = FALSE]]

Dismissed(w, side) ==
  Ended([WithPeer(WithTicket(w, side, None), side, [w.peer[side] EXCEPT !.reset = TRUE])
           EXCEPT !.active = [@ EXCEPT ![side] = FALSE]],
        w.peer[side].socket)

\* reset: the player dismisses the result.
Dismiss(b) ==
  /\ b \in authorized
  /\ active[Owner[b]]
  /\ match.phase \in {"finished", "reset"}
  /\ Becomes(Dismissed(World, Owner[b]))

-----------------------------------------------------------------------------
(***************************************************************************)
(* Connections and lines.                                                   *)
(***************************************************************************)
\* attach, then @login with an unspent ticket as the first line. The ticket is
\* spent whether or not the login is accepted; an accepted one replaces the
\* previous socket and never extends a running absence. (A connection that has
\* not logged in, or was rejected, is nothing to the match.)
Accepts(w, side) ==
  /\ TicketLives(w, side)
  /\ w.match.phase \in {"found", "started", "finished"}
  /\ ~w.peer[side].reset

LoggedIn(p, c, bearer, phase) ==
  [p EXCEPT !.socket = c, !.ready = FALSE, !.bearer = bearer, !.absent = Since(@, phase)]

\* Mutant: the previous socket of the peer is left open.
BoundBeside(w, c, side) ==
  WithPeer(WithConn(WithTicket(w, side, None), c, [link |-> "open", side |-> side]), side,
           LoggedIn(w.peer[side], c, w.ticket[side].bearer, w.match.phase))

\* Mutant: a login restarts the disconnection clock.
BoundRestarting(w, c, side) ==
  Destroyed(WithPeer(WithConn(WithTicket(w, side, None), c, [link |-> "open", side |-> side]), side,
              LoggedIn([w.peer[side] EXCEPT !.absent = None], c, w.ticket[side].bearer,
                       w.match.phase)),
            w.peer[side].socket)

Bound(w, c, side) ==
  Destroyed(WithPeer(WithConn(WithTicket(w, side, None), c, [link |-> "open", side |-> side]), side,
              LoggedIn(w.peer[side], c, w.ticket[side].bearer, w.match.phase)),
            w.peer[side].socket)

Login(c, side) ==
  /\ conn[c].link = "closed"
  /\ ticket[side] # None
  /\ \E w \in Expired(World) :
       Becomes(IF Accepts(w, side) THEN Bound(w, c, side) ELSE WithTicket(w, side, None))

\* A line is obeyed if, after the deadlines were applied, its connection is
\* still open, still its side's socket, and its bearer still authorised.
Obeyed(w, c) ==
  /\ w.conn[c].link = "open"
  /\ w.peer[w.conn[c].side].socket = c
  /\ Authorized(w, w.conn[c].side)

\* A second @login, or a line that is not obeyed, costs the connection, if the
\* deadlines have not closed it already.
Refused(w, c, side) ==
  CASE w.conn[c].link # "open" -> w
    [] w.conn[c].link = "open" /\ w.peer[side].socket = c /\ ~Authorized(w, side) ->
         RevokedClosed(w, side)
    [] OTHER -> Destroyed(w, c)

RefusedLine(c) ==
  /\ conn[c].link = "open"
  /\ \E w \in Expired(World) : Becomes(Refused(w, c, conn[c].side))

\* playgame: this player is ready; the match starts when both are. A resumed
\* match first charges the running clock, which may turn out to be spent (the
\* winner is then the other side, None otherwise).
PlayGame(c, winner) ==
  /\ conn[c].link = "open"
  /\ \E w \in Expired(World) :
       LET side == w.conn[c].side
           ready == WithPeer(w, side, [w.peer[side] EXCEPT !.ready = TRUE, !.absent = None]) IN
       /\ Obeyed(w, c)
       /\ \/ /\ w.match.phase = "found" /\ winner = None
             /\ Becomes(IF \A other \in Sides : ready.peer[other].ready
                        THEN [ready EXCEPT !.match = InPhase("started")] ELSE ready)
          \/ /\ w.match.phase = "started" /\ winner # None
             /\ \E x \in Finished(ready, winner, "play") : Becomes(x)
          \/ /\ w.match.phase # "found" /\ winner = None
             /\ Becomes(IF w.match.phase = "finished" THEN Sent(ready, side, w.match.winner)
                        ELSE ready)

\* rejectConnection: a protocol error (a gap in the sequence, a stale or
\* illegal move, a command before playgame) ends the socket, not the match.
Reject(c) ==
  /\ conn[c].link = "open"
  /\ \E w \in Expired(World) :
       LET side == w.conn[c].side IN
       /\ Obeyed(w, c)
       /\ Becomes(Ended(WithPeer(w, side, [w.peer[side] EXCEPT !.ready = FALSE]), c))

\* A step of the game sends to both players and may decide it.
Played(w, winner, reason) ==
  IF winner = None THEN {SentBoth(w, None)} ELSE Finished(w, winner, reason)

\* do_move, time, timer_start, lose: a step of the game, the end of a clock, or
\* a resignation.
Command(c, winner, reason) ==
  /\ conn[c].link = "open"
  /\ reason = "resign" => winner = Opposite(conn[c].side)
  /\ \E w \in Expired(World) :
       /\ Obeyed(w, c)
       /\ w.peer[conn[c].side].ready
       /\ w.match.phase = "started"
       /\ \E x \in Played(w, winner, reason) : Becomes(x)

\* A continuation of a battle: a delayed step that no line announces, and so one
\* that no deadline is checked before.
Continuation(winner) ==
  /\ match.phase = "started"
  /\ \E x \in Played(World, winner, "play") : Becomes(x)

\* The close event of a connection, after end, destroy or the client's leaving.
\* It releases the peer only if the peer still has this very connection.
CloseEvent(c) ==
  LET owner == {side \in Sides : peer[side].socket = c} IN
  /\ conn[c].link # "closed"
  /\ conn' = [conn EXCEPT ![c] = [link |-> "closed", side |-> None]]
  /\ peer' = [side \in Sides |->
       IF side \in owner THEN Gone(peer[side], match.phase) ELSE peer[side]]
  /\ UNCHANGED <<match, ticket, active, stored, told, authorized>>

-----------------------------------------------------------------------------
(***************************************************************************)
(* The timer, the clock and the environment.                                *)
(***************************************************************************)
\* tickMatchTimers: a player's clock may have run out, then expireState.
TimerTick(winner) ==
  /\ match.phase # "none"
  /\ winner # None => match.phase = "started"
  /\ \E w \in IF winner = None THEN {World} ELSE Finished(World, winner, "play") :
       \E x \in Swept(w) : Becomes(x)

\* The timer is never later than Lateness: time waits for the sweep that finds
\* an absence beyond the grace.
Tick ==
  /\ match.phase = "started" => \A side \in Sides : peer[side].absent # MaxAbsence
  /\ match' = [match EXCEPT !.age = Older(@, AgeLimit(match.phase)),
                            !.retry = IF match.phase = "finishing" THEN Older(@, RetryDelay) ELSE @]
  /\ peer' = [side \in Sides |-> [peer[side] EXCEPT
                !.absent = IF @ = None \/ match.phase # "started" THEN @ ELSE Older(@, MaxAbsence)]]
  /\ ticket' = [side \in Sides |->
       IF ticket[side] = None THEN None ELSE [ticket[side] EXCEPT !.age = Older(@, TicketLife)]]
  /\ UNCHANGED <<conn, active, stored, told, authorized>>

\* The device is removed or the session expires.
Revoke(b) ==
  /\ b \in authorized
  /\ authorized' = authorized \ {b}
  /\ UNCHANGED <<match, peer, conn, ticket, active, stored, told>>

\* The process dies; the store stays.
Crash ==
  /\ match.phase # "none"
  /\ Becomes(Forgotten(World))

Next ==
  \/ \E b \in Bearers : IssueTicket(b) \/ Dismiss(b) \/ Revoke(b)
  \/ \E c \in Conns :
       \/ \E side \in Sides : Login(c, side)
       \/ RefusedLine(c) \/ Reject(c) \/ CloseEvent(c)
       \/ \E winner \in Sides \cup {None} :
            \/ PlayGame(c, winner)
            \/ \E reason \in {"play", "resign"} : Command(c, winner, reason)
  \/ \E winner \in Sides \cup {None} : Continuation(winner) \/ TimerTick(winner)
  \/ Tick
  \/ Crash

Spec == Init /\ [][Next]_vars

\* Time passes and the timer runs, whatever the clients do. Nothing is assumed of
\* a client (it may never log in, never say playgame, never close its half of an
\* ended connection), nor of the store (a decided match need not be published).
FairSpec == Spec /\ WF_vars(Tick) /\ WF_vars(TimerTick(None))

-----------------------------------------------------------------------------
(***************************************************************************)
(* Safety.                                                                  *)
(***************************************************************************)
\* At most one open connection speaks for a side, and it is the one the server
\* writes to: a reconnect, a revocation or a late close of an old connection
\* never leaves two, nor takes away the new one.
OneLiveConnection ==
  \A c \in Conns : conn[c].link = "open" =>
    peer[conn[c].side].socket = c

\* A started match is never waiting for a player nobody is timing: a player who
\* is not ready is on the disconnection clock, or the server has already cut the
\* connection and the close that starts the clock is still to be reported.
AbsenceIsTimed ==
  match.phase = "started" => \A side \in Sides :
    \/ peer[side].ready /\ peer[side].socket # None
    \/ peer[side].absent # None
    \/ peer[side].socket # None /\ conn[peer[side].socket].link \in {"ended", "destroyed"}

\* Whatever a player was told of the result is what the account store holds,
\* even when the process dies between storing and telling.
ToldIsStored == \A side \in Sides : told[side] # None => told[side] = stored

\* Who does not answer for the match any more has no way into it: dismissing the
\* result, the join timeout and the end of retention leave no ticket behind, and
\* a dismissal no open connection.
DismissedIsOut ==
  \A side \in Sides :
    /\ ticket[side] # None => active[side]
    /\ peer[side].reset /\ peer[side].socket # None => conn[peer[side].socket].link # "open"

(***************************************************************************)
(* What no step may do.                                                     *)
(***************************************************************************)
\* While a player is absent only a playgame within the grace ends the absence,
\* however late the timer is, and nothing short of it shortens it: logging in
\* again and again does not extend the grace.
GraceIsNotExtended ==
  [][\A side \in Sides :
       LET before == peer[side].absent
           after == peer'[side].absent IN
       before # None /\ match'.phase = "started" =>
         IF after = None THEN /\ peer'[side].ready
                              /\ match.phase = "started" => before < ReconnectGrace
         ELSE after >= before]_vars

\* A match lost by disconnection is lost by a player absent for the whole grace,
\* and by the one who left first when both were.
FirstToLeaveLoses ==
  [][match.phase = "started" /\ match'.reason = "disconnect" =>
       LET loser == Opposite(match'.winner) IN
       /\ peer[loser].absent # None
       /\ peer[loser].absent >= ReconnectGrace
       /\ peer[match'.winner].absent # None => peer[match'.winner].absent <= peer[loser].absent]_vars

(***************************************************************************)
(* What must happen.                                                        *)
(***************************************************************************)
\* An absence ends: the player comes back or the match is decided.
AbsenceIsResolved ==
  \A side \in Sides :
    match.phase = "started" /\ peer[side].absent # None
      ~> match.phase # "started" \/ peer[side].absent = None

\* A player whose bearer is revoked does not stay connected to the match.
RevokedIsDisconnected ==
  \A side \in Sides :
    peer[side].socket # None /\ peer[side].bearer \notin authorized
      ~> \/ match.phase = "none"
         \/ peer[side].socket = None
         \/ peer[side].bearer \in authorized

\* With only time and the timer fair, and clients that may never answer or close,
\* an absence and a revocation both come to an end (the deadlines of expireMatch).
ConnectionsSettle == AbsenceIsResolved /\ RevokedIsDisconnected

(***************************************************************************)
(* The life MatchLifecycle promises.                                        *)
(***************************************************************************)
Lifecycle == INSTANCE MatchLifecycle WITH
  NoOutcome <- None, phase <- match.phase,
  outcome <- match.winner, durable <- stored

\* Tickets, sockets, revocations and the deadlines keep the lifecycle of the
\* match. (The match exists from the start, so only the steps are compared.)
ImplementsLifecycle == [][Lifecycle!Next]_(Lifecycle!lifecycleVars)
=============================================================================
