------------------------------- MODULE MCEdge -------------------------------
(***************************************************************************)
(* What a player meets before and around the moves, one part at a time; the *)
(* parts share nothing.  The rate limiter: two clients, a trusted proxy     *)
(* that may forward either of them or something that is no address, a       *)
(* second spelling of one client, and a socket whose peer address is not    *)
(* known.  The socket: two places, a place for each user, one of them with  *)
(* two sessions.  The link: enough numbers for two moves of each side with *)
(* a line between them.  The clock: a think time longer than any allowance. *)
(***************************************************************************)
EXTENDS RateLimiter, BattleSocket, MoveLink, MatchClock

CONSTANTS local, mapped, other, proxy, junk,       \* spellings
          clientAddress, otherAddress, proxyAddress \* canonical addresses
CONSTANTS phone, tablet, guest, host, visitor       \* sessions and their users
CONSTANTS c1, c2                                    \* places of the socket
CONSTANTS black, white                              \* sides of the match

MCSpellings == {local, mapped, other, proxy, junk}
MCAddresses == {clientAddress, otherAddress, proxyAddress, Unknown}
MCCanonical == [s \in MCSpellings |->
  CASE s \in {local, mapped} -> clientAddress
    [] s = other -> otherAddress
    [] s = proxy -> proxyAddress
    [] s = junk -> NoAddress]
MCHolder == [s \in {phone, tablet, guest} |-> IF s = guest THEN visitor ELSE host]

VARIABLE part
rest == <<limiterVars, socketVars, linkVars>>
allVars == <<rest, vars, part>>

LimiterIdle == now = 0 /\ lastNow = 0 /\ entries = <<>> /\ reply = [reason |-> "none"]

ClockIdle == Init /\ match.turn = black /\ match.since = 0

MCInit == /\ SocketInit /\ LinkInit
          /\ \/ part = "limiter" /\ LimiterInit /\ ClockIdle
             \/ part \in {"socket", "link"} /\ LimiterIdle /\ ClockIdle
             \/ part = "clock" /\ LimiterIdle /\ Init

Others == UNCHANGED <<limiterVars, linkVars, vars, part>>
Rest == UNCHANGED <<rest, part>>
MCNext ==
  \/ part = "limiter" /\ LimiterNext /\ UNCHANGED <<socketVars, linkVars, vars, part>>
  \/ part = "socket" /\ SocketNext /\ Others
  \/ part = "link" /\ LinkNext /\ UNCHANGED <<limiterVars, socketVars, vars, part>>
  \/ part = "clock" /\ Next /\ Rest

\* The fairness of the specifications of the socket and of the clock.
MCSpec == /\ MCInit /\ [][MCNext]_allVars
          /\ WF_allVars(part = "socket" /\ Beats /\ Others)
          /\ \A c \in Places : WF_allVars(part = "socket" /\ CloseEvent(c) /\ Others)
          /\ WF_allVars(part = "clock" /\ Tick /\ Rest)
          /\ WF_allVars(part = "clock" /\ Look /\ Rest)

\* A player to whom the choice belongs does not keep it for ever, in the part
\* in which the match is played (syncMatchClock, tickMatchTimers).
ThinkTimeEnds == part = "clock" => ThinkingEnds
=============================================================================
