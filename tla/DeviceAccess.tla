---------------------------- MODULE DeviceAccess ----------------------------
(***************************************************************************)
(* How a game installation gets to act for an account (account-store.mjs): *)
(* it asks for a link code, the account's owner confirms the code on the   *)
(* web site, and the installation logs in for a bearer; the owner may      *)
(* remove it again.  All of it is rows of SQLite tables, which survive a   *)
(* restart; expired rows are deleted lazily, at most once per interval.    *)
(*                                                                         *)
(* A row's left is the time until it expires, 0 once it has.  Rows with    *)
(* reusable = FALSE were written by a version that kept no nonce: they     *)
(* count and are accepted, but cannot be handed out again.                 *)
(***************************************************************************)
EXTENDS Integers, FiniteSets

CONSTANTS Users,        \* accounts
          Devices,      \* installations, by their device token
          Null,         \* SQL NULL, or no row
          MaxPending,   \* maximumPendingDevices
          MaxLinks,     \* maximumPendingDeviceLinks
          LinkLife, SessionLife,  \* deviceLinkMilliseconds, gameSessionMilliseconds
          CleanupEvery  \* cleanupIntervalMilliseconds

ASSUME DeviceAssumption == IsFiniteSet(Devices)
ASSUME LimitAssumption ==
  {MaxPending, MaxLinks, LinkLife, SessionLife, CleanupEvery} \subseteq Nat \ {0}

VARIABLES
  links,     \* device_links: installation -> its row
  requests,  \* device_link_requests
  sessions,  \* game_sessions
  quiet,     \* time since the last clean-up; CleanupEvery once another is due
  reply      \* what the login that just ran was answered, Null otherwise
vars == <<links, requests, sessions, quiet, reply>>

Link == [owner : Users \cup {Null}, left : 0..LinkLife]
\* An installation's codes are numbered: those of an earlier version, which may
\* take up MaxLinks numbers, and one that is reusable.
CodeNumbers == 1..(MaxLinks + 1)
LinkRow == [device : Devices, n : CodeNumbers, left : 0..LinkLife, reusable : BOOLEAN]
SessionRow == [device : Devices, user : Users, left : 0..SessionLife, reusable : BOOLEAN]
Answers == {"token", "code", "capacity", "limit", "error"}
ASSUME NullAssumption == Null \notin Users \cup Answers /\ Null \notin Link

TypeOK == /\ links \in [Devices -> Link \cup {Null}]
          /\ requests \subseteq LinkRow
          /\ sessions \subseteq SessionRow
          /\ quiet \in 0..CleanupEvery
          /\ reply \in Answers \cup {Null}

Alive(rows) == {r \in rows : r.left > 0}
Of(rows, d) == {r \in rows : r.device = d}
Without(rows, d) == rows \ Of(rows, d)
Pending(ls) == {d \in Devices : ls[d] # Null /\ ls[d].owner = Null}

\* The tables a forced or a due clean-up leaves.
Reclaimed == {d \in Pending(links) : links[d].left = 0 /\ Of(Alive(requests), d) = {}}
CleanLinks == [d \in Devices |-> IF d \in Reclaimed THEN Null ELSE links[d]]

\* Mutant: a login cleans up only when a clean-up is due.
DueOnly == quiet = CleanupEvery
\* beginDeviceLogin cleans up whatever the interval says.
LoginCleans == TRUE

-----------------------------------------------------------------------------
\* A database may come from the version before credentials were reusable.
Init == /\ links \in [Devices -> {Null} \cup [owner : {Null}, left : {LinkLife}]
                                        \cup [owner : Users, left : {0}]]
        /\ requests \in SUBSET [device : Pending(links), n : 1..MaxLinks,
                                left : {LinkLife}, reusable : {FALSE}]
        /\ \A d \in Pending(links) : Of(requests, d) # {}
        /\ sessions \in SUBSET {s \in [device : Devices, user : Users, left : {SessionLife},
                                       reusable : {FALSE}] :
                                  links[s.device] # Null /\ links[s.device].owner = s.user}
        /\ quiet = CleanupEvery
        /\ reply = Null

Sooner(n) == IF n = 0 THEN 0 ELSE n - 1
Aged(rows) == {[r EXCEPT !.left = Sooner(r.left)] : r \in rows}
AgedLinks(ls) == [d \in Devices |-> IF ls[d] = Null THEN Null
                                    ELSE [ls[d] EXCEPT !.left = Sooner(@)]]

RowsStay(ls, rs, ss) == links' = ls /\ requests' = rs /\ sessions' = ss
Reusable(rows) == {r \in rows : r.reusable}

\* Mutant: the bearer is looked up without its owner's name on it, so it is
\* never found again.
ForgottenSession(ss, d, u) == {}
\* The bearer that #createGameSession hands out again.
LiveSession(ss, d, u) == {s \in Reusable(Alive(Of(ss, d))) : s.user = u}

\* #createGameSession, for a linked installation.  A second reusable row of
\* an installation violates the unique index, and the login fails.
GameSession(d, ls, rs, ss) ==
  LET u == ls[d].owner IN
  \/ /\ LiveSession(ss, d, u) # {}
     /\ RowsStay(ls, rs, ss) /\ reply' = "token"
  \/ /\ LiveSession(ss, d, u) = {} /\ Reusable(Of(ss, d)) # {}
     /\ RowsStay(ls, rs, ss) /\ reply' = "error"
  \/ /\ LiveSession(ss, d, u) = {} /\ Reusable(Of(ss, d)) = {}
     /\ RowsStay(ls, rs, ss \cup {[device |-> d, user |-> u, left |-> SessionLife,
                                   reusable |-> TRUE]})
     /\ reply' = "token"

\* Mutant: asking again replaces the code on the open consent page.
ReplacingCode(d, ls, rs, ss) ==
  /\ RowsStay([ls EXCEPT ![d] = [owner |-> Null, left |-> LinkLife]],
              Without(rs, d) \cup {[device |-> d, n |-> 1, left |-> LinkLife, reusable |-> TRUE]},
              ss)
  /\ reply' = "code"
\* The rest of beginDeviceLogin, for an installation that is not linked.
LinkCode(d, ls, rs, ss) ==
  LET own == Of(rs, d)
      full == ls[d] = Null /\ Cardinality(Pending(ls)) >= MaxPending
      known == Reusable(Alive(own))
      many == Cardinality(Alive(own)) >= MaxLinks
  IN
  \/ full /\ RowsStay(ls, rs, ss) /\ reply' = "capacity"
  \/ ~full /\ known # {} /\ RowsStay(ls, rs, ss) /\ reply' = "code"
  \/ ~full /\ known = {} /\ many /\ RowsStay(ls, rs, ss) /\ reply' = "limit"
  \/ /\ ~full /\ known = {} /\ ~many /\ Reusable(own) # {}
     /\ RowsStay(ls, rs, ss) /\ reply' = "error"
  \/ /\ ~full /\ known = {} /\ ~many /\ Reusable(own) = {}
     /\ \E n \in CodeNumbers :
          /\ n \notin {r.n : r \in own} /\ 1..(n - 1) \subseteq {r.n : r \in own}
          /\ RowsStay([ls EXCEPT ![d] = [owner |-> Null, left |-> LinkLife]],
                      rs \cup {[device |-> d, n |-> n, left |-> LinkLife, reusable |-> TRUE]},
                      ss)
     /\ reply' = "code"

LogIn(d, ls, rs, ss) ==
  \/ ls[d] # Null /\ ls[d].owner # Null /\ GameSession(d, ls, rs, ss)
  \/ (ls[d] = Null \/ d \in Pending(ls)) /\ LinkCode(d, ls, rs, ss)

\* beginDeviceLogin(d): what the clean-up leaves goes into the transaction,
\* which reads the clock again: a row may have expired in between.
BeginDeviceLogin(d) ==
  LET ls == IF LoginCleans THEN CleanLinks ELSE links
      rs == IF LoginCleans THEN Alive(requests) ELSE requests
      ss == IF LoginCleans THEN Alive(sessions) ELSE sessions
  IN /\ \E late \in BOOLEAN :
          LogIn(d, IF late THEN AgedLinks(ls) ELSE ls,
                   IF late THEN Aged(rs) ELSE rs,
                   IF late THEN Aged(ss) ELSE ss)
     /\ quiet' = IF LoginCleans THEN 0 ELSE quiet

Linked(d, u) == [links EXCEPT ![d] = [owner |-> u, left |-> 0]]

\* Mutant: only the confirmed code is used up.
UsedRequest(r) == requests \ {r}
\* Linking uses up every code of the installation.
AllRequests(r) == Without(requests, r.device)
\* linkDevice: u confirms a live code of an installation nobody owns.
LinkDevice(r, u) ==
  /\ r.left > 0 /\ r.device \in Pending(links)
  /\ RowsStay(Linked(r.device, u), AllRequests(r), sessions)
  /\ reply' = Null /\ UNCHANGED quiet

\* Mutant: seeding keeps the bearers of the owner before.
KeptSessions(d, u) == sessions
\* linkDeviceTokenToUser ends the bearers of any other account.
OwnSessions(d, u) == {s \in sessions : s.device = d => s.user = u}
\* A restart.  The configuration may name an installation that seedAccount
\* links to an account whatever its row says.  (The codes that opening the
\* database copies from device_links are either there or have expired.)
Restart ==
  /\ \/ RowsStay(links, requests, sessions)
     \/ \E d \in Devices, u \in Users :
          RowsStay(Linked(d, u), Without(requests, d), OwnSessions(d, u))
  /\ quiet' = CleanupEvery /\ reply' = Null

\* Mutant: the row is kept and only its owner cleared.
Disowned(d) == [links EXCEPT ![d].owner = Null]
\* The device_links a revocation leaves.
Removed(d) == [links EXCEPT ![d] = Null]
\* revokeDevice: the foreign keys take requests and bearers along.
RevokeDevice(u, d) ==
  /\ links[d] # Null /\ links[d].owner = u
  /\ LET ls == Removed(d) IN
     RowsStay(ls, IF ls[d] = Null THEN Without(requests, d) ELSE requests,
                  IF ls[d] = Null THEN Without(sessions, d) ELSE sessions)
  /\ reply' = Null /\ UNCHANGED quiet

\* #purgeExpired when it is due, on the way of any authentication.
Housekeep ==
  /\ quiet = CleanupEvery
  /\ RowsStay(CleanLinks, Alive(requests), Alive(sessions))
  /\ quiet' = 0 /\ reply' = Null

\* A unit of time passes.
Tick ==
  /\ RowsStay(AgedLinks(links), Aged(requests), Aged(sessions))
  /\ quiet' = IF quiet = CleanupEvery THEN quiet ELSE quiet + 1
  /\ reply' = Null

Next == \/ \E d \in Devices : BeginDeviceLogin(d)
        \/ \E r \in requests, u \in Users : LinkDevice(r, u)
        \/ \E u \in Users, d \in Devices : RevokeDevice(u, d)
        \/ Restart
        \/ Housekeep
        \/ Tick
Spec == Init /\ [][Next]_vars
-----------------------------------------------------------------------------
\* A bearer belongs to the account its installation is linked to, and a code
\* waits only for an installation nobody owns: when an installation changes
\* hands, or is removed, no bearer of the former owner is left, and once one of
\* its codes is confirmed its others are worth nothing (linkDevice,
\* linkDeviceTokenToUser, revokeDevice, the foreign keys).
CredentialsMatchOwner ==
  /\ \A s \in sessions : links[s.device] # Null /\ links[s.device].owner = s.user
  /\ \A r \in requests : r.device \in Pending(links)

\* A code on a consent page that is still open, and a bearer in use, stay
\* good until they expire, the installation changes hands or it is removed,
\* whatever else is asked in the meantime (both are reused, not replaced).
CredentialsStand ==
  [][/\ \A r \in Alive(requests) :
          \/ \E q \in requests' : q.device = r.device /\ q.n = r.n /\ r.left - q.left \in {0, 1}
          \/ links'[r.device].owner # Null
     /\ \A s \in Alive(sessions) :
          \/ \E q \in sessions' : /\ q.device = s.device /\ q.user = s.user
                                  /\ q.reusable = s.reusable /\ s.left - q.left \in {0, 1}
          \/ links'[s.device] = Null \/ links'[s.device].owner # s.user]_vars

\* The unique indexes allow one reusable code and one reusable bearer per
\* installation.  They fail a login only when that credential has just run
\* out: one that is still good is found and handed out again.
OnlyExpiryFailsALogin ==
  [][reply' = "error" => \E r \in Reusable(requests') \cup Reusable(sessions') : r.left = 0]_vars

\* An installation is turned away for capacity only when that many others
\* really hold a live code: abandoned ones do not block it (beginDeviceLogin).
RefusalIsJust ==
  [][reply' = "capacity" =>
       Cardinality({d \in Devices : Of(Alive(requests), d) # {}}) >= MaxPending]_vars

\* Expired nonce rows are removed before a login allocates (the comment at
\* the top of beginDeviceLogin), so the unique index never fails one.
LoginNeverFails == reply # "error"
=============================================================================
