---------------------------- MODULE Matchmaking ----------------------------
(***************************************************************************)
(* The matchmaking half of HumanMatchService (human-match-service.mjs): the *)
(* queue, the pairing of two accounts, the table of live matches, the index *)
(* from an account to its match, and the commit of a finished match to the  *)
(* account store before its result is published.                            *)
(*                                                                          *)
(* JavaScript handlers run to completion, so every handler is one action.   *)
(* Time is kept as AGES: an age counts the Ticks since a stamp was taken    *)
(* and stops at the limit the code compares it with, which loses nothing    *)
(* because the code only ever asks whether the limit has been reached.      *)
(***************************************************************************)
EXTENDS Naturals, FiniteSets

CONSTANTS
  Users,            \* accounts
  Sessions,         \* game bearer tokens
  Owner,            \* the account each token was issued to
  MatchIds,         \* identifiers newMatchId can draw
  None,             \* absent map entry
  QueueLease,       \* queueLeaseMs, in Ticks
  JoinTimeout,      \* joinTimeoutMs
  ResultRetention,  \* resultRetentionMs
  RetryDelay        \* the 1000 ms between two commit attempts

Sides == {"black", "white"}
Phases == {"found", "started", "finishing", "finished", "reset"}

ASSUME OwnerAssumption == Owner \in [Sessions -> Users]
ASSUME LimitAssumption == {QueueLease, JoinTimeout, ResultRetention, RetryDelay} \subseteq Nat \ {0}
ASSUME NoneAssumption ==
  /\ None \notin MatchIds
  /\ None \notin Sides
  /\ None \notin [room : MatchIds, session : Sessions, lease : 0..QueueLease]

Ages(limit) == 0..limit
Older(age, limit) == IF age < limit THEN age + 1 ELSE age

\* An account's place in the queue.
Entry == [room : MatchIds, session : Sessions, lease : Ages(QueueLease)]

\* The stamp a match is timed by: createdAt while it waits for its players,
\* finishedAt (taken when the outcome is decided) from then on.
AgeLimit(phase) ==
  CASE phase = "found" -> JoinTimeout
    [] phase = "started" -> 0
    [] OTHER -> ResultRetention

\* What the service keeps of a match: its peers, who dismissed the result, the
\* pending or published winner, and the ages of the match and of its last
\* failed commit.
Match == [phase : Phases, player : [Sides -> Users], dismissed : SUBSET Users,
          winner : Sides \cup {None},
          age : Ages(JoinTimeout) \cup Ages(ResultRetention), retry : Ages(RetryDelay)]

\* What the account store keeps of a completed match.
Completion == [player : [Sides -> Users], winner : Sides]

ASSUME AbsentMatchAssumption == None \notin Match /\ None \notin Completion

VARIABLES
  waiting,       \* the queue: account -> entry
  matches,       \* identifier -> live or retained match
  activeByUser,  \* account -> identifier of the match it must answer for
  authorized,    \* bearers the account store accepts
  completed      \* table completed_matches, the only state that survives a crash

vars == <<waiting, matches, activeByUser, authorized, completed>>

Players(x) == {x.player[side] : side \in Sides}

TypeOK ==
  /\ waiting \in [Users -> Entry \cup {None}]
  /\ matches \in [MatchIds -> Match \cup {None}]
  /\ activeByUser \in [Users -> MatchIds \cup {None}]
  /\ authorized \subseteq Sessions
  /\ completed \in [MatchIds -> Completion \cup {None}]

Init ==
  /\ waiting = [u \in Users |-> None]
  /\ matches = [m \in MatchIds |-> None]
  /\ activeByUser = [u \in Users |-> None]
  /\ authorized = Sessions
  /\ completed = [m \in MatchIds |-> None]

-----------------------------------------------------------------------------
(***************************************************************************)
(* expireState: the sweep that runs on every timer tick and at the head of  *)
(* enter, poll and issueTicket; expireMatch, its part for one match, runs at *)
(* the head of every line that match's players send.                        *)
(*                                                                          *)
(* failing is the set of matches whose onMatchFinished call throws (an      *)
(* identifier the store already holds makes it throw too), and verdict the  *)
(* winners of the started matches the sweep finds lost on a clock or by     *)
(* disconnection.                                                           *)
(***************************************************************************)
InPhase(m, phases) == matches[m] # None /\ matches[m].phase \in phases

Failures == SUBSET {m \in MatchIds : InPhase(m, {"started", "finishing"})}

Verdicts ==
  {verdict \in [MatchIds -> Sides \cup {None}] :
     \A m \in MatchIds : verdict[m] # None => InPhase(m, {"started"})}

EntryLives(u) ==
  /\ waiting[u] # None
  /\ waiting[u].lease < QueueLease
  /\ waiting[u].session \in authorized

\* Mutant: the queue is not swept before it is used.
UnsweptWaiting == waiting

SweptWaiting == [u \in Users |-> IF EntryLives(u) THEN waiting[u] ELSE None]

\* Mutant: a conflicting completion replaces the stored one.
CommitsOverStored(m, failing) == m \notin failing

\* recordMatchCompletion refuses an identifier it holds with another outcome.
Commits(m, failing) == m \notin failing /\ completed[m] = None

\* Mutant: completionRetryAt is moved whenever it is reached.
RetryNeverDue(m) == InPhase(m, {"finishing"}) /\ matches[m].retry > RetryDelay

RetryDue(m) == InPhase(m, {"finishing"}) /\ matches[m].retry = RetryDelay

\* Mutant: the deadline is compared with the wrong side of the limit.
JoinNeverExpires(m) == InPhase(m, {"found"}) /\ matches[m].age > JoinTimeout

JoinExpired(m) == InPhase(m, {"found"}) /\ matches[m].age = JoinTimeout

\* Mutant: finishedAt is set when the outcome is decided, not when it is stored.
DroppedUnstored(m, failing) ==
  /\ InPhase(m, {"finishing", "finished", "reset"})
  /\ matches[m].age = ResultRetention

\* Mutant: a join timeout leaves finishedAt unset.
DroppedFinished(m, failing) ==
  /\ \/ InPhase(m, {"finished"})
     \/ RetryDue(m) /\ Commits(m, failing)
  /\ matches[m].age = ResultRetention

\* Retention is measured from the outcome, not from the commit: a match whose
\* commit came late can be dropped by the pass that commits it.
Dropped(m, failing) ==
  /\ \/ InPhase(m, {"finished", "reset"})
     \/ RetryDue(m) /\ Commits(m, failing)
  /\ matches[m].age = ResultRetention

CompletionOf(x) == [player |-> x.player, winner |-> x.winner]

\* finish: fix the outcome and its time, commit it, and publish it only if the
\* store took it.
Decided(m, winner, failing) ==
  [matches[m] EXCEPT !.winner = winner, !.age = 0, !.retry = 0,
                     !.phase = IF Commits(m, failing) THEN "finished" ELSE "finishing"]

\* Mutant: a retry that fails forgets the outcome it was to store.
RetriedForgetting(m, failing) ==
  [matches[m] EXCEPT !.phase = IF Commits(m, failing) THEN "finished" ELSE @, !.retry = 0,
                     !.winner = IF Commits(m, failing) THEN @ ELSE None]

\* commitCompletion run again on the outcome fixed before.
Retried(m, failing) ==
  [matches[m] EXCEPT !.phase = IF Commits(m, failing) THEN "finished" ELSE @, !.retry = 0]

\* The players did not both join in time.
TimedOut(m) == [matches[m] EXCEPT !.phase = "reset", !.age = 0]

\* expireMatch on match m.
Swept(m, failing, verdict) ==
  CASE Dropped(m, failing) -> None
    [] JoinExpired(m) -> TimedOut(m)
    [] RetryDue(m) /\ ~Dropped(m, failing) -> Retried(m, failing)
    [] InPhase(m, {"started"}) /\ verdict[m] # None -> Decided(m, verdict[m], failing)
    [] OTHER -> matches[m]

\* Mutant: a dropped match takes its players' assignments with it, even those
\* they have to a later match.
ReleasedByAnyDrop(u, failing, swept) ==
  \E m \in swept : (JoinExpired(m) \/ Dropped(m, failing)) /\ u \in Players(matches[m])

\* A join timeout releases both players, whatever they answer for; a dropped
\* match those still on it.
Released(u, failing, swept) ==
  \/ \E m \in swept : JoinExpired(m) /\ u \in Players(matches[m])
  \/ activeByUser[u] \in swept /\ Dropped(activeByUser[u], failing)

Settles(m, failing, verdict) ==
  /\ Commits(m, failing)
  /\ RetryDue(m) \/ (InPhase(m, {"started"}) /\ verdict[m] # None)

\* The tables after the matches in swept went through expireMatch.
SweptMatches(failing, verdict, swept) ==
  [m \in MatchIds |-> IF m \in swept THEN Swept(m, failing, verdict) ELSE matches[m]]

SweptActive(failing, swept) ==
  [u \in Users |-> IF Released(u, failing, swept) THEN None ELSE activeByUser[u]]

SweptCompleted(failing, verdict, swept) ==
  [m \in MatchIds |->
     IF m \in swept /\ Settles(m, failing, verdict)
     THEN CompletionOf([matches[m] EXCEPT !.winner = IF RetryDue(m) THEN @ ELSE verdict[m]])
     ELSE completed[m]]

\* tickMatchTimers (the clocks, then expireState), and every request that only
\* reads what it swept.
Sweep(failing, verdict) ==
  /\ waiting' = SweptWaiting
  /\ matches' = SweptMatches(failing, verdict, MatchIds)
  /\ activeByUser' = SweptActive(failing, MatchIds)
  /\ completed' = SweptCompleted(failing, verdict, MatchIds)
  /\ UNCHANGED authorized

\* A line from a player of m sweeps that match and no other.
Line(m, failing, verdict) ==
  /\ matches[m] # None
  /\ matches' = SweptMatches(failing, verdict, {m})
  /\ activeByUser' = SweptActive(failing, {m})
  /\ completed' = SweptCompleted(failing, verdict, {m})
  /\ UNCHANGED <<waiting, authorized>>

-----------------------------------------------------------------------------
(***************************************************************************)
(* The matching requests. Each authenticates the bearer, sweeps, and then   *)
(* acts on the swept tables.                                                *)
(***************************************************************************)
\* enter and poll renew the lease of an account that is already queued.
Refresh(s, failing, verdict) ==
  LET u == Owner[s] IN
  /\ s \in authorized
  /\ SweptActive(failing, MatchIds)[u] = None
  /\ SweptWaiting[u] # None
  /\ waiting' = [SweptWaiting EXCEPT ![u] = [@ EXCEPT !.lease = 0, !.session = s]]
  /\ matches' = SweptMatches(failing, verdict, MatchIds)
  /\ activeByUser' = SweptActive(failing, MatchIds)
  /\ completed' = SweptCompleted(failing, verdict, MatchIds)
  /\ UNCHANGED authorized

\* Mutant: newMatchId looks at the queue only.
RoomsNotWaiting(failing) ==
  {m \in MatchIds : \A u \in Users : SweptWaiting[u] # None => SweptWaiting[u].room # m}

\* newMatchId: never an identifier in memory, but possibly one already stored.
FreeRooms(failing) ==
  {m \in MatchIds : /\ matches[m] = None \/ Dropped(m, failing)
                    /\ \A u \in Users : SweptWaiting[u] # None => SweptWaiting[u].room # m}

\* Mutant: an account that still answers for a match may queue again.
CanJoinWhileActive(s, failing) ==
  /\ s \in authorized
  /\ SweptWaiting[Owner[s]] = None

CanJoinQueue(s, failing) ==
  /\ s \in authorized
  /\ SweptActive(failing, MatchIds)[Owner[s]] = None
  /\ SweptWaiting[Owner[s]] = None

\* Mutant: the newcomer queues without looking for an opponent first.
EnterQueueBlindly(s, failing, verdict, room) ==
  /\ CanJoinQueue(s, failing)
  /\ room \in FreeRooms(failing)
  /\ waiting' = [SweptWaiting EXCEPT ![Owner[s]] = [room |-> room, session |-> s, lease |-> 0]]
  /\ matches' = SweptMatches(failing, verdict, MatchIds)
  /\ activeByUser' = SweptActive(failing, MatchIds)
  /\ completed' = SweptCompleted(failing, verdict, MatchIds)
  /\ UNCHANGED authorized

\* enter with nobody else waiting.
EnterQueue(s, failing, verdict, room) ==
  /\ CanJoinQueue(s, failing)
  /\ room \in FreeRooms(failing)
  /\ \A other \in Users : SweptWaiting[other] = None
  /\ waiting' = [SweptWaiting EXCEPT ![Owner[s]] = [room |-> room, session |-> s, lease |-> 0]]
  /\ matches' = SweptMatches(failing, verdict, MatchIds)
  /\ activeByUser' = SweptActive(failing, MatchIds)
  /\ completed' = SweptCompleted(failing, verdict, MatchIds)
  /\ UNCHANGED authorized

NewMatch(first, second) ==
  [phase |-> "found", player |-> [side \in Sides |-> IF side = "black" THEN first ELSE second],
   dismissed |-> {}, winner |-> None, age |-> 0, retry |-> 0]

\* enter with an opponent waiting: the pair takes the opponent's room, and the
\* identifier drawn for the newcomer is discarded.
EnterPair(s, failing, verdict, other) ==
  LET u == Owner[s]
      m == SweptWaiting[other].room IN
  /\ CanJoinQueue(s, failing)
  /\ FreeRooms(failing) # {}
  /\ other # u
  /\ SweptWaiting[other] # None
  /\ waiting' = [SweptWaiting EXCEPT ![other] = None]
  /\ matches' = [SweptMatches(failing, verdict, MatchIds) EXCEPT ![m] = NewMatch(other, u)]
  /\ activeByUser' = [SweptActive(failing, MatchIds) EXCEPT ![other] = m, ![u] = m]
  /\ completed' = SweptCompleted(failing, verdict, MatchIds)
  /\ UNCHANGED authorized

\* cancel leaves the queue; once paired it loses the race and changes nothing.
Cancel(s) ==
  /\ s \in authorized
  /\ waiting[Owner[s]] # None
  /\ waiting' = [waiting EXCEPT ![Owner[s]] = None]
  /\ UNCHANGED <<matches, activeByUser, authorized, completed>>

\* Mutant: dismissing a result deletes it for the opponent too.
ResetForBoth(s) ==
  LET u == Owner[s]
      m == activeByUser[u] IN
  /\ s \in authorized
  /\ waiting[u] = None
  /\ m # None
  /\ InPhase(m, {"finished", "reset"})
  /\ matches' = [matches EXCEPT ![m] = None]
  /\ activeByUser' = [activeByUser EXCEPT ![u] = None]
  /\ UNCHANGED <<waiting, authorized, completed>>

\* reset: a player dismisses the result of a finished match.
Reset(s) ==
  LET u == Owner[s]
      m == activeByUser[u] IN
  /\ s \in authorized
  /\ waiting[u] = None
  /\ m # None
  /\ InPhase(m, {"finished", "reset"})
  /\ matches' = [matches EXCEPT ![m] = [matches[m] EXCEPT !.dismissed = @ \cup {u}]]
  /\ activeByUser' = [activeByUser EXCEPT ![u] = None]
  /\ UNCHANGED <<waiting, authorized, completed>>

-----------------------------------------------------------------------------
(***************************************************************************)
(* The battle as matchmaking sees it: the second playgame starts a match    *)
(* (its handler sweeps that match first, so a late one cannot), and a       *)
(* resignation, a battle or an exhausted clock decides it.                  *)
(***************************************************************************)
Start(m) ==
  /\ InPhase(m, {"found"})
  /\ ~JoinExpired(m)
  /\ matches' = [matches EXCEPT ![m] = [@ EXCEPT !.phase = "started", !.age = 0]]
  /\ UNCHANGED <<waiting, activeByUser, authorized, completed>>

\* Mutant: finish fixes the outcome anew each time it is called.
DecideAgain(m, winner, failing) ==
  /\ InPhase(m, {"started", "finishing"})
  /\ matches' = [matches EXCEPT ![m] = Decided(m, winner, failing)]
  /\ completed' = [completed EXCEPT ![m] =
       IF Commits(m, failing) THEN CompletionOf(Decided(m, winner, failing)) ELSE @]
  /\ UNCHANGED <<waiting, activeByUser, authorized>>

\* finish, then commitCompletion.
Decide(m, winner, failing) ==
  /\ InPhase(m, {"started"})
  /\ matches' = [matches EXCEPT ![m] = Decided(m, winner, failing)]
  /\ completed' = [completed EXCEPT ![m] =
       IF Commits(m, failing) THEN CompletionOf(Decided(m, winner, failing)) ELSE @]
  /\ UNCHANGED <<waiting, activeByUser, authorized>>

-----------------------------------------------------------------------------
(***************************************************************************)
(* The environment: the clock, the account store, and the process.          *)
(***************************************************************************)
AgedEntry(u) == [waiting[u] EXCEPT !.lease = Older(@, QueueLease)]

AgedMatch(m) ==
  [matches[m] EXCEPT !.age = Older(@, AgeLimit(matches[m].phase)),
                     !.retry = IF matches[m].phase = "finishing" THEN Older(@, RetryDelay) ELSE @]

Tick ==
  /\ waiting' = [u \in Users |-> IF waiting[u] = None THEN None ELSE AgedEntry(u)]
  /\ matches' = [m \in MatchIds |-> IF matches[m] = None THEN None ELSE AgedMatch(m)]
  /\ UNCHANGED <<activeByUser, authorized, completed>>

\* The device is removed, or the token expires: synchronous and final.
Revoke(s) ==
  /\ s \in authorized
  /\ authorized' = authorized \ {s}
  /\ UNCHANGED <<waiting, matches, activeByUser, completed>>

\* The process dies and restarts: the constructor's empty maps.
Crash ==
  /\ waiting' = [u \in Users |-> None]
  /\ matches' = [m \in MatchIds |-> None]
  /\ activeByUser' = [u \in Users |-> None]
  /\ UNCHANGED <<authorized, completed>>

Request(s, failing, verdict) ==
  \/ Refresh(s, failing, verdict)
  \/ \E room \in MatchIds : EnterQueue(s, failing, verdict, room)
  \/ \E other \in Users : EnterPair(s, failing, verdict, other)

Next ==
  \/ \E failing \in Failures, verdict \in Verdicts :
       \/ Sweep(failing, verdict)
       \/ \E m \in MatchIds : Line(m, failing, verdict)
       \/ \E s \in Sessions : Request(s, failing, verdict)
  \/ \E failing \in Failures, m \in MatchIds, winner \in Sides : Decide(m, winner, failing)
  \/ \E s \in Sessions : Cancel(s) \/ Reset(s) \/ Revoke(s)
  \/ \E m \in MatchIds : Start(m)
  \/ Tick
  \/ Crash

Spec == Init /\ [][Next]_vars

\* The timer runs every timerIntervalMs whatever the clients do, and a store
\* failure is transient: a sweep that keeps finding work to do is at some point
\* run with every commit taken. No fairness is assumed of any client.
FairSpec ==
  /\ Spec
  /\ WF_vars(Tick)
  /\ SF_vars(\E verdict \in Verdicts : Sweep({}, verdict))

-----------------------------------------------------------------------------
(***************************************************************************)
(* Safety.                                                                  *)
(***************************************************************************)
\* Whoever enters while another waits is paired by that very call, so the queue
\* never holds two entries, and the "first other entry" that enter looks for is
\* the only one; and the queued account answers for no match, so that neither
\* poll nor enter can report one while a second pairing is still to come.
OneFreeEntry ==
  /\ \A u, v \in Users : waiting[u] # None /\ waiting[v] # None => u = v
  /\ \A u \in Users : waiting[u] # None => activeByUser[u] = None

\* A room handed out by the queue is not the identifier of any match in memory:
\* pairing under it cannot overwrite a live match or a retained result.
RoomIsUnused == \A u \in Users : waiting[u] # None => matches[waiting[u].room] = None

\* The players of a match are two different accounts.
TwoPlayers ==
  \A m \in MatchIds : matches[m] # None =>
    matches[m].player["black"] # matches[m].player["white"]

\* The index from accounts to matches is exact in both directions: an account
\* answers for a match if and only if that match is in memory, was not reset by
\* the join timeout, and the account plays in it and has not dismissed it. So
\* nobody can be evicted from an assigned match, lose a result because the
\* opponent dismissed it, or play in two matches at once.
ActiveIndexExact ==
  \A u \in Users, m \in MatchIds :
    activeByUser[u] = m <=>
      /\ InPhase(m, Phases \ {"reset"})
      /\ u \in Players(matches[m]) \ matches[m].dismissed

\* Only a match with a published result can have been dismissed.
DismissedIsFinished ==
  \A m \in MatchIds : matches[m] # None /\ matches[m].dismissed # {} =>
    matches[m].phase = "finished"

\* A result shown to the players is the one the account store holds: finish
\* commits before it publishes, and a stored outcome is never overwritten.
PublishedIsDurable ==
  \A m \in MatchIds : InPhase(m, {"finished"}) =>
    completed[m] = CompletionOf(matches[m])

\* A match has a winner exactly when it is decided.
DecidedHasWinner ==
  \A m \in MatchIds : matches[m] # None =>
    (matches[m].winner # None <=> matches[m].phase \in {"finishing", "finished"})

(***************************************************************************)
(* What no step may do.                                                     *)
(***************************************************************************)
\* The account store never forgets or rewrites a completed match.
StoredForever ==
  [][\A m \in MatchIds : completed[m] # None => completed'[m] = completed[m]]_vars

\* The queue pairs only with an account whose lease has not run out and whose
\* bearer is still authorised when the pairing happens.
PairsLiveEntries ==
  [][\A m \in MatchIds : matches[m] = None /\ matches'[m] # None =>
       \E u \in Players(matches'[m]) :
         /\ waiting[u] # None
         /\ waiting[u].room = m
         /\ waiting[u].lease < QueueLease
         /\ waiting[u].session \in authorized]_vars

\* A match leaves the memory of a living server only when it is settled: it was
\* never started, or the store holds the outcome it ended with. (A crash empties
\* every table at once.)
OnlySettledIsDropped ==
  [][Crash \/ \A m \in MatchIds : matches[m] # None /\ matches'[m] = None =>
       \/ matches[m].phase = "reset"
       \/ matches[m].phase \in {"finishing", "finished"} /\ completed'[m] = CompletionOf(matches[m])]_vars

(***************************************************************************)
(* What must happen.                                                        *)
(***************************************************************************)
\* A pairing whose players do not both join is given up.
PairingIsResolved == \A m \in MatchIds : InPhase(m, {"found"}) ~> ~InPhase(m, {"found"})

\* A decided match gets its result published (or is dropped as too old, once
\* stored), unless an older match already took its identifier in the store.
OutcomeIsPublished ==
  \A m \in MatchIds : InPhase(m, {"finishing"}) /\ completed[m] = None
                         ~> ~InPhase(m, {"finishing"})

\* Results are not retained for ever.
RetentionEnds == \A m \in MatchIds : InPhase(m, {"finished", "reset"}) ~> matches[m] = None

\* Whatever the clients do, a match moves on: an unjoined pairing is given up, a
\* decided match is published, a result is dropped (the deadlines of expireMatch).
MatchesSettle == PairingIsResolved /\ OutcomeIsPublished /\ RetentionEnds

(***************************************************************************)
(* Every identifier goes through the life MatchLifecycle promises.          *)
(***************************************************************************)
PhaseOf(m) == IF matches[m] = None THEN "none" ELSE matches[m].phase
OutcomeOf(m) == IF matches[m] = None THEN None ELSE matches[m].winner
DurableOf(m) == IF completed[m] = None THEN None ELSE completed[m].winner

Lifecycle(m) == INSTANCE MatchLifecycle WITH
  NoOutcome <- None, phase <- PhaseOf(m), outcome <- OutcomeOf(m), durable <- DurableOf(m)

\* Matchmaking, the sweep and the crash keep the lifecycle of every identifier.
\* (The conjunction of Lifecycle(m)!Spec over all identifiers m.)
ImplementsLifecycle ==
  /\ \A m \in MatchIds : Lifecycle(m)!Init
  /\ [][\A m \in MatchIds : [Lifecycle(m)!Next]_(Lifecycle(m)!lifecycleVars)]_vars
=============================================================================
