# Kiwi Duel Server: a TLA+ verification project

Kiwi Duel Server is a single Node.js process that serves a figure duel game:
accounts over HTTP, match play over a line protocol on TCP or WebSocket, and an
SQLite account store. This directory models its stateful parts in TLA+, checks
the models with TLC on small instances, and proves the most important of the
properties with TLAPS for every value of the constants.

Paths and line numbers below are relative to `src/`.

## 1. Inventory

| Component | State | Operations | Interacts with |
|---|---|---|---|
| Matchmaking, `server/human-match-service.mjs` | `waiting`, `matches`, `activeByUser`, `sessionUsers`; `pendingCompletion` of a match | enter, poll, userInfo, cancel, reset, pair, expireState, finish, commitCompletion, completedResult | account store (authorisation, `completed_matches`), HTTP front |
| Battle connections, same file | `tickets`, each peer's socket, `ready`, `disconnectedAt`, bearer | issueTicket, attach, `@login`, playgame, rejectConnection, closeRevokedPeer, close events | matchmaking, turn engine, sockets |
| Match clock, same file and `server/custom-match-engine.mjs` | `presentationClock`, `activeClockSide`, `clockStartedAtMs`, `blackTimeMs`/`whiteTimeMs`, `resolving` | armPresentationClock, startMatchClock, pauseMatchClock, syncMatchClock, tickMatchTimers, `time`, `timer_start` | turn engine, wall clock |
| Move link, same file | `clientSendIndex`, `serverSendIndex` of a peer | `sequence` envelopes, sendPeer, sendPlayGame | clients |
| Turn engine, `server/custom-match-engine.mjs` and its rule modules | the record, positions, effects, pending battles/respin/spins/knockouts/jump/grudge/touch | acceptPlayerMove, declareBattle, performBattleSpin, completeBattleResolution, endTurn, delayed continuations (`setTimeout`) | clock, ledger, exclusions, plates |
| Completed-turn ledger, `server/completed-turn-ledger.mjs` | completion causes and checkpoints inside the record | proposeCompletion, commitCompletion, restoreLedger | turn engine, timed exclusions |
| Timed exclusions, `server/timed-exclusion-state.mjs` | exclusions with their remaining completed turns | createState, begin1692Removal, advanceCompletedTurn | none yet: the engine does not call it |
| Plates and Z skills, `plate-state`, `plate-restrictions`, `sphere-plates`, `z-skill-*`, `z-gauge-rules` | plate conditions of a turn, the Z transaction | declare, filter, settle | turn engine |
| Training matches, `server/custom-match-engine.mjs` | per-session matches, socket, opponent controller | createMatch, attach, reset | HTTP front |
| Account store, `server/account-store.mjs` | SQLite: accounts, devices, links, sessions, inventory, chests, decks, completed matches | login, link, authenticate, revoke, startChest, claimChest, createMatchChest, recordMatchCompletion | everything |
| Login rate limiter, `server/ip-rate-limiter.mjs` | insertion-ordered `Map`, `lastNow` | consume, snapshot | HTTP front, system clock |
| Battle WebSocket admission, `server/battle-websocket.mjs` | connection counts, heartbeat marks | upgrade, heartbeat, close | HTTP front, battle connections |
| Content releases, `content-release-store`, `content-protocol` | manifest, verification cache | open, verify, serve | file system |
| HTTP front, account site, back-up tool, readiness, deployment, launcher | little or none | routing, formatting, start-up | the services above |

### What is hard here

Handlers of the JavaScript process run to completion, so there is no data race;
the difficulty is in the order of handlers. Clients disconnect, reconnect,
repeat themselves and keep half-closed sockets; close events arrive after the
successor of a connection has logged in; deadlines are noticed by whichever of
timer, request or line looks first; the account store may refuse or fail a
commit and be asked again a second later; the process may die with a decided
match in memory; tokens are revoked under live connections; battles continue
in delayed callbacks; the system clock of the rate limiter may be set back.
`PROJECT.json` lists each hazard at its line with the properties that cover
it; of the two that no property covers it says why.

## 2. What correctness means, component by component

* **Matchmaking** – one account waits at most; nobody is both waiting and in a
  match; the waiting account's reserved identifier is free; `activeByUser` is
  exactly "this account still has to answer for this match"; a published
  result is the stored one; a stored result is never rewritten; an outcome is
  decided once and dropped only when settled; pairings, undelivered outcomes
  and retained results end.
* **Battle connections** – one live connection for a side, tickets only for
  the present match and account, every absence of a match in play timed from
  its first moment, no reconnection after the grace, of two absent players the
  first to leave loses, a revoked bearer is refused and disconnected.
* **Match clock** – think time equals that of a clock nobody has to look at;
  a client cannot lengthen a grace or stop a clock; a thinker cannot think for
  ever.
* **Move link** – whatever a broken connection swallows, delivers or repeats,
  each side's moves are read once and in order, and after a resynchronisation
  neither side misses one.
* **Turn engine** – somebody can always go on; input is locked while a delayed
  step is owed and unlocked in the end; a battle changes the board once; a
  callback that comes too late changes nothing.
* **Center and knockouts** – no two figures in one place and no figure where
  its side has no business, after any sequence of movements and battles;
  knockouts carried out by delayed steps give the board of knocking out at once
  and are never blocked.
* **Completed-turn ledger** – turns do not share a move, end in the match's own
  record, are numbered without a gap and are never taken back.
* **Timed exclusions** – a figure comes back on the seventh completed turn,
  however late or often the turns are reported.
* **Rate limiter** – the answers are those of windows that vanish when they
  end, for any behaviour of the system clock; an active limit stands.
* **WebSocket admission** – a place is given back when its client is gone or
  its session revoked.
* **Devices, links and sessions** – a bearer belongs to the account that owns
  its installation; a code waits only for an installation nobody owns; what a
  user or a client has in hand stays good while it should; abandoned codes
  block nobody; only expiry can fail a login.
* **Chests** – a slot each, one chest per award, no reward wasted while others
  are left, an exact history, no way back and no early claim.
* **Decks** – owned, within the cost limit except for the one preserved list,
  numbered without a gap, paid.

## 3. Modules

| Module | Models | Reads with |
|---|---|---|
| `MatchLifecycle` | abstract: what is promised of one match identifier (found, started, decided once, shown only when stored) | – |
| `Matchmaking`, `MCMatchmaking` | queue, pairing, match table, account index, commit, retention, revocation, crash | implements `MatchLifecycle` for each identifier |
| `MatchmakingProofs` | inductive invariant and theorems of `Matchmaking` | TLAPS |
| `BattleConnection`, `MCBattleConnection` | tickets, logins, socket replacement, close events, deadlines and telling the result, for one match | implements `MatchLifecycle` |
| `BattleConnectionProofs` | inductive invariant, theorems and the refinement of `BattleConnection` | TLAPS |
| `IdealClock` | abstract: think time with one perfect clock | – |
| `MatchClock` | presentation deadline and clocks as the code keeps them | implements `IdealClock`; `MCEdge` |
| `MatchClockProofs` | inductive invariant, theorems and the refinement of `MatchClock` | TLAPS |
| `TurnEngine` | what is pending in a turn, the delayed steps, the locks, with two clients or the training opponent | – |
| `TurnEngineProofs` | types, one outcome per battle, one callback owed | TLAPS |
| `Center` | places of the figures, Waits, surrounding, knockouts at once and by delayed steps | `MCBookkeeping` |
| `CenterProofs` | inductive invariant and theorems of `Center` | TLAPS |
| `CompletedTurns` | the ledger: causes, commits, snapshots, restores, replays | `MCBookkeeping` |
| `TimedExclusions` | removal for seven completed turns and return | `MCBookkeeping` |
| `BookkeepingProofs` | inductive invariants and theorems of `CompletedTurns` and `TimedExclusions` | TLAPS |
| `MoveLink` | numbered lines, breaks and resynchronisation between one player and the match | `MCEdge` |
| `BattleSocket` | admission, heartbeat, close events and shutdown of the battle WebSocket | `MCEdge` |
| `FixedWindow` | abstract: a rate limit whose windows vanish when they end | – |
| `RateLimiter` | the insertion-ordered table, reclaimed lazily | implements `FixedWindow`; `MCEdge` |
| `EdgeProofs` | inductive invariants and theorems of `MoveLink` and `RateLimiter`, the refinement of `RateLimiter` | TLAPS |
| `DeviceAccess`, `MCDeviceAccess` | installations, link codes, bearers, their expiry and clean-up in the account store | `MCInventory` |
| `Chests` | awards, unlocking and claims of one account, with the history | `MCInventory` |
| `Decks` | deck edits, expansion and the completion of decks at a start; shares the figures owned with `Chests` | `MCInventory` |
| `AccountStoreProofs` | inductive invariants and theorems of `Chests`, `Decks` and `DeviceAccess` | TLAPS |

`MCEdge`, `MCBookkeeping` and `MCInventory` check several small components in
one run. They are sums, not products: a variable `part`, chosen initially and
never changed, says which component moves, and the others stand still in an
initial state. The components of a sum share no state in the code either
(`MCInventory`: only that figures owned become more), so a sum shows of each
exactly what a run of its own would. `MCDeviceAccess` has the installations
alone, for the run that shows a finding about them.

Operators named `Unswept…`, `Late…`, `Eager…` and the like, each under a
comment that begins "Mutant:", are plausible mistakes; the behaviour
specifications do not use them. `PROJECT.json` ("mutants") pairs every property with one it must
reject.

### Matchmaking

Variables are the `Map`s of the service (`waiting`, `matches`,
`activeByUser`), the bearers the account store accepts (`authorized`) and the
table `completed_matches` (`completed`), the only one that survives `Crash`.
Each HTTP operation is an action (`Request(s, …)` for enter/poll/userInfo,
`Cancel`, `Reset`), preceded by the sweep exactly where the code calls
`expireState`: `cancel`, `reset` and the result query do not sweep. `Line(m, …)` is the
`expireMatch` that each line of a connection runs first, `Start` the second
playgame, `Decide` a match won in play, `Sweep` the timer. A failing store is
the argument `failing`; the winner that clocks or absences produce inside a
sweep is the argument `verdict`.

Two facts of the code worth knowing: `pair` uses the identifier drawn when the
*waiting* account entered, while the newcomer's draw is discarded (though a
free identifier must exist even then); and retention is counted from the
decision, so a commit that succeeds late may be dropped in the sweep that
made it.

### BattleConnection

One match, two sides, several connections. `World` gathers the state, and the
handlers are written as functions on it in the order the code calls them
(`Swept`, then the body); a handler is one action (`Becomes`). `conn[c].link`
tells an open connection from one the server ended or destroyed and whose
close event is still due, and the event may come at any later time or, for an
ended half, never. Moves and clocks are nondeterministic decisions of the
match (`Command`, `Continuation`, `TimerTick`), because this module is about
who may speak and who is told. The numbers of the lines are the subject of
`MoveLink`.

### MatchClock

`since` is "now minus the moment the current clock counts from", which is all
the code ever computes from its time stamps. One handler is one instant: the
model does not let the clock advance between two reads inside a handler. The
actions follow the line handler (`Look`, `TimerStart`, `Lock`, `Move`,
`Decline`, `FinishingMove`), the delayed steps (`Continue`,
`ContinueKnockouts`, `ContinueInvalid`) and `expireMatch` (`Disconnect`).
What the turn engine decides (whose turn, who chooses, how long the authored
animation is) is chosen freely, so the results hold for every rule set. An
accepted move is assumed to be appended: the engine checks the same record
before pausing the clock.

The clock refinement has one deliberate weakness, and it is the code's:
`IdealClock!Deliver`. Declining a respin whose battle still needs secondary
wheels or knockout choices hands the choice back and arms a clock while a
delayed step is still owed (`settling`), and when that step comes it arms the
next clock without reading the present one. The time since somebody last
looked is then forgiven, so how much depends on when the timer last ran.
Everywhere else the ideal clock is exact to the unit.

### TurnEngine

One variable, the match as a record with the code's field names, and one
function on it for each function of the engine. A record of moves is only its
length: `Grow` appends, and a pending object carries the length (or the entry)
that identifies it, which is all its callback compares. `timers` are the
callbacks of `setTimeout` that are still to come; any of them may be called
next. Two things are there for the properties only: a callback carries how many
turns were complete when it was scheduled, and `late` remembers that a call of
the training opponent left over from a former turn has played (`Late`; see
Findings). The board, the wheels and the skills decide freely:
which battles a move opens, how many wheels and faints a battle has, whether
the winner leaps. `Pauses` is `pauseMatchClock`: the clock may run out under any
move, and the store may then fail. In the human variant both sides are clients
and `resolving` locks the input; in the training variant white's moves are
callbacks (`playOpponentTurn` and the three `scheduleOpponent…`), answered
through the handlers a client uses. Left out: the Z transaction, replies, and
the plates an `opponentPlateMode` other than `off` lets white play. The gauge
awards of one battle or turn count as one entry of the record, whose
reserve is what the bound on it is about. A delayed step that finds the record or
the board in a state that `preflightTurnRecord`, the ledger or a knockout plan refuses
gives up in the code; the model has no such step, as the invariants of the ledger
and of `Center` say those states are not reached. Two ways of giving up are
simply left out, and `NobodyIsStuck` claims nothing for them: a wheel of a Grudge's target
without a segment (`performPendingGrudge`, 2177–2185), and a surrounding by a
replacement that the engine does not implement (`surround_replacement_unimplemented`).

The engine's comments say that a leap without a landing and a chain of extra
battles stay open on purpose; `NobodyIsStuck` leaves out those two, and a record
that is full. It, `InputIsLocked` and `StaleStepsChangeNothing` also leave out
what follows a late call, which does break them; `OneOutcomePerBattle` holds
even then.

### Center

The other half of the engine, with the geometry free: where the figures stand.
Places are numbered as in the code, for any number of points and figures.
`board.cursed` and `board.battled` stand for the marks a figure gets on the
field. `Plannable` is `planKnockoutRelocations` for a list of targets, `Batch`
applies it, `Stage` and `PerformKnockout` are the same thing carried out by
delayed steps, which plan again each time. Which figures a movement surrounds,
whom an attack hits, and whom `knockoutChoiceSource` picks next are chosen
freely among those for which a plan exists; the plan's existence for the
staged ones is what `KnockoutsNeverBlock` shows.

An operation of the engine goes through several boards on its way, and each of
them may be chosen, so what it can end on is a set: `Surroundings` is what a
recovery or a movement surrounds, `Arrivals` a movement with the curse a Grudge
may put on somebody as it enters the field, `Begun` a declared battle
after the attacked figure woke, `Landings` the winner's leap with who falls by it,
`MarkedBoards` what is noted of the two who fought, `Settling` the two
surroundings a battle settles with. `mover` is whose turn is still open, `extra`
that it has leapt and may battle once more; `Leap` then leaves the turn open, and the
second battle settles the first one in `Begun`. Left out: a first battle
whose settling removes one of the two who go on, a second leap of another
figure (the engine leaves that chain open), and the goal, which ends the match.

### CompletedTurns and TimedExclusions

Both modules of the code are called with values their callers keep, so the
models hand them anything a caller could have: causes proposed on any prefix of
the record or on a record that went another way, checkpoints of any age,
journals of any length. A digest stands for what it is a digest of, so a
cause carries the prefix it binds. In `TimedExclusions` the caller's record runs
ahead of what it has reported by as much as it likes (`MaxUntold`), and only
consecutive movements of alternating sides are ever accepted as a count. The
battle that removes a figure is named by the index of its spin.

### MoveLink

`client` is one player, as the tests of the repository have it, `server` the
peer's `clientSendIndex` (`got`), `serverSendIndex` (`sent`) and the record; the
two lists are lines under way. A connection may be lost with lines under way
in both directions, before the server notices (`Connect` replaces it) or after
(`Lost`). The player may repeat its last line while it is on the same
connection; after a loss it asks with a `playgame` and numbers on from the
answer. A second `playgame` on the same connection is left out: the tests'
clients do not send one.

### BattleSocket

`clients` is the `Map` of connections. A connection counts until its close
event, which is why a place is not free at the moment the server destroys the
socket (`torn`) or the client is gone (`gone`). `alive` is the mark of the
heartbeat; `authenticate` fails for any session at any beat (`failing`), and
a revoked session stays revoked. The limit itself holds by the guard of
`Upgrade` and is not worth a property; what is worth one is that places come
back.

### RateLimiter

`now` is the system clock and may be set to anything at any moment
(`SetClock`); `lastNow` is the monotone stamp. A request is a pair of literals
(socket peer, forwarded header) and `ClientAddress` keeps the trust decision:
the peer must be spelled exactly as configured, only the key is canonical.
`Canonical` is a constant map because `isIP` and `URL` are library functions.
A clock near `MAX_SAFE_INTEGER` makes the operation throw before it changes
anything, so it is simply not enabled there. `retry_after_seconds` is a
formatting of `resetAt` and is left out.

### DeviceAccess

`links`, `requests` and `sessions` are the SQLite tables `device_links`,
`device_link_requests` and `game_sessions`; they survive `Restart`. Each
transaction is one action. A row carries the time it has `left`; `Tick` lets
it run down to 0, "expired". The system clock and the clean-up interval
advance together and are not set back here. The one place where the
granularity of time matters is inside `beginDeviceLogin`: the forced clean-up
reads the clock (963), the transaction reads it again (533, 625), and a row
may expire in between (`late`). A unique-index failure is the answer
`error`. `reusable` tells rows with a nonce from those an earlier version of
the schema wrote; the initial states include the latter. The web side is
represented by `LinkDevice`, `RevokeDevice`, and the seeding of an account
that `Restart` may perform; passwords and browser sessions are left out.
Codes and bearers are known by their row: the text of a code is only drawn
and compared, and a new one is any text no row has, so it is never refused.
When the store opens, codes of an earlier version's column are copied to
rows of `device_links` (311–313); in the model they are there from the start.

### Chests and Decks

Both model one account; no operation reads another account's rows. In
`Chests` a chest is known by what it was awarded for, which is the unique
`source_key`. Everything is one transaction, except that `startChest` updates
the row and writes the event in two statements with nothing around them, so
a crash in between loses the event. The catalogue is a constant: packaged data
that the module takes to be the same across restarts. In `Decks` the initial
states are accounts of any version, with any number of decks, and
`EnsureInitialDecks` completes them when the server starts; the starter list
may be over the cost limit, the case the code's exception for an unchanged
list is for. A deck's name and the history of deck edits are left out, and
figures come in by `AcquireFigure`, the effect of a claim.

## 4. Runs

| Run | Instance | Shows |
|---|---|---|
| `matchmaking` | 3 accounts and 3 identifiers, either 2 identifiers or 2 accounts at a time | one free entry waits, pairings with live entries, identifiers and index, no unsettled match dropped, and the refinement of `MatchLifecycle` |
| `matchmaking_live` | 2 accounts, 2 identifiers, fair timer and store | pairings, outcomes and retention end |
| `battle_connection` | 3 connections, grace 2 ticks, timer up to 1 tick late, retention longer than the retry delay | connection, ticket and absence properties, the result told only when stored; refinement of `MatchLifecycle` |
| `battle_live` | 2 connections, fair timer | absences and revocations are resolved |
| `turn_engine` | 4 turns, both variants, up to 2 secondary wheels, up to 3 faints | somebody can go on, locks, one outcome for a battle, late callbacks do nothing |
| `turn_locks` | 2 turns of two clients, the same wheels and faints, fair callbacks | locks are released |
| `respin_twice` | the same, with a secondary wheel after a respin that was offered | **a violation, expected** (see Findings) |
| `late_opponent` | the training variant, 4 turns, no secondary wheels or faints | **a violation, expected**: a call left over from one turn plays another (see Findings) |
| `bookkeeping` | sum of the ledger (records of 3 moves, 2 turns), the Center (3 figures against 1 on 3 points, marks of curses and battles on one of each side) and the timed exclusion (3 figures, records of 9 moves) | disjoint turns and kept history; sound boards and knockouts by steps; return on the seventh turn |
| `edge` | sum of the rate limiter (5 spellings, 4 addresses, limit 2, window 2, capacity 2, times 0–7), the socket (2 places, 3 sessions of 2 users) the link (4 moves, 5 numbers for each direction) and the match clock (budget 4 units, allowances 0, 1, 3) | refinement of `FixedWindow`; places given back; both sides in step; clock invariant, refinement of `IdealClock`, thinking ends |
| `device_login_race` | the installations of `inventory` | **a violation, expected**: a login can fail on the unique index (see Findings) |
| `inventory` | sum of the chests (4 awards, 3 slots, 3 rewards of 4 figures), the decks (2 figures, 2 plates, 2 initial and at most 3 decks, gems for one) and the devices (3 installations, 2 accounts, 2 may be pending, 2 codes each, lives of 2) | slots, rewards, history; ownership, cost exception, numbering; ownership of bearers and codes, durability of credentials in use, just refusals |

**Why the bounds are enough to be interesting.** Deadlines are one or two
ticks because the code only asks whether a deadline has been reached, so ages
stop at their limit without losing behaviour (this is a saturation, not a
cut). Three accounts are needed for a third one to meet a waiting or a just
paired account; two identifiers let one match be retained while the next is
played, three let both accounts of a finished match be paired again while an
entry reserves a third (`Small` takes these two cases together, not their
product). Three connections let one side have an old and a new
connection while the other is live. A timer that is late by a tick is what
separates "the grace ran out" from "somebody noticed". Budget 4 with an
allowance of 3 lets graces, partial charges and overruns meet; the times 0–7
of the rate limiter let a window be opened, survive a clock set back, end,
and be opened again, with the table full in between. Three installations and
room for two pending ones let capacity be reached and released by expiry; two
codes each let an earlier version's code stand beside a reusable one, and
lives of two ticks let a clean-up fall before, at and after an expiry. Four
awards do not fit in three slots and need more than the three rewards, and a
figure no chest holds keeps "owned" and "rewards" apart; the decks only see
that the figures owned become more, and two figures (`Small`) tell lists apart.
The starter list of cost 3 against a limit of 2 makes the exception for
preserved lists bite.

In `turn_engine` four turns let callbacks of a turn be called in the next, or in
the next of the same side, and the ledger fill up (with two, white's second
turn, the only one a late call can play, never comes); two wheels and three faints let every kind of step follow one of its own
kind; 71 entries, a little over the 65 that a declaration reserves, let a
record be too full for another turn, while the steps of a turn that was begun
must find the room it reserved.
`WheelsAfterRespin` is 0 in `turn_engine`: with 1 the engine's properties fail
by the defect that `respin_twice` shows, and everything else is checked
without it. `turn_locks` has two turns: liveness costs more, the lock is one of
a turn, and every kind of step is in them; only clients lock input, so it
leaves the training variant out. In `bookkeeping` three figures of a side fill a
Center and leave one to knock out, and may faint by one battle; attacks give no
Wait (`AttackWaits`; the proofs allow any), since it is the 2 of a released figure
that matters, and one movement, recovery or settling surrounds one figure at
most (`MostFallen`). A board with a curse or the mark of a battle on other
figures than `MarksOn`, one of each side, is checked but not played on
(`Bounded`). The ledger, whose sides are alike, lets black move first, and has
one reload and one checkpoint (`ShortLedger`); a caller of the timed exclusion
is at most three moves ahead of what it has told (`ToldInTime`). A record of nine is
a turn before the removal, its two entries and the six movements. In
`edge` four moves and five numbers let moves cross, be lost with the
connection, and be answered after a resynchronisation.

**Symmetry** is used only for safety runs, over accounts with one bearer each
(bearers move with their accounts), identifiers, connections, installations
and matches; no property distinguishes them.

**Deadlock** is checked except where the system stops: the runs of `TurnEngine`
and `edge`, at a decided match; `inventory`, when every chest is claimed;
`bookkeeping` and `edge`, where records and numbers reach their bound and a
closed socket is empty.

**Fairness.** `matchmaking_live`: weak fairness of time, and strong fairness
of a sweep in which the store works: `setInterval` runs `tickMatchTimers`
whatever clients do, and a store failure is transient (the code's own retry
rests on that). Nothing is assumed of clients. The one outcome that is never
published is excluded in `MatchesSettle` itself: an identifier that
another completion already occupies in the store, possible only when a
restarted process draws a number it had used before. `battle_live`: weak
fairness of time and of the timer, none for clients, close events or the
store. `turn_locks`: weak fairness of the callbacks of each kind, which
`setTimeout` calls in the end; none for clients. `edge`: weak fairness of the
heartbeat, an interval, and of the close event that follows a socket torn down
by the server; of time and of looking at the match clock (`tickMatchTimers`
again); none for clients, moves, `timer_start` or delayed steps.

**Findings.** `device_login_race` shows that `LoginNeverFails`, which the
comment at `server/account-store.mjs:526`–`528` suggests, does not hold: a
reusable code or bearer whose expiry lies between the clean-up's reading of
the clock and the transaction's is neither deleted nor found, and the row that
should replace it violates the unique index. The window is the time between
two readings of `Date.now`, and the next attempt succeeds.
`OnlyExpiryFailsALogin` of `inventory` is the complement: nothing else
fails a login.

`respin_twice` shows that `RespinChoiceStands`, the promise of the comment at
`server/custom-match-engine.mjs:1945`–`1947`, fails for a battle that offered a
respin and still owes a secondary wheel. Declining applies the battle and
schedules the wheel but leaves `pendingRespin` set (the branches for knockouts
and leaps clear it), so the respin can be declared afterwards: the scheduled
wheel finds a longer record and gives up, the other wheel spins again, and a
second outcome is applied to the board the first one has changed.

`late_opponent` shows that the training opponent is not always paced, as the
comment at `server/custom-match-engine.mjs:2085`–`2087` wants it
(`OpponentIsPaced`). `acceptTouchRecovery` (2134–2135) and
`performPendingGrudge` (2207–2210) schedule `playOpponentTurn` after every
completed turn, also after one that white has just played itself. The call names
no turn and asks only whether white is to move. If black moves before it is due
it plays white's next turn at once, and the call that black's turn has
scheduled for it comes when that turn is under way: the match ends as
`invalid_opponent_battle` (3030), or another figure moves while a probability or
a leap is pending, and that one is never settled. The due call may even end a
turn whose declaration is still to be resolved, and the resolution then acts in
a later one. This is the exception in `StaleStepsChangeNothing`, and the reason
for `late` there, in `NobodyIsStuck` and in `InputIsLocked`, which fail behind
such a call.

## 5. Proofs

All proofs are checked by TLAPS with SMT, Zenon and the temporal back-end, from
the modules' named assumptions only (limits are positive naturals, a match has
two sides, `None` is no value of the data, each bearer has one owner, each
spelling has at most one canonical address, the lists an account starts with
are within the sizes of a deck, `Nobody` is neither a figure nor the record of a
step). Theorems of `TurnEngineProofs` have hypotheses besides:
`WheelsAfterRespin = 0` and, for one of them, `RecordSuffices` (see there).

**MatchmakingProofs.** `Invariance` proves `Spec => []IInv` with
`IInv == authorized \subseteq Sessions /\ Fine(waiting, matches,
activeByUser, completed)`. The checked invariants are not inductive alone:
that `activeByUser` is exact needs the two players of a match to differ and
that dismissals are recorded only of finished matches; that a published result
is the stored one needs a winner exactly in the phases `finishing` and
`finished`; that a pairing overwrites nothing needs that the room of a waiting
entry is free. `Fine` is stated on four tables passed as arguments because the
requests act on *swept* tables within one step: a sweep is shown to turn fine
tables into fine tables (`SweptTables`), each handler body to keep fine tables
fine (`JoinFine`, `RefreshFine`, `PairFine`, …), and each action composes the
two. From it follow `TypeCorrect`, `OneWaits`, `RoomIsFree`, `IndexIsExact`,
`PublishedIsStored`, and the action property `StoreIsMonotone`.

What a step may do to the match of one identifier is said once, by `Moves`: it
rests, goes on in play, is paired, decided, published or forgotten, each with
what that asks of the match and the store before and after. A sweep does any of
these but pair (`SweptMoves`), `pair` pairs only a live entry into a slot that
was free (`PairMoves`), the other handlers are shown in `OtherMoves`, and
`StepMoves` says that every step of the specification is such a move of every
identifier. `OnlyLiveEntriesPair` and `OnlySettledGo` are read off it, and so is
`Refinement`: `MovesAreLife` turns each case into a step or a stutter of
`MatchLifecycle`. It needs the inductive invariant for one thing above all,
that what a retained match shows is what the store holds.

**EdgeProofs.** For the link, `LinkInv` describes the lines under way. `InStep`
compares what was acknowledged and is not inductive: it depends on what is still
to be read. While a connection is synchronised (`Synced`), the lines in each
direction carry on from the last number read without a gap, one number stands
for one line however often it is sent (`FromClient`, `FromServer`), and a move is
under way in one direction at most, because the records alternate
(`Alternates`): so the two records are equal or one is a move ahead with that
move under way (`Same`). `ComingOf` and `NewsOf` are the sets of numbers a list of
lines still brings; what `Append` and `Tail` do to them is proved once
(`ComingTail`, `NewsTail`, …). A lost connection only empties the lists; the
answer to `playgame` re-establishes `Synced` (`AnswerKeeps`, `ReadAnswer`).

For the rate limiter, `IInv` says that the table is sorted by expiry with
distinct addresses, that every entry ends after `lastNow` and at most a window
later, and that there are at most `Capacity`. Purging is first characterised
as a suffix that drops only ended entries (`PurgeIsSuffix`, from the existence
of a least live position, which rests on the well-foundedness of `<` on the
naturals); with the order this makes it exact (`PurgeIsExact`). Appending
keeps the order because a stamp never goes back: the new entry ends a full
window after the latest stamp and nothing in the table can end later.
`Refinement` maps the table to the set of its entries; the count of windows
is the length of the table because addresses are distinct
(`ContentsCount`).

**AccountStoreProofs.** Of the installations, `IInv` says of the three tables (as arguments, `Fine`)
that they are typed, that bearers belong to owners and codes to pending
installations, and adds one thing to what the runs check: a pending
installation whose own time has not run out has a code with just that much
time left (`LinksHaveCodes`; the two rows are written together). That is why a
clean-up, which spares a pending installation when either its own time or a
code of it is left, leaves none without a live code
(`CleanIsFine`), and hence why a refusal for capacity is just. A login
acts on tables that were cleaned and perhaps aged within the same step, so
cleaning (`CleanIsFine`) and ageing (`AgeIsFine`) are each shown to keep
tables fine, and every transaction is shown to keep fine tables fine. The two
properties of steps compare tables: `CodesStay` and `BearersStay` say that every
live row has its successor, cleaning and ageing keep that (`KeptRowsStay`), a
login only adds rows (`LogInAdds`), and whatever takes a row changes the owner of
its installation (`StepStands`); an index fails only on a row that was found
expired (`ErrorsAreExpiries`).

Of the chests, `EveryChestPays` compares two cardinalities and is not
inductive. What is: *either* the open chests hold different rewards, none of
them owned, *or* together they hold every reward the account lacks. An award
keeps this by the choice of its reward, a claim takes one reward from both
sides. In the second case, if the missing rewards are at least as many as the
open chests, a pigeonhole argument (`Pigeonhole`) makes the map from chests to
rewards a bijection.

Of the decks, `DecksInv` names the number up to which there are decks (`UpTo`),
where `NumbersHaveNoGap` speaks of the greatest one, chosen from the rows. That
this number is what both `MAX(deck_no)` (`LastIs`) and the count of the
rows (`CountIs`) give is why `expandDecks` may test one and use the other.
Cost is a fold over a list whose value is needed only for no plates
(`EmptyCostsNothing`): what an edit may keep is what it was allowed before.

**BookkeepingProofs.** Of the ledger, `IInv` is the type invariant, that the ledger fits the
record (`LedgerFits`), and that the turns of the ledger *and of every
checkpoint* are disjoint (`Disjoint`): the last is what lets a checkpoint
or a journal take the ledger's place. Growing the record keeps a ledger
fitting because prefixes stay prefixes (`FitsLonger`); a commit adds a cause
that was checked against the record; a reload takes over a list that was
checked against what is then the record, and the first turns of disjoint turns
are disjoint (`CutDisjoint`). `HistoryKept` follows from the guards of `Commit`
and `Restore` and from the type invariant.

Of the timed exclusion, the figure's count alone says nothing about the record.
`Counted` does: right behind the removing spin the record has as many movements as
turns were counted, of alternating sides (`TurnAfter`), and `boundary` is of the
side of the last of them.
A report of more turns at once, or of turns already counted, is taken only if it
adjoins (`AdvanceCounts`), so `SeventhTurn` holds for records of any length.

**BattleConnectionProofs.** The handlers pass a state `w` from operator to operator
and often assign it more than once, so the invariant `Fine(w, cut, shut)` is
stated on that state, with what is still owed: `cut` is the connection a handler
is about to end or destroy, `shut` are those whose close has been reported. It
says that a live connection is its side's socket (`LiveIsSocket`), that a
socket is a connection of its side whose close is still to be reported
(`SocketIsHeld`), that in a started match a player is in the game, timed, or
cut off with a close event to come (`Timed`), that only who still answers for the match has
a ticket, and what may have been told in which phase (`TellingFine`).
`OneLiveConnection` and `AbsenceIsTimed` are not inductive without it: a login
takes a side over from a socket that must be the only live one, and a close event
times a player only if the socket it reports is still that side's. Each
assignment has a lemma, each handler an `…IsFine` composed of them. The second
half is about pairs of states: `Step(w, n)` says that the match advances as
`MatchLifecycle` allows, that of two absent players the first loses, and that a running
absence never gets shorter and ends only by coming back in time. Most assignments touch neither match
nor absences (`Quiet`); `ExpiredSteps` does the deadlines, where all three matter,
and says that a match they leave in play is untouched; the `…Steps` lemmas
put a handler behind them.

**MatchClockProofs.** `IInv` is the type of the match and, of a match in play
(`Standing`), that everybody has time left and that one clock, running or
pending, stands for the chooser exactly while input is not locked. Time left is
what `ClockStandsForChooser` lacks to be inductive: a clock that has run out is
charged in the same reading that ends the match. The refinement rests on one fact about
*reading* the clock, `Synced`: the mapping (`Who` thinks, how much `Grace` and how
much is `Left`) is the same before and after a reading, unless the reading finds
that no time is left, and then the ideal clock had already reached zero. It is
composed of the two halves of `syncMatchClock` (`Activated`: a due clock counts
from its deadline, so nothing is lost by noticing late; `Charged`: what is
charged is what had passed). A handler that reads first is therefore the ideal
step of what it does afterwards; `Armed` says what a hand-over leaves, the
`…IsGood` lemmas say for each action that it keeps `IInv` and is one ideal step or
none, and `NextIsGood` collects them. The theorems hold for any two sides, any
budget and any non-empty set of allowances.

**CenterProofs.** `BoardIsSound` is not inductive. A Center whose upper figure
alone has made room stands open (`Gaping`), which the property allows only
because a figure that is still to leave will close it; `Filling` says that there
is one, of that side and not cursed, since a cursed figure leaves the game
instead. `Stands` is the rest: one place for a figure, one figure for a place,
marks on the field only. `CenterInv` is `Settled` (stands, nobody faint, nothing
gaping) between the choices of the players, and `StagedOK` while figures leave
one by one. `RelocatedIs` and `MadeRoomIs` say what one relocation and one making
of room leave, case by case of a full Center; a batch is a recursive function
over the list of those who leave, so `BoardsFollow` and `BatchSettles` argue from
the least position at which something would be wrong, and `IncreasingExists`
gives the list in order that `InOrder` chooses. The other operations are made of
few board changes, and a lemma says of each that it turns settled boards into
settled ones (`MovedSettles`, `SwappedSettles`, `BenchedSettles`,
`SurroundingsSettle`, `MarkedSettles` and so on), so that an operation with many ways, such
as a leap, only has to be taken apart (`LandingsSettle`). From `Filling` follows that the
next step fits whoever is picked (`KnockoutsGoOn`).

That steps end on the board of the batch (`StepsMakeTheBatch`) needs a history,
`order`, of who has left: `Order` says that in whatever order the others follow,
knocking them out from the present board and knocking out `order` and then them
from the board of the start give the same board. Making room early
must not matter: room made is taken by the next of that side (`RoomTaken`), not
touched by one of the other side or by one who leaves the game
(`RoomElsewhere`), hence harmless in front of any list (`RoomIsHarmless`), and a batch
may be taken one figure at a time (`BatchFirst`).

**TurnEngineProofs.** `Typed` is the type of the match and `Linked`: a
resolution, an offered respin and a callback that resolves or spins belong to a
declaration. It is inductive in every variant, so no continuation reads a field
that is not there (`TypeCorrect`). The other theorems have the hypothesis
`WheelsAfterRespin = 0`, as every passing run does: where a wheel follows a
declined respin, the second choice that the run `respin_twice` finds applies the
battle again and has two callbacks owed at once, so the invariants below fail.

`OneOutcomePerBattle` is not inductive: nothing in it keeps a second callback
from spinning a first wheel again. `Once` says that at most one such callback is
under way for the battle in hand (`Rolls`), that it and an offered respin exclude
each other, and that either waits for a battle that has begun and has no outcome.
Handlers change the match several times, so what a step does to it is a relation
that composes: `Calm` (it declares nothing, offers no respin, schedules no first
wheel), `NewBattle` (a declaration, whose entry no callback can carry
yet), or the spin itself; `Shape` and `TimerShape` name the cases, one lemma for
each handler.

`StaleStepsChangeNothing` compares a callback with the turn it was scheduled in.
What makes it true is `Waiting`: one choice is pending at a time (`Single`), and of
all the callbacks one at most is not `Spent`; that one is of the present turn
and for what is pending (`Awaits`), and spent are only calls of the training
opponent that come while black moves or from a turn that is over. A client can act only when
nothing is owed (`AdmitsSpent`), a callback that comes is the one owed or spent
(`Due`), and a turn is completed only by a step in whose hands the battle is
(`InHand`), so it leaves spent calls alone behind. `InputIsLocked` follows (`InputWaits`): when a
client's input can be admitted every callback is spent (`MayPlayAdmitted`,
`AdmitsSpent`), and a spent call, which finds black to move, leaves the match as
it was (`SpentRests`). A spent call that does play marks the match as `late`, and
from there on these two promise nothing, as in the run.

`NobodyIsStuck` asks for more than `Waiting` says: that the callback which is owed
does something. It would not if the battle it carries were in another phase, its
entry were no longer the last of the record, or the room its input had reserved
were used up. `Going` says that none of this happens. Where a callback is owed,
`Ready` gives for each step what it continues and the room that is left of the
reserve (`WheelsAreOwed`: one entry for each wheel still to spin, and four for each
figure that has fallen and for the end of the turn; `KnockoutsAreOwed`: the same
for the figures left, less what they have already moved). Where none is owed, `Open` says of a pending choice that it is what its answer will look
for, that nothing locks the input, and that its side is a client or the training
opponent found no room for its answer (`NoRoom`). `Sane` keeps the input lock to
the human variant and a pending plate to clients, and between turns the match
is `AtRest`. `Going` is inductive together with
`IInv`, one `…Goes` lemma for each function of the engine, gathered in `PlaysGo`
for the clients and in `DueGoes` and `FiresGo` for the callbacks. What is left is that a
state in `Going` has a way on: a step of a battle that is `Ready` makes the record
longer (`BattleStepIsTaken`), an answer of the training opponent changes
the match unless the record is full (`AnswerIsTaken`), and an open choice has an
admitted answer (`OpenIsPlayed`). The theorem, `SomebodyGoesOn`, assumes
`RecordSuffices`, that what a battle can append fits in what its declaration
reserves: `Wheels <= 10` and `Wheels + 4 * MaxFaint <= 43`. The code is well
within: `iceShardSpinPlans` plans two secondary wheels at most, and a battle
fells eight figures at most (`applyRockSlide1140`: those around a field with
three neighbours, beside attacker and defender), so 34 of the 43 are used.

**Proved without a run of their own.** The type invariants of these
modules, `StoredForever`, `InExpiryOrder` and `ActiveLimitsStand`. They hold for
every instance by proof, so the runs are left to the refinements and to the
properties that are not proved.

**Model-checked only.** Liveness. Every invariant and every action property of a
passing run is a theorem.

## 6. Not modelled

* **Which moves are legal and what they do**: geometry, damage, plates and the
  Z transaction, the skills of figures, conditions other than faint and curse.
  They are sequential rules over packaged data with unit tests beside them;
  `TurnEngine` and `Center` leave their outcomes open, so what is shown holds
  for every rule set.
* **Training sessions**: tickets and polling of training matches, and the mode
  of an account, a map of the HTTP front, when it is switched during a match.
* **Content releases**: a verification cache keyed by file metadata in front of
  files that somebody else may change. What it promises depends on what the
  file system reports, which a model would have to invent.
* **Account site, HTTP front, passwords and browser sessions**: routing,
  formatting and single statements on one table.
* **Back-up tool, migration drill, readiness documents, deployment, launcher**:
  offline or start-up sequences of file operations.
* Three hazards in `PROJECT.json` have no property: a peer that keeps its half of
  a rejected connection open is never closed, so that nothing stronger than
  `AbsenceIsTimed` holds; and a clock that runs out inside `pauseMatchClock`
  while the commit fails (`TurnEngine` has that outcome among `Pauses`, but
  what the clients are then told is not modelled); and an identifier that a
  match of an earlier life stored, whose commits all conflict: `MatchesSettle`
  excludes that match by name, as the code promises nothing for it.

What could come next: the Z transaction as a small state machine in front of
`TurnEngine`.
