------------------------- MODULE MatchmakingProofs -------------------------
(***************************************************************************)
(* The safety of Matchmaking, for any number of accounts, bearers and       *)
(* identifiers and any limits.                                              *)
(*                                                                          *)
(* The invariant is stated about four tables passed as arguments, so that   *)
(* it can be said of the tables a sweep leaves as well as of the variables: *)
(* the requests act on swept tables within one step.                        *)
(***************************************************************************)
EXTENDS Matchmaking, TLAPS

\* What is true of one match x, whose identifier the store holds as done.
MatchFine(x, done) == x # None =>
  /\ x.player["black"] # x.player["white"]
  /\ x.dismissed # {} => x.phase = "finished"
  /\ x.winner # None <=> x.phase \in {"finishing", "finished"}
  /\ x.phase = "finished" => done = CompletionOf(x)

\* Account u must answer for match x.
Answers(u, x) ==
  /\ x # None
  /\ x.phase # "reset"
  /\ u \in Players(x)
  /\ u \notin x.dismissed

TablesOK(w, ms, act, done) ==
  /\ w \in [Users -> Entry \cup {None}]
  /\ ms \in [MatchIds -> Match \cup {None}]
  /\ act \in [Users -> MatchIds \cup {None}]
  /\ done \in [MatchIds -> Completion \cup {None}]

QueueFine(w, ms, act) ==
  /\ \A u, v \in Users : w[u] # None /\ w[v] # None => u = v
  /\ \A u \in Users : w[u] # None => act[u] = None
  /\ \A u \in Users : w[u] # None => ms[w[u].room] = None

IndexFine(ms, act) ==
  \A u \in Users, m \in MatchIds : act[u] = m <=> Answers(u, ms[m])

Fine(w, ms, act, done) ==
  /\ TablesOK(w, ms, act, done)
  /\ QueueFine(w, ms, act)
  /\ IndexFine(ms, act)
  /\ \A m \in MatchIds : MatchFine(ms[m], done[m])

\* The inductive invariant.
IInv == authorized \subseteq Sessions /\ Fine(waiting, matches, activeByUser, completed)

-----------------------------------------------------------------------------
(***************************************************************************)
(* The records: what each update of a match changes.                        *)
(***************************************************************************)
\* The limits are positive numbers, so an age starts within them.
LEMMA Zero ==
  /\ 0 \in Ages(JoinTimeout) \cup Ages(ResultRetention)
  /\ 0 \in Ages(RetryDelay)
  /\ 0 \in Ages(QueueLease)
BY LimitAssumption DEF Ages

LEMMA MatchFields ==
  ASSUME NEW x \in Match
  PROVE  /\ x # None
         /\ x.phase \in Phases
         /\ x.player \in [Sides -> Users]
         /\ x.dismissed \in SUBSET Users
         /\ x.winner \in Sides \cup {None}
BY AbsentMatchAssumption DEF Match

\* A completion is a value, with the winner of its match.
LEMMA CompletionOfMatch ==
  ASSUME NEW x \in Match, x.winner \in Sides
  PROVE  /\ CompletionOf(x) \in Completion
         /\ CompletionOf(x) # None
         /\ CompletionOf(x).winner = x.winner
BY MatchFields, AbsentMatchAssumption DEF CompletionOf, Completion

LEMMA TimedOutMatch ==
  ASSUME NEW m \in MatchIds, matches[m] \in Match
  PROVE  /\ TimedOut(m) \in Match
         /\ TimedOut(m).phase = "reset"
         /\ TimedOut(m).player = matches[m].player
         /\ TimedOut(m).dismissed = matches[m].dismissed
         /\ TimedOut(m).winner = matches[m].winner
BY Zero DEF Match, Phases, TimedOut

LEMMA RetriedMatch ==
  ASSUME NEW m \in MatchIds, NEW failing, matches[m] \in Match
  PROVE  /\ Retried(m, failing) \in Match
         /\ Retried(m, failing).phase = IF Commits(m, failing) THEN "finished" ELSE matches[m].phase
         /\ Retried(m, failing).player = matches[m].player
         /\ Retried(m, failing).dismissed = matches[m].dismissed
         /\ Retried(m, failing).winner = matches[m].winner
BY Zero DEF Match, Phases, Retried

LEMMA DecidedMatch ==
  ASSUME NEW m \in MatchIds, NEW failing, NEW winner \in Sides, matches[m] \in Match
  PROVE  /\ Decided(m, winner, failing) \in Match
         /\ Decided(m, winner, failing).phase = IF Commits(m, failing) THEN "finished" ELSE "finishing"
         /\ Decided(m, winner, failing).player = matches[m].player
         /\ Decided(m, winner, failing).dismissed = matches[m].dismissed
         /\ Decided(m, winner, failing).winner = winner
BY Zero DEF Match, Phases, Decided

-----------------------------------------------------------------------------
(***************************************************************************)
(* One match going through expireMatch.                                     *)
(***************************************************************************)
\* The branches of the sweep exclude each other, so it is one of them.
LEMMA SweptBranches ==
  ASSUME NEW m \in MatchIds, NEW failing, NEW verdict
  PROVE  /\ Dropped(m, failing) => Swept(m, failing, verdict) = None
         /\ JoinExpired(m) => Swept(m, failing, verdict) = TimedOut(m)
         /\ RetryDue(m) /\ ~Dropped(m, failing) => Swept(m, failing, verdict) = Retried(m, failing)
         /\ InPhase(m, {"started"}) /\ verdict[m] # None =>
              Swept(m, failing, verdict) = Decided(m, verdict[m], failing)
         /\ ~Dropped(m, failing) /\ ~JoinExpired(m) /\ ~RetryDue(m)
              /\ ~(InPhase(m, {"started"}) /\ verdict[m] # None) =>
              Swept(m, failing, verdict) = matches[m]
<1> DEFINE started == InPhase(m, {"started"}) /\ verdict[m] # None
<1>1. Dropped(m, failing) => ~JoinExpired(m) /\ ~started
  BY DEF Dropped, JoinExpired, RetryDue, InPhase
<1>2. JoinExpired(m) => ~RetryDue(m) /\ ~started
  BY DEF JoinExpired, RetryDue, InPhase
<1>3. RetryDue(m) => ~started
  BY DEF RetryDue, InPhase
<1> QED
  BY <1>1, <1>2, <1>3, ZenonT(30) DEF Swept

\* What the sweep makes of a match is a match or nothing.
LEMMA SweptType ==
  ASSUME NEW m \in MatchIds, NEW failing, NEW verdict \in Verdicts,
         matches \in [MatchIds -> Match \cup {None}]
  PROVE  Swept(m, failing, verdict) \in Match \cup {None}
<1>1. verdict[m] \in Sides \cup {None}
  BY DEF Verdicts
<1>2. CASE matches[m] = None
  <2>1. ~Dropped(m, failing) /\ ~JoinExpired(m) /\ ~RetryDue(m) /\ ~InPhase(m, {"started"})
    BY <1>2 DEF Dropped, RetryDue, JoinExpired, InPhase
  <2> QED
    BY <1>2, <2>1, SweptBranches
<1>3. CASE matches[m] # None
  <2>1. matches[m] \in Match
    BY <1>3
  <2> QED
    BY <1>1, <2>1, TimedOutMatch, RetriedMatch, DecidedMatch, SweptBranches
<1> QED
  BY <1>2, <1>3

\* A match that was fine stays fine, with the outcome the sweep stores for it.
LEMMA SweptFine ==
  ASSUME NEW m \in MatchIds, NEW failing, NEW verdict \in Verdicts, NEW swept, m \in swept,
         matches \in [MatchIds -> Match \cup {None}],
         MatchFine(matches[m], completed[m])
  PROVE  MatchFine(Swept(m, failing, verdict), SweptCompleted(failing, verdict, swept)[m])
<1> DEFINE x == matches[m]
           y == Swept(m, failing, verdict)
           done == SweptCompleted(failing, verdict, swept)[m]
<1>1. verdict[m] \in Sides \cup {None}
  BY DEF Verdicts
<1>2. CASE Dropped(m, failing)
  BY <1>2, SweptBranches DEF MatchFine
<1>3. CASE JoinExpired(m)
  <2>1. x \in Match /\ x.phase = "found"
    BY <1>3 DEF JoinExpired, InPhase
  <2>2. /\ y.phase = "reset"
        /\ y.player = x.player /\ y.dismissed = x.dismissed /\ y.winner = x.winner
    BY <1>3, <2>1, SweptBranches, TimedOutMatch
  <2> QED
    BY <2>1, <2>2, MatchFields DEF MatchFine
<1>4. CASE RetryDue(m) /\ ~Dropped(m, failing)
  <2>1. x \in Match /\ x.phase = "finishing"
    BY <1>4 DEF RetryDue, InPhase
  <2>2. /\ y.phase = IF Commits(m, failing) THEN "finished" ELSE "finishing"
        /\ y.player = x.player /\ y.dismissed = x.dismissed /\ y.winner = x.winner
    BY <1>4, <2>1, SweptBranches, RetriedMatch
  <2>3. Commits(m, failing) => done = CompletionOf(y)
    <3> SUFFICES ASSUME Commits(m, failing) PROVE done = CompletionOf(y)
      OBVIOUS
    <3>1. done = CompletionOf([x EXCEPT !.winner = x.winner])
      BY <1>4 DEF SweptCompleted, Settles
    <3> QED
      BY <2>1, <2>2, <3>1 DEF CompletionOf, Match
  <2> QED
    BY <2>1, <2>2, <2>3, MatchFields DEF MatchFine
<1>5. CASE InPhase(m, {"started"}) /\ verdict[m] # None
  <2>1. x \in Match /\ x.phase = "started" /\ verdict[m] \in Sides
    BY <1>1, <1>5 DEF InPhase
  <2>2. /\ y.phase = IF Commits(m, failing) THEN "finished" ELSE "finishing"
        /\ y.player = x.player /\ y.dismissed = x.dismissed /\ y.winner = verdict[m]
    BY <1>5, <2>1, SweptBranches, DecidedMatch
  <2>3. Commits(m, failing) => done = CompletionOf(y)
    <3> SUFFICES ASSUME Commits(m, failing) PROVE done = CompletionOf(y)
      OBVIOUS
    <3>1. ~RetryDue(m)
      BY <1>5 DEF RetryDue, InPhase
    <3>2. done = CompletionOf([x EXCEPT !.winner = verdict[m]])
      BY <1>5, <3>1 DEF SweptCompleted, Settles
    <3> QED
      BY <2>1, <2>2, <3>2 DEF CompletionOf, Match
  <2> QED
    BY <1>5, <2>1, <2>2, <2>3, MatchFields DEF MatchFine
<1>6. CASE /\ ~Dropped(m, failing) /\ ~JoinExpired(m) /\ ~RetryDue(m)
           /\ ~(InPhase(m, {"started"}) /\ verdict[m] # None)
  <2>1. done = completed[m]
    BY <1>6 DEF SweptCompleted, Settles
  <2> QED
    BY <1>6, <2>1, SweptBranches
<1> QED
  BY <1>2, <1>3, <1>4, <1>5, <1>6

\* An account must answer for a swept match exactly if it had to before, and the
\* match neither timed out nor was dropped.
LEMMA SweptAnswers ==
  ASSUME NEW m \in MatchIds, NEW failing, NEW verdict \in Verdicts, NEW u \in Users,
         matches \in [MatchIds -> Match \cup {None}]
  PROVE  Answers(u, Swept(m, failing, verdict)) <=>
           Answers(u, matches[m]) /\ ~JoinExpired(m) /\ ~Dropped(m, failing)
<1> DEFINE x == matches[m]
           y == Swept(m, failing, verdict)
<1>1. CASE Dropped(m, failing)
  BY <1>1, SweptBranches DEF Answers
<1>2. CASE JoinExpired(m)
  <2>1. x \in Match
    BY <1>2 DEF JoinExpired, InPhase
  <2>2. y.phase = "reset"
    BY <1>2, <2>1, SweptBranches, TimedOutMatch
  <2> QED
    BY <1>2, <2>2 DEF Answers
<1>3. CASE RetryDue(m) /\ ~Dropped(m, failing)
  <2>1. x \in Match /\ x.phase = "finishing" /\ ~JoinExpired(m)
    BY <1>3 DEF RetryDue, JoinExpired, InPhase
  <2>2. /\ y \in Match /\ y.phase # "reset"
        /\ y.player = x.player /\ y.dismissed = x.dismissed
    BY <1>3, <2>1, SweptBranches, RetriedMatch
  <2> QED
    BY <1>3, <2>1, <2>2, MatchFields DEF Answers, Players
<1>4. CASE InPhase(m, {"started"}) /\ verdict[m] # None
  <2>1. /\ x \in Match /\ x.phase = "started" /\ verdict[m] \in Sides
        /\ ~JoinExpired(m) /\ ~Dropped(m, failing)
    BY <1>4 DEF Verdicts, JoinExpired, Dropped, RetryDue, InPhase
  <2>2. /\ y \in Match /\ y.phase # "reset"
        /\ y.player = x.player /\ y.dismissed = x.dismissed
    BY <1>4, <2>1, SweptBranches, DecidedMatch
  <2> QED
    BY <2>1, <2>2, MatchFields DEF Answers, Players
<1>5. CASE /\ ~Dropped(m, failing) /\ ~JoinExpired(m) /\ ~RetryDue(m)
           /\ ~(InPhase(m, {"started"}) /\ verdict[m] # None)
  BY <1>5, SweptBranches
<1> QED
  BY <1>1, <1>2, <1>3, <1>4, <1>5

-----------------------------------------------------------------------------
(***************************************************************************)
(* All tables going through the sweep, of any set of matches.               *)
(***************************************************************************)
LEMMA SweptQueue ==
  ASSUME waiting \in [Users -> Entry \cup {None}]
  PROVE  /\ SweptWaiting \in [Users -> Entry \cup {None}]
         /\ \A u \in Users : SweptWaiting[u] = None \/ SweptWaiting[u] = waiting[u]
BY DEF SweptWaiting

\* The sweep answers the question "who is on which match" as it should.
LEMMA SweptIndex ==
  ASSUME NEW failing, NEW verdict \in Verdicts, NEW swept \in SUBSET MatchIds,
         Fine(waiting, matches, activeByUser, completed)
  PROVE  IndexFine(SweptMatches(failing, verdict, swept), SweptActive(failing, swept))
<1> DEFINE ms == SweptMatches(failing, verdict, swept)
           act == SweptActive(failing, swept)
<1>1. /\ matches \in [MatchIds -> Match \cup {None}]
      /\ activeByUser \in [Users -> MatchIds \cup {None}]
      /\ IndexFine(matches, activeByUser)
  BY DEF Fine, TablesOK
<1> SUFFICES ASSUME NEW u \in Users, NEW m \in MatchIds
             PROVE  act[u] = m <=> Answers(u, ms[m])
  BY DEF IndexFine
<1>2. act[u] = IF Released(u, failing, swept) THEN None ELSE activeByUser[u]
  BY DEF SweptActive
<1>3. ms[m] = IF m \in swept THEN Swept(m, failing, verdict) ELSE matches[m]
  BY DEF SweptMatches
<1>4. activeByUser[u] = m <=> Answers(u, matches[m])
  BY <1>1 DEF IndexFine
<1>5. Answers(u, ms[m]) <=>
        Answers(u, matches[m]) /\ (m \in swept => ~JoinExpired(m) /\ ~Dropped(m, failing))
  BY <1>1, <1>3, SweptAnswers
<1>6. ASSUME act[u] = m PROVE Answers(u, ms[m])
  <2>1. ~Released(u, failing, swept) /\ Answers(u, matches[m]) /\ activeByUser[u] = m
    BY <1>2, <1>4, <1>6, NoneAssumption
  <2>2. u \in Players(matches[m])
    BY <2>1 DEF Answers
  <2> QED
    BY <1>5, <2>1, <2>2 DEF Released
<1>7. ASSUME Answers(u, ms[m]) PROVE act[u] = m
  <2>1. activeByUser[u] = m /\ (m \in swept => ~JoinExpired(m) /\ ~Dropped(m, failing))
    BY <1>4, <1>5, <1>7
  <2>2. ASSUME NEW other \in swept, JoinExpired(other), u \in Players(matches[other])
        PROVE  FALSE
    <3>1. /\ other \in MatchIds
          /\ matches[other] # None
          /\ matches[other].phase = "found"
          /\ MatchFine(matches[other], completed[other])
      BY <2>2 DEF JoinExpired, InPhase, Fine
    <3>2. Answers(u, matches[other])
      BY <2>2, <3>1 DEF MatchFine, Answers
    <3>3. activeByUser[u] = other
      BY <1>1, <3>1, <3>2 DEF IndexFine
    <3> QED
      BY <2>1, <2>2, <3>3
  <2>3. ~Released(u, failing, swept)
    BY <2>1, <2>2 DEF Released
  <2> QED
    BY <1>2, <2>1, <2>3
<1> QED
  BY <1>6, <1>7

\* A sweep of any set of matches, with the queue swept or left alone, keeps the
\* tables fine.
LEMMA SweptTables ==
  ASSUME NEW failing, NEW verdict \in Verdicts, NEW swept \in SUBSET MatchIds,
         Fine(waiting, matches, activeByUser, completed),
         NEW w \in [Users -> Entry \cup {None}],
         \A u \in Users : w[u] = None \/ w[u] = waiting[u]
  PROVE  Fine(w, SweptMatches(failing, verdict, swept), SweptActive(failing, swept),
              SweptCompleted(failing, verdict, swept))
<1> DEFINE ms == SweptMatches(failing, verdict, swept)
           act == SweptActive(failing, swept)
           done == SweptCompleted(failing, verdict, swept)
<1>1. /\ matches \in [MatchIds -> Match \cup {None}]
      /\ activeByUser \in [Users -> MatchIds \cup {None}]
      /\ completed \in [MatchIds -> Completion \cup {None}]
      /\ \A m \in MatchIds : MatchFine(matches[m], completed[m])
      /\ QueueFine(waiting, matches, activeByUser)
  BY DEF Fine, TablesOK
<1>2. ms \in [MatchIds -> Match \cup {None}]
  BY <1>1, SweptType DEF SweptMatches
<1>3. act \in [Users -> MatchIds \cup {None}]
  BY <1>1 DEF SweptActive
<1>4. done \in [MatchIds -> Completion \cup {None}]
  <2> SUFFICES ASSUME NEW m \in MatchIds, m \in swept, Settles(m, failing, verdict)
               PROVE  CompletionOf([matches[m] EXCEPT !.winner = IF RetryDue(m) THEN @ ELSE verdict[m]])
                        \in Completion
    BY <1>1 DEF SweptCompleted
  <2> DEFINE winner == IF RetryDue(m) THEN matches[m].winner ELSE verdict[m]
  <2>1. matches[m] \in Match
    BY <1>1 DEF Settles, RetryDue, InPhase
  <2>2. winner \in Sides
    <3>1. CASE RetryDue(m)
      BY <1>1, <2>1, <3>1, MatchFields DEF RetryDue, InPhase, MatchFine
    <3>2. CASE ~RetryDue(m)
      BY <3>2 DEF Settles, Verdicts
    <3> QED
      BY <3>1, <3>2
  <2> QED
    BY <2>1, <2>2 DEF CompletionOf, Completion, Match
<1>5. QueueFine(w, ms, act)
  <2>1. \A u \in Users : w[u] # None => act[u] = None
    BY <1>1 DEF QueueFine, SweptActive
  <2>2. ASSUME NEW u \in Users, w[u] # None PROVE ms[w[u].room] = None
    <3>1. w[u] = waiting[u] /\ w[u].room \in MatchIds /\ matches[w[u].room] = None
      BY <1>1, <2>2 DEF QueueFine, Entry
    <3>2. \A m \in MatchIds : matches[m] = None => Swept(m, failing, verdict) = None
      BY SweptBranches DEF Dropped, JoinExpired, RetryDue, InPhase
    <3> QED
      BY <3>1, <3>2 DEF SweptMatches
  <2> QED
    BY <1>1, <2>1, <2>2 DEF QueueFine
<1>6. \A m \in MatchIds : MatchFine(ms[m], done[m])
  <2> TAKE m \in MatchIds
  <2>1. CASE m \in swept
    BY <1>1, <2>1, SweptFine DEF SweptMatches
  <2>2. CASE m \notin swept
    BY <1>1, <2>2 DEF SweptMatches, SweptCompleted
  <2> QED
    BY <2>1, <2>2
<1> QED
  BY <1>2, <1>3, <1>4, <1>5, <1>6, SweptIndex DEF Fine, TablesOK

-----------------------------------------------------------------------------
(***************************************************************************)
(* The requests on fine tables: each changes an entry or two of them.       *)
(***************************************************************************)
\* An account free of matches that joins an empty queue under an unused room.
LEMMA JoinFine ==
  ASSUME NEW w, NEW ms, NEW act, NEW done, Fine(w, ms, act, done),
         NEW u \in Users, NEW s \in Sessions, NEW room \in MatchIds,
         \A v \in Users : w[v] = None, act[u] = None, ms[room] = None
  PROVE  Fine([w EXCEPT ![u] = [room |-> room, session |-> s, lease |-> 0]], ms, act, done)
<1> DEFINE entry == [room |-> room, session |-> s, lease |-> 0]
           queue == [w EXCEPT ![u] = entry]
<1>1. entry \in Entry /\ entry.room = room
  BY Zero DEF Entry
<1>2. queue \in [Users -> Entry \cup {None}] /\ \A v \in Users : v # u => queue[v] = None
  BY <1>1 DEF Fine, TablesOK
<1>3. queue[u] = entry
  BY DEF Fine, TablesOK
<1>4. QueueFine(queue, ms, act)
  <2>1. \A v \in Users : queue[v] # None => v = u
    BY <1>2
  <2> HIDE DEF queue
  <2> QED
    BY <1>1, <1>3, <2>1 DEF QueueFine
<1> QED
  BY <1>2, <1>4 DEF Fine, TablesOK

\* Renewing a lease leaves the room of the entry.
LEMMA RefreshFine ==
  ASSUME NEW w, NEW ms, NEW act, NEW done, Fine(w, ms, act, done),
         NEW u \in Users, NEW s \in Sessions, w[u] # None
  PROVE  Fine([w EXCEPT ![u] = [@ EXCEPT !.lease = 0, !.session = s]], ms, act, done)
<1> DEFINE entry == [w[u] EXCEPT !.lease = 0, !.session = s]
           queue == [w EXCEPT ![u] = entry]
<1>1. w[u] \in Entry
  BY DEF Fine, TablesOK
<1>2. entry \in Entry /\ entry.room = w[u].room
  BY <1>1, Zero DEF Entry
<1>3. queue \in [Users -> Entry \cup {None}] /\ queue[u] = entry
  BY <1>2 DEF Fine, TablesOK
<1>4. \A v \in Users : v # u => queue[v] = w[v]
  BY DEF Fine, TablesOK
<1>5. QueueFine(queue, ms, act)
  <2> HIDE DEF queue, entry
  <2> QED
    BY <1>2, <1>3, <1>4 DEF Fine, QueueFine
<1> QED
  BY <1>3, <1>5 DEF Fine, TablesOK

\* Leaving the queue.
LEMMA CancelFine ==
  ASSUME NEW w, NEW ms, NEW act, NEW done, Fine(w, ms, act, done), NEW u \in Users
  PROVE  Fine([w EXCEPT ![u] = None], ms, act, done)
BY DEF Fine, TablesOK, QueueFine

LEMMA NewMatchFields ==
  ASSUME NEW first \in Users, NEW second \in Users
  PROVE  /\ NewMatch(first, second) \in Match
         /\ NewMatch(first, second).phase = "found"
         /\ NewMatch(first, second).dismissed = {}
         /\ NewMatch(first, second).winner = None
         /\ NewMatch(first, second).player["black"] = first
         /\ NewMatch(first, second).player["white"] = second
         /\ Players(NewMatch(first, second)) = {first, second}
BY Zero DEF NewMatch, Match, Players, Sides, Phases

\* Pairing the only queued account with one that is free.
LEMMA PairFine ==
  ASSUME NEW w, NEW ms, NEW act, NEW done, Fine(w, ms, act, done),
         NEW u \in Users, NEW other \in Users, other # u,
         w[other] # None, act[u] = None
  PROVE  LET m == w[other].room IN
         Fine([w EXCEPT ![other] = None],
              [ms EXCEPT ![m] = NewMatch(other, u)],
              [act EXCEPT ![other] = m, ![u] = m], done)
<1> DEFINE m == w[other].room
           queue == [w EXCEPT ![other] = None]
           paired == [ms EXCEPT ![m] = NewMatch(other, u)]
           on == [act EXCEPT ![other] = m, ![u] = m]
<1>1. /\ m \in MatchIds /\ ms[m] = None /\ act[other] = None
      /\ \A v \in Users : w[v] # None => v = other
  BY DEF Fine, TablesOK, QueueFine, Entry
<1>2. TablesOK(queue, paired, on, done)
  BY <1>1, NewMatchFields DEF Fine, TablesOK
<1>3. /\ \A v \in Users : queue[v] = None
      /\ paired[m] = NewMatch(other, u)
      /\ \A k \in MatchIds : k # m => paired[k] = ms[k]
      /\ on[u] = m /\ on[other] = m
      /\ \A v \in Users : v # u /\ v # other => on[v] = act[v]
  BY <1>1 DEF Fine, TablesOK
<1> HIDE DEF queue, paired, on, m
<1>4. QueueFine(queue, paired, on)
  BY <1>3 DEF QueueFine
<1>5. IndexFine(paired, on)
  <2> SUFFICES ASSUME NEW v \in Users, NEW k \in MatchIds
               PROVE  on[v] = k <=> Answers(v, paired[k])
    BY DEF IndexFine
  <2>1. act[v] = k <=> Answers(v, ms[k])
    BY DEF Fine, IndexFine
  <2>2. Answers(v, paired[m]) <=> v \in {other, u}
    BY <1>3, NewMatchFields, MatchFields DEF Answers
  <2>3. CASE v \in {other, u}
    <3>1. act[v] = None
      BY <1>1, <2>3
    <3> QED
      BY <1>3, <2>1, <2>2, <2>3, <3>1, NoneAssumption
  <2>4. CASE v \notin {other, u}
    <3>1. act[v] # m
      BY <1>1, <2>1 DEF Fine, IndexFine, Answers
    <3> QED
      BY <1>3, <2>1, <2>2, <2>4, <3>1
  <2> QED
    BY <2>3, <2>4
<1>6. \A k \in MatchIds : MatchFine(paired[k], done[k])
  <2>1. MatchFine(NewMatch(other, u), done[m])
    BY NewMatchFields DEF MatchFine
  <2> QED
    BY <1>3, <2>1 DEF Fine
<1> QED
  BY <1>2, <1>4, <1>5, <1>6 DEF Fine, m, queue, paired, on

\* Rewriting matches without touching who plays, who dismissed and who won keeps
\* the tables fine, if no phase but "found" changes, and that to "started".
LEMMA RewrittenFine ==
  ASSUME NEW w, NEW ms, NEW act, NEW done, Fine(w, ms, act, done),
         NEW new \in [MatchIds -> Match \cup {None}],
         \A m \in MatchIds :
           \/ ms[m] = None /\ new[m] = None
           \/ /\ ms[m] \in Match /\ new[m] \in Match
              /\ new[m].phase = ms[m].phase \/ (ms[m].phase = "found" /\ new[m].phase = "started")
              /\ new[m].player = ms[m].player
              /\ new[m].winner = ms[m].winner
              /\ new[m].dismissed = ms[m].dismissed
  PROVE  Fine(w, new, act, done)
<1>1. TablesOK(w, new, act, done)
  BY DEF Fine, TablesOK
<1>2. QueueFine(w, new, act)
  <2>1. \A u \in Users : w[u] # None => w[u].room \in MatchIds /\ ms[w[u].room] = None
    BY DEF Fine, QueueFine, TablesOK, Entry
  <2> QED
    BY <2>1, MatchFields DEF Fine, QueueFine
<1>3. \A u \in Users, m \in MatchIds : Answers(u, new[m]) <=> Answers(u, ms[m])
  BY MatchFields DEF Answers, Players
<1>4. IndexFine(new, act)
  BY <1>3 DEF Fine, IndexFine
<1>5. ASSUME NEW m \in MatchIds PROVE MatchFine(new[m], done[m])
  <2>1. MatchFine(ms[m], done[m])
    BY DEF Fine
  <2>2. CASE new[m] = None
    BY <2>2 DEF MatchFine
  <2>3. CASE ms[m] \in Match
    <3>1. CompletionOf(new[m]) = CompletionOf(ms[m])
      BY <2>3, MatchFields DEF CompletionOf
    <3> QED
      BY <2>1, <2>3, <3>1, MatchFields DEF MatchFine
  <2> QED
    BY <2>2, <2>3
<1> QED
  BY <1>1, <1>2, <1>4, <1>5 DEF Fine

LEMMA OlderIsAge ==
  ASSUME NEW limit \in Nat, NEW age \in Ages(limit)
  PROVE  Older(age, limit) \in Ages(limit)
BY DEF Older, Ages

\* Time advances the age of a match, within its limits, and nothing else.
LEMMA AgedMatchFields ==
  ASSUME NEW m \in MatchIds, matches[m] \in Match
  PROVE  /\ AgedMatch(m) \in Match
         /\ AgedMatch(m).phase = matches[m].phase
         /\ AgedMatch(m).player = matches[m].player
         /\ AgedMatch(m).winner = matches[m].winner
         /\ AgedMatch(m).dismissed = matches[m].dismissed
<1> DEFINE x == matches[m]
           age == Older(x.age, AgeLimit(x.phase))
           retry == IF x.phase = "finishing" THEN Older(x.retry, RetryDelay) ELSE x.retry
<1>1. age \in Ages(JoinTimeout) \cup Ages(ResultRetention)
  <2>1. AgeLimit(x.phase) \in {JoinTimeout, 0, ResultRetention}
    BY ZenonT(30) DEF AgeLimit
  <2>2. x.age \in Ages(JoinTimeout) \cup Ages(ResultRetention)
    BY DEF Match
  <2> QED
    BY <2>1, <2>2, LimitAssumption DEF Older, Ages
<1>2. retry \in Ages(RetryDelay)
  <2>1. x.retry \in Ages(RetryDelay)
    BY DEF Match
  <2> QED
    BY <2>1, OlderIsAge, LimitAssumption
<1> HIDE DEF age, retry
<1>3. AgedMatch(m) = [x EXCEPT !.age = age, !.retry = retry]
  BY DEF AgedMatch, age, retry
<1> QED
  BY <1>1, <1>2, <1>3 DEF Match

LEMMA AgedEntryFields ==
  ASSUME NEW u \in Users, waiting[u] \in Entry
  PROVE  AgedEntry(u) \in Entry /\ AgedEntry(u).room = waiting[u].room
<1>1. Older(waiting[u].lease, QueueLease) \in Ages(QueueLease)
  BY OlderIsAge, LimitAssumption DEF Entry
<1> QED
  BY <1>1 DEF AgedEntry, Entry

-----------------------------------------------------------------------------
(***************************************************************************)
(* Every step keeps the invariant.                                          *)
(***************************************************************************)
LEMMA InitFine == Init => IInv
<1> SUFFICES ASSUME Init PROVE IInv
  OBVIOUS
<1>1. TablesOK(waiting, matches, activeByUser, completed)
  BY DEF Init, TablesOK
<1>2. QueueFine(waiting, matches, activeByUser)
  BY DEF Init, QueueFine
<1>3. IndexFine(matches, activeByUser)
  BY NoneAssumption DEF Init, IndexFine, Answers
<1>4. \A m \in MatchIds : MatchFine(matches[m], completed[m])
  BY DEF Init, MatchFine
<1> QED
  BY <1>1, <1>2, <1>3, <1>4 DEF IInv, Fine, Init

LEMMA SweepStep ==
  ASSUME IInv, NEW failing, NEW verdict \in Verdicts, Sweep(failing, verdict)
  PROVE  IInv'
<1>1. Fine(SweptWaiting, SweptMatches(failing, verdict, MatchIds),
           SweptActive(failing, MatchIds), SweptCompleted(failing, verdict, MatchIds))
  BY SweptQueue, SweptTables DEF IInv, Fine, TablesOK
<1> QED
  BY <1>1 DEF IInv, Sweep

LEMMA LineStep ==
  ASSUME IInv, NEW failing, NEW verdict \in Verdicts, NEW m \in MatchIds,
         Line(m, failing, verdict)
  PROVE  IInv'
<1>1. Fine(waiting, SweptMatches(failing, verdict, {m}),
           SweptActive(failing, {m}), SweptCompleted(failing, verdict, {m}))
  BY SweptTables DEF IInv, Fine, TablesOK
<1> QED
  BY <1>1 DEF IInv, Line

\* The requests sweep everything first.
LEMMA RequestStep ==
  ASSUME IInv, NEW failing, NEW verdict \in Verdicts, NEW s \in Sessions,
         Request(s, failing, verdict)
  PROVE  IInv'
<1> DEFINE u == Owner[s]
           w == SweptWaiting
           ms == SweptMatches(failing, verdict, MatchIds)
           act == SweptActive(failing, MatchIds)
           done == SweptCompleted(failing, verdict, MatchIds)
<1>1. u \in Users
  BY OwnerAssumption
<1>2. Fine(w, ms, act, done)
  BY SweptQueue, SweptTables DEF IInv, Fine, TablesOK
<1>3. CASE Refresh(s, failing, verdict)
  <2>1. Fine([w EXCEPT ![u] = [@ EXCEPT !.lease = 0, !.session = s]], ms, act, done)
    BY <1>1, <1>2, <1>3, RefreshFine DEF Refresh
  <2> QED
    BY <1>3, <2>1 DEF IInv, Refresh
<1>4. ASSUME NEW room \in MatchIds, EnterQueue(s, failing, verdict, room)
      PROVE  IInv'
  <2>1. ms[room] = None
    <3>1. matches[room] = None => Swept(room, failing, verdict) = None
      BY SweptBranches DEF Dropped, JoinExpired, RetryDue, InPhase
    <3> QED
      BY <1>4, <3>1, SweptBranches DEF EnterQueue, FreeRooms, SweptMatches
  <2>2. Fine([w EXCEPT ![u] = [room |-> room, session |-> s, lease |-> 0]], ms, act, done)
    BY <1>1, <1>2, <1>4, <2>1, JoinFine DEF EnterQueue, CanJoinQueue
  <2> QED
    BY <1>4, <2>2 DEF IInv, EnterQueue
<1>5. ASSUME NEW other \in Users, EnterPair(s, failing, verdict, other)
      PROVE  IInv'
  <2> DEFINE m == w[other].room
  <2>1. Fine([w EXCEPT ![other] = None], [ms EXCEPT ![m] = NewMatch(other, u)],
             [act EXCEPT ![other] = m, ![u] = m], done)
    BY <1>1, <1>2, <1>5, PairFine DEF EnterPair, CanJoinQueue
  <2> QED
    BY <1>5, <2>1 DEF IInv, EnterPair
<1> QED
  BY <1>3, <1>4, <1>5 DEF Request

LEMMA CancelStep ==
  ASSUME IInv, NEW s \in Sessions, Cancel(s)
  PROVE  IInv'
BY OwnerAssumption, CancelFine DEF IInv, Cancel

\* A decision is the sweep of one match with that verdict.
LEMMA DecideStep ==
  ASSUME IInv, NEW failing, NEW m \in MatchIds, NEW winner \in Sides,
         Decide(m, winner, failing)
  PROVE  IInv'
<1> DEFINE verdict == [k \in MatchIds |-> IF k = m THEN winner ELSE None]
<1>1. verdict \in Verdicts /\ verdict[m] = winner
  BY DEF Verdicts, Decide
<1> HIDE DEF verdict
<1>2. Fine(waiting, SweptMatches(failing, verdict, {m}),
           SweptActive(failing, {m}), SweptCompleted(failing, verdict, {m}))
  BY <1>1, SweptTables DEF IInv, Fine, TablesOK
<1>3. ~JoinExpired(m) /\ ~Dropped(m, failing) /\ ~RetryDue(m)
  BY DEF Decide, JoinExpired, Dropped, RetryDue, InPhase
<1>4. matches' = SweptMatches(failing, verdict, {m})
  <2>1. Swept(m, failing, verdict) = Decided(m, winner, failing)
    BY <1>1, NoneAssumption, SweptBranches DEF Decide
  <2> QED
    BY <2>1 DEF Decide, SweptMatches, IInv, Fine, TablesOK
<1>5. activeByUser' = SweptActive(failing, {m})
  BY <1>3 DEF Decide, SweptActive, Released, IInv, Fine, TablesOK
<1>6. completed' = SweptCompleted(failing, verdict, {m})
  <2>1. matches[m] \in Match
    BY DEF Decide, InPhase, IInv, Fine, TablesOK
  <2>2. CompletionOf(Decided(m, winner, failing)) = CompletionOf([matches[m] EXCEPT !.winner = winner])
    BY <2>1, DecidedMatch DEF CompletionOf, Match
  <2>3. Settles(m, failing, verdict) <=> Commits(m, failing)
    BY <1>1, <1>3, NoneAssumption DEF Settles, Decide
  <2> QED
    BY <1>1, <1>3, <2>2, <2>3 DEF Decide, SweptCompleted, IInv, Fine, TablesOK
<1> QED
  BY <1>2, <1>4, <1>5, <1>6 DEF IInv, Decide

\* A player dismisses the result of the match it answers for.
LEMMA ResetStep ==
  ASSUME IInv, NEW s \in Sessions, Reset(s)
  PROVE  IInv'
<1> DEFINE u == Owner[s]
           m == activeByUser[u]
           x == matches[m]
           y == [x EXCEPT !.dismissed = @ \cup {u}]
<1>1. /\ u \in Users /\ m \in MatchIds
      /\ waiting[u] = None
      /\ IInv /\ Fine(waiting, matches, activeByUser, completed)
  BY OwnerAssumption DEF Reset, IInv, Fine, TablesOK
<1>2. x \in Match /\ x.phase \in {"finished", "reset"}
  BY <1>1 DEF Reset, InPhase, Fine, TablesOK
<1>3. Answers(u, x) /\ x.phase = "finished"
  BY <1>1, <1>2 DEF Fine, IndexFine, Answers
<1>4. /\ y \in Match
      /\ y.phase = x.phase /\ y.player = x.player /\ y.winner = x.winner
      /\ y.dismissed = x.dismissed \cup {u}
  BY <1>1, <1>2 DEF Match
<1> HIDE DEF y
<1>5. /\ matches' = [matches EXCEPT ![m] = y]
      /\ activeByUser' = [activeByUser EXCEPT ![u] = None]
      /\ UNCHANGED <<waiting, authorized, completed>>
  BY DEF Reset, y
<1>6. /\ matches'[m] = y
      /\ \A k \in MatchIds : k # m => matches'[k] = matches[k]
      /\ activeByUser'[u] = None
      /\ \A v \in Users : v # u => activeByUser'[v] = activeByUser[v]
  BY <1>1, <1>5 DEF Fine, TablesOK
<1>7. TablesOK(waiting, matches', activeByUser', completed)
  BY <1>1, <1>4, <1>5 DEF Fine, TablesOK
<1>8. QueueFine(waiting, matches', activeByUser')
  <2>1. \A v \in Users : waiting[v] # None =>
          waiting[v].room \in MatchIds /\ matches[waiting[v].room] = None
    BY <1>1 DEF Fine, QueueFine, TablesOK, Entry
  <2> QED
    BY <1>1, <1>2, <1>6, <2>1, MatchFields DEF Fine, QueueFine
<1>9. IndexFine(matches', activeByUser')
  <2> SUFFICES ASSUME NEW v \in Users, NEW k \in MatchIds
               PROVE  activeByUser'[v] = k <=> Answers(v, matches'[k])
    BY DEF IndexFine
  <2>1. activeByUser[v] = k <=> Answers(v, matches[k])
    BY <1>1 DEF Fine, IndexFine
  <2>2. Answers(v, y) <=> Answers(v, x) /\ v # u
    BY <1>2, <1>4, MatchFields DEF Answers, Players
  <2> QED
    BY <1>6, <2>1, <2>2, NoneAssumption
<1>10. \A k \in MatchIds : MatchFine(matches'[k], completed[k])
  <2>1. MatchFine(y, completed[m])
    BY <1>1, <1>2, <1>3, <1>4, MatchFields DEF Fine, MatchFine, CompletionOf
  <2> QED
    BY <1>1, <1>6, <2>1 DEF Fine
<1> QED
  BY <1>1, <1>5, <1>7, <1>8, <1>9, <1>10 DEF Fine, IInv

\* The battle begins: no account starts or stops answering for the match.
LEMMA StartStep ==
  ASSUME IInv, NEW m \in MatchIds, Start(m)
  PROVE  IInv'
<1> DEFINE x == matches[m]
           y == [x EXCEPT !.phase = "started", !.age = 0]
<1>1. Fine(waiting, matches, activeByUser, completed)
  BY DEF IInv
<1>2. x \in Match /\ x.phase = "found"
  BY <1>1 DEF Start, InPhase, Fine, TablesOK
<1>3. /\ y \in Match /\ y.phase = "started"
      /\ y.player = x.player /\ y.winner = x.winner /\ y.dismissed = x.dismissed
  BY <1>2, Zero DEF Match, Phases
<1> HIDE DEF y
<1>4. matches' = [matches EXCEPT ![m] = y] /\ UNCHANGED <<waiting, activeByUser, authorized, completed>>
  BY DEF Start, y
<1>5. matches'[m] = y /\ \A k \in MatchIds : k # m => matches'[k] = matches[k]
  BY <1>1, <1>4 DEF Fine, TablesOK
<1>6. matches \in [MatchIds -> Match \cup {None}] /\ matches' \in [MatchIds -> Match \cup {None}]
  BY <1>1, <1>3, <1>4 DEF Fine, TablesOK
<1>7. \A k \in MatchIds :
        \/ matches[k] = None /\ matches'[k] = None
        \/ /\ matches[k] \in Match /\ matches'[k] \in Match
           /\ matches'[k].phase = matches[k].phase
                \/ (matches[k].phase = "found" /\ matches'[k].phase = "started")
           /\ matches'[k].player = matches[k].player
           /\ matches'[k].winner = matches[k].winner
           /\ matches'[k].dismissed = matches[k].dismissed
  BY <1>2, <1>3, <1>5, <1>6
<1>8. Fine(waiting, matches', activeByUser, completed)
  BY <1>1, <1>6, <1>7, RewrittenFine
<1> QED
  BY <1>4, <1>8 DEF IInv

\* Time changes nothing but ages.
LEMMA TickStep ==
  ASSUME IInv, Tick
  PROVE  IInv'
<1>1. Fine(waiting, matches, activeByUser, completed)
  BY DEF IInv
<1>2. Fine(waiting, matches', activeByUser, completed)
  <2>1. ASSUME NEW m \in MatchIds, matches[m] # None
        PROVE  /\ matches'[m] = AgedMatch(m)
               /\ matches[m] \in Match
    BY <1>1, <2>1 DEF Tick, Fine, TablesOK
  <2>2. matches' \in [MatchIds -> Match \cup {None}]
    BY <2>1, AgedMatchFields DEF Tick
  <2>3. \A m \in MatchIds :
          \/ matches[m] = None /\ matches'[m] = None
          \/ /\ matches[m] \in Match /\ matches'[m] \in Match
             /\ matches'[m].phase = matches[m].phase
             /\ matches'[m].player = matches[m].player
             /\ matches'[m].winner = matches[m].winner
             /\ matches'[m].dismissed = matches[m].dismissed
    BY <2>1, AgedMatchFields DEF Tick
  <2> QED
    BY <1>1, <2>2, <2>3, RewrittenFine
<1>3. Fine(waiting', matches', activeByUser, completed)
  <2>1. ASSUME NEW u \in Users, waiting[u] # None
        PROVE  waiting'[u] \in Entry /\ waiting'[u].room = waiting[u].room
    BY <1>1, <2>1, AgedEntryFields DEF Tick, Fine, TablesOK
  <2>2. /\ waiting' \in [Users -> Entry \cup {None}]
        /\ \A u \in Users : waiting[u] = None => waiting'[u] = None
    BY <2>1 DEF Tick
  <2>3. QueueFine(waiting', matches', activeByUser)
    BY <1>2, <2>1, <2>2 DEF Fine, QueueFine
  <2> QED
    BY <1>2, <2>2, <2>3 DEF Fine, TablesOK
<1> QED
  BY <1>3 DEF IInv, Tick

LEMMA CrashStep ==
  ASSUME IInv, Crash
  PROVE  IInv'
<1>1. TablesOK(waiting', matches', activeByUser', completed')
  BY DEF IInv, Fine, TablesOK, Crash
<1>2. QueueFine(waiting', matches', activeByUser')
  BY DEF Crash, QueueFine
<1>3. IndexFine(matches', activeByUser')
  BY NoneAssumption DEF Crash, IndexFine, Answers
<1>4. \A m \in MatchIds : MatchFine(matches'[m], completed'[m])
  BY DEF Crash, MatchFine
<1> QED
  BY <1>1, <1>2, <1>3, <1>4 DEF IInv, Fine, Crash

\* IInv is inductive.
LEMMA StepFine ==
  ASSUME IInv, [Next]_vars
  PROVE  IInv'
<1>1. ASSUME NEW failing \in Failures, NEW verdict \in Verdicts, Sweep(failing, verdict)
      PROVE  IInv'
  BY <1>1, SweepStep
<1>2. ASSUME NEW failing \in Failures, NEW verdict \in Verdicts, NEW m \in MatchIds,
             Line(m, failing, verdict)
      PROVE  IInv'
  BY <1>2, LineStep
<1>3. ASSUME NEW failing \in Failures, NEW verdict \in Verdicts, NEW s \in Sessions,
             Request(s, failing, verdict)
      PROVE  IInv'
  BY <1>3, RequestStep
<1>4. ASSUME NEW failing \in Failures, NEW m \in MatchIds, NEW winner \in Sides,
             Decide(m, winner, failing)
      PROVE  IInv'
  BY <1>4, DecideStep
<1>5. ASSUME NEW s \in Sessions, Cancel(s) \/ Reset(s) \/ Revoke(s)
      PROVE  IInv'
  <2>1. CASE Revoke(s)
    BY <2>1 DEF IInv, Revoke
  <2> QED
    BY <1>5, <2>1, CancelStep, ResetStep
<1>6. ASSUME NEW m \in MatchIds, Start(m) PROVE IInv'
  BY <1>6, StartStep
<1>7. CASE UNCHANGED vars
  BY <1>7 DEF IInv, vars
<1> QED
  BY <1>1, <1>2, <1>3, <1>4, <1>5, <1>6, <1>7, TickStep, CrashStep DEF Next

-----------------------------------------------------------------------------
(***************************************************************************)
(* The life of one identifier: what a step may make of the match x in       *)
(* memory and of the completion done in the store.                          *)
(***************************************************************************)
Rests(x, done, y, stored) ==
  /\ x = None <=> y = None
  /\ x # None => y.phase = x.phase /\ y.winner = x.winner
  /\ stored = done
IsPaired(x, done, y, stored) ==
  x = None /\ y # None /\ y.phase = "found" /\ y.winner = None /\ stored = done
MovesOn(x, done, y, stored) ==
  /\ x # None /\ y # None
  /\ x.phase = "found" /\ y.phase \in {"started", "reset"}
  /\ y.winner = x.winner /\ stored = done
IsDecided(x, done, y, stored) ==
  /\ x # None /\ y # None
  /\ x.phase = "started" /\ y.winner \in Sides
  /\ \/ y.phase = "finishing" /\ stored = done
     \/ y.phase = "finished" /\ done = None /\ stored = CompletionOf(y)
IsPublished(x, done, y, stored) ==
  /\ x # None /\ x.phase = "finishing"
  /\ done = None /\ stored = CompletionOf(x)
  /\ y # None => y.phase = "finished" /\ y.winner = x.winner
IsForgotten(x, done, y, stored) ==
  x # None /\ x.phase \in {"finished", "reset"} /\ y = None /\ stored = done

SweepMoves(x, done, y, stored) ==
  \/ Rests(x, done, y, stored) \/ MovesOn(x, done, y, stored)
  \/ IsDecided(x, done, y, stored) \/ IsPublished(x, done, y, stored)
  \/ IsForgotten(x, done, y, stored)

Moves(x, done, y, stored) == SweepMoves(x, done, y, stored) \/ IsPaired(x, done, y, stored)

\* The sweep moves a match on, decides, publishes or drops it, or leaves it, and
\* never makes one.
LEMMA SweptMoves ==
  ASSUME IInv, NEW m \in MatchIds, NEW failing, NEW verdict \in Verdicts,
         NEW swept \in SUBSET MatchIds
  PROVE  SweepMoves(matches[m], completed[m], SweptMatches(failing, verdict, swept)[m],
                    SweptCompleted(failing, verdict, swept)[m])
<1> DEFINE x == matches[m]
           y == Swept(m, failing, verdict)
           done == completed[m]
           stored == SweptCompleted(failing, verdict, swept)[m]
<1>1. x \in Match \cup {None} /\ MatchFine(x, done)
  BY DEF IInv, Fine, TablesOK
<1>2. SweptMatches(failing, verdict, swept)[m] = IF m \in swept THEN y ELSE x
  BY DEF SweptMatches
<1>3. CASE m \notin swept
  <2>1. stored = done
    BY <1>3 DEF SweptCompleted
  <2> QED
    BY <1>2, <1>3, <2>1 DEF SweepMoves, Rests
<1>4. CASE m \in swept /\ RetryDue(m)
  <2>1. x \in Match /\ x.phase = "finishing" /\ ~JoinExpired(m)
    BY <1>1, <1>4 DEF RetryDue, JoinExpired, InPhase
  <2>2. Commits(m, failing) => done = None /\ stored = CompletionOf(x)
    <3> SUFFICES ASSUME Commits(m, failing) PROVE done = None /\ stored = CompletionOf(x)
      OBVIOUS
    <3>1. stored = CompletionOf([x EXCEPT !.winner = x.winner])
      BY <1>4 DEF SweptCompleted, Settles
    <3> QED
      BY <2>1, <3>1 DEF CompletionOf, Match, Commits
  <2>3. ~Commits(m, failing) => stored = done /\ ~Dropped(m, failing)
    BY <1>4 DEF SweptCompleted, Settles, Dropped, RetryDue, InPhase
  <2>4. CASE Dropped(m, failing)
    <3>1. y = None
      BY <2>4, SweptBranches
    <3> QED
      BY <1>2, <1>4, <2>1, <2>2, <2>3, <2>4, <3>1, MatchFields DEF SweepMoves, IsPublished
  <2>5. CASE ~Dropped(m, failing)
    <3>1. /\ y \in Match /\ y.winner = x.winner
          /\ y.phase = IF Commits(m, failing) THEN "finished" ELSE x.phase
      BY <1>4, <2>1, <2>5, SweptBranches, RetriedMatch
    <3> QED
      BY <1>2, <1>4, <2>1, <2>2, <2>3, <3>1, MatchFields DEF SweepMoves, IsPublished, Rests
  <2> QED
    BY <2>4, <2>5
<1>5. CASE m \in swept /\ InPhase(m, {"started"}) /\ verdict[m] # None
  <2>1. /\ x \in Match /\ x.phase = "started" /\ verdict[m] \in Sides
        /\ ~RetryDue(m)
    BY <1>1, <1>5 DEF RetryDue, InPhase, Verdicts
  <2>2. /\ y \in Match /\ y.winner = verdict[m] /\ y.player = x.player
        /\ y.phase = IF Commits(m, failing) THEN "finished" ELSE "finishing"
    BY <1>5, <2>1, SweptBranches, DecidedMatch
  <2>3. Commits(m, failing) => done = None /\ stored = CompletionOf(y)
    <3> SUFFICES ASSUME Commits(m, failing) PROVE done = None /\ stored = CompletionOf(y)
      OBVIOUS
    <3>1. stored = CompletionOf([x EXCEPT !.winner = verdict[m]])
      BY <1>5, <2>1 DEF SweptCompleted, Settles
    <3> QED
      BY <2>1, <2>2, <3>1 DEF CompletionOf, Match, Commits
  <2>4. ~Commits(m, failing) => stored = done
    BY DEF SweptCompleted, Settles
  <2> QED
    BY <1>2, <1>5, <2>1, <2>2, <2>3, <2>4, MatchFields DEF SweepMoves, IsDecided
<1>6. CASE m \in swept /\ ~RetryDue(m) /\ ~(InPhase(m, {"started"}) /\ verdict[m] # None)
  <2>1. stored = done
    BY <1>6 DEF SweptCompleted, Settles
  <2>2. CASE Dropped(m, failing)
    <3>1. x # None /\ x.phase \in {"finished", "reset"} /\ y = None
      BY <1>6, <2>2, SweptBranches DEF Dropped, InPhase
    <3> QED
      BY <1>2, <1>6, <2>1, <3>1 DEF SweepMoves, IsForgotten
  <2>3. CASE JoinExpired(m)
    <3>1. x \in Match /\ x.phase = "found"
      BY <1>1, <2>3 DEF JoinExpired, InPhase
    <3>2. y \in Match /\ y.phase = "reset" /\ y.winner = x.winner
      BY <2>3, <3>1, SweptBranches, TimedOutMatch
    <3> QED
      BY <1>2, <1>6, <2>1, <3>1, <3>2, MatchFields DEF SweepMoves, MovesOn
  <2>4. CASE ~Dropped(m, failing) /\ ~JoinExpired(m)
    <3>1. y = x
      BY <1>6, <2>4, SweptBranches
    <3> QED
      BY <1>2, <1>6, <2>1, <3>1 DEF SweepMoves, Rests
  <2> QED
    BY <2>2, <2>3, <2>4
<1> QED
  BY <1>3, <1>4, <1>5, <1>6

\* A pairing is the sweep and a new match under a free room, which the waiting
\* account had drawn and still held with a live lease and bearer.
LEMMA PairMoves ==
  ASSUME IInv, NEW failing, NEW verdict \in Verdicts, NEW s \in Sessions, NEW other \in Users,
         EnterPair(s, failing, verdict, other)
  PROVE  LET room == waiting[other].room IN
         /\ room \in MatchIds /\ EntryLives(other)
         /\ other \in Players(matches'[room])
         /\ IsPaired(matches[room], completed[room], matches'[room], completed'[room])
         /\ \A m \in MatchIds \ {room} :
              SweepMoves(matches[m], completed[m], matches'[m], completed'[m])
<1> DEFINE u == Owner[s]
           room == waiting[other].room
           ms == SweptMatches(failing, verdict, MatchIds)
           done == SweptCompleted(failing, verdict, MatchIds)
<1>1. SweptWaiting[other] = waiting[other] /\ EntryLives(other)
  BY DEF EnterPair, SweptWaiting
<1>2. /\ waiting[other] \in Entry /\ room \in MatchIds /\ matches[room] = None
  BY <1>1 DEF EntryLives, IInv, Fine, TablesOK, QueueFine, Entry
<1>3. u \in Users
  BY OwnerAssumption
<1>4. /\ matches' = [ms EXCEPT ![room] = NewMatch(other, u)]
      /\ completed' = done
  BY <1>1 DEF EnterPair
<1>5. /\ matches'[room] = NewMatch(other, u)
      /\ \A m \in MatchIds \ {room} : matches'[m] = ms[m]
  BY <1>2, <1>4 DEF SweptMatches
<1>6. completed'[room] = completed[room]
  BY <1>2, <1>4 DEF SweptCompleted, Settles, RetryDue, InPhase
<1>7. /\ other \in Players(NewMatch(other, u))
      /\ IsPaired(matches[room], completed[room], NewMatch(other, u), completed'[room])
  BY <1>2, <1>3, <1>6, NewMatchFields, MatchFields DEF IsPaired
<1>8. \A m \in MatchIds : SweepMoves(matches[m], completed[m], ms[m], done[m])
  BY SweptMoves
<1> HIDE DEF room, ms, done
<1> QED
  BY <1>1, <1>2, <1>4, <1>5, <1>7, <1>8 DEF room

\* Any other step moves each identifier as a sweep may, unless the process dies.
LEMMA OtherMoves ==
  ASSUME IInv, [Next]_vars, ~Crash,
         ~\E failing \in Failures, verdict \in Verdicts, s \in Sessions, other \in Users :
            EnterPair(s, failing, verdict, other)
  PROVE  \A m \in MatchIds : SweepMoves(matches[m], completed[m], matches'[m], completed'[m])
<1> DEFINE Good == \A m \in MatchIds :
                     SweepMoves(matches[m], completed[m], matches'[m], completed'[m])
<1> SUFFICES Good
  OBVIOUS
<1>1. /\ matches \in [MatchIds -> Match \cup {None}]
      /\ completed \in [MatchIds -> Completion \cup {None}]
      /\ \A m \in MatchIds : MatchFine(matches[m], completed[m])
  BY DEF IInv, Fine, TablesOK
<1>2. ASSUME NEW failing, NEW verdict \in Verdicts, NEW swept \in SUBSET MatchIds,
             matches' = SweptMatches(failing, verdict, swept),
             completed' = SweptCompleted(failing, verdict, swept)
      PROVE  Good
  BY <1>2, SweptMoves
<1>3. ASSUME NEW failing, NEW verdict \in Verdicts, Sweep(failing, verdict) PROVE Good
  BY <1>2, <1>3 DEF Sweep
<1>4. ASSUME NEW failing, NEW verdict \in Verdicts, NEW m \in MatchIds, Line(m, failing, verdict)
      PROVE  Good
  BY <1>2, <1>4 DEF Line
<1>5. ASSUME NEW failing \in Failures, NEW verdict \in Verdicts, NEW s \in Sessions,
             Request(s, failing, verdict)
      PROVE  Good
  <2>1. /\ matches' = SweptMatches(failing, verdict, MatchIds)
        /\ completed' = SweptCompleted(failing, verdict, MatchIds)
    BY <1>5, ZenonT(30) DEF Request, Refresh, EnterQueue
  <2> QED
    BY <1>2, <2>1
<1>6. ASSUME NEW m \in MatchIds, NEW y \in Match,
             matches[m] \in Match, matches' = [matches EXCEPT ![m] = y],
             \A k \in MatchIds \ {m} : completed'[k] = completed[k],
             SweepMoves(matches[m], completed[m], y, completed'[m])
      PROVE  Good
  <2>1. matches'[m] = y /\ \A k \in MatchIds \ {m} : matches'[k] = matches[k]
    BY <1>1, <1>6
  <2> QED
    BY <1>6, <2>1 DEF SweepMoves, Rests
<1>7. ASSUME NEW failing, NEW m \in MatchIds, NEW winner \in Sides, Decide(m, winner, failing)
      PROVE  Good
  <2> DEFINE y == Decided(m, winner, failing)
  <2>1. matches[m] \in Match /\ matches[m].phase = "started"
    BY <1>1, <1>7 DEF Decide, InPhase
  <2>2. /\ y \in Match /\ y.winner = winner
        /\ y.phase = IF Commits(m, failing) THEN "finished" ELSE "finishing"
    BY <2>1, DecidedMatch
  <2>3. /\ completed'[m] = IF Commits(m, failing) THEN CompletionOf(y) ELSE completed[m]
        /\ \A k \in MatchIds \ {m} : completed'[k] = completed[k]
    BY <1>1, <1>7 DEF Decide
  <2>4. SweepMoves(matches[m], completed[m], y, completed'[m])
    BY <2>1, <2>2, <2>3, MatchFields DEF SweepMoves, IsDecided, Commits
  <2>5. matches' = [matches EXCEPT ![m] = y]
    BY <1>7 DEF Decide
  <2> HIDE DEF y
  <2> QED
    BY <1>6, <2>1, <2>2, <2>3, <2>4, <2>5
<1>8. ASSUME NEW s \in Sessions, Reset(s) PROVE Good
  <2> DEFINE m == activeByUser[Owner[s]]
             y == [matches[m] EXCEPT !.dismissed = @ \cup {Owner[s]}]
  <2>1. m \in MatchIds /\ matches[m] \in Match /\ Owner[s] \in Users
    BY <1>1, <1>8, OwnerAssumption DEF Reset, InPhase, IInv, Fine, TablesOK
  <2>2. y \in Match /\ y.phase = matches[m].phase /\ y.winner = matches[m].winner
    BY <2>1 DEF Match
  <2>3. SweepMoves(matches[m], completed[m], y, completed[m])
    BY <2>1, <2>2, MatchFields DEF SweepMoves, Rests
  <2>4. matches' = [matches EXCEPT ![m] = y] /\ completed' = completed
    BY <1>8 DEF Reset
  <2> HIDE DEF y
  <2> QED
    BY <1>6, <2>1, <2>2, <2>3, <2>4
<1>9. ASSUME NEW m \in MatchIds, Start(m) PROVE Good
  <2> DEFINE y == [matches[m] EXCEPT !.phase = "started", !.age = 0]
  <2>1. matches[m] \in Match /\ matches[m].phase = "found"
    BY <1>1, <1>9 DEF Start, InPhase
  <2>2. y \in Match /\ y.phase = "started" /\ y.winner = matches[m].winner
    BY <2>1, Zero DEF Match, Phases
  <2>3. SweepMoves(matches[m], completed[m], y, completed[m])
    BY <2>1, <2>2, MatchFields DEF SweepMoves, MovesOn
  <2>4. matches' = [matches EXCEPT ![m] = y] /\ completed' = completed
    BY <1>9 DEF Start
  <2> HIDE DEF y
  <2> QED
    BY <1>6, <2>1, <2>2, <2>3, <2>4
<1>10. CASE Tick
  <2>1. completed' = completed
    BY <1>10 DEF Tick
  <2> SUFFICES ASSUME NEW m \in MatchIds
               PROVE  Rests(matches[m], completed[m], matches'[m], completed'[m])
    BY DEF SweepMoves
  <2>2. CASE matches[m] = None
    BY <1>10, <2>1, <2>2 DEF Tick, Rests
  <2>3. CASE matches[m] # None
    <3>1. matches[m] \in Match /\ matches'[m] = AgedMatch(m)
      BY <1>1, <1>10, <2>3 DEF Tick
    <3> QED
      BY <2>1, <3>1, AgedMatchFields, MatchFields DEF Rests
  <2> QED
    BY <2>2, <2>3
<1>11. CASE UNCHANGED <<matches, completed>>
  BY <1>11 DEF SweepMoves, Rests
<1>12. \A s \in Sessions : Cancel(s) \/ Revoke(s) => UNCHANGED <<matches, completed>>
  BY DEF Cancel, Revoke
<1>13. UNCHANGED vars => UNCHANGED <<matches, completed>>
  BY DEF vars
<1> HIDE DEF Good
<1>14. CASE \E failing \in Failures, verdict \in Verdicts :
              \/ Sweep(failing, verdict)
              \/ \E m \in MatchIds : Line(m, failing, verdict)
              \/ \E s \in Sessions : Request(s, failing, verdict)
  BY <1>3, <1>4, <1>5, <1>14
<1>15. CASE \E failing \in Failures, m \in MatchIds, winner \in Sides : Decide(m, winner, failing)
  BY <1>7, <1>15
<1>16. CASE \E s \in Sessions : Cancel(s) \/ Reset(s) \/ Revoke(s)
  BY <1>8, <1>11, <1>12, <1>16
<1>17. CASE \E m \in MatchIds : Start(m)
  BY <1>9, <1>17
<1> QED
  BY <1>10, <1>11, <1>13, <1>14, <1>15, <1>16, <1>17 DEF Next

\* Together: whatever step is taken, an identifier is dropped by a crash or moves.
LEMMA StepMoves ==
  ASSUME IInv, [Next]_vars, ~Crash, NEW m \in MatchIds
  PROVE  Moves(matches[m], completed[m], matches'[m], completed'[m])
<1>1. CASE \E failing \in Failures, verdict \in Verdicts, s \in Sessions, other \in Users :
             EnterPair(s, failing, verdict, other)
  BY <1>1, PairMoves DEF Moves
<1>2. CASE ~\E failing \in Failures, verdict \in Verdicts, s \in Sessions, other \in Users :
             EnterPair(s, failing, verdict, other)
  BY <1>2, OtherMoves DEF Moves
<1> QED
  BY <1>1, <1>2

\* What moves a match is a step of its life, or none.
LEMMA MovesAreLife ==
  ASSUME IInv, IInv', NEW m \in MatchIds,
         Moves(matches[m], completed[m], matches'[m], completed'[m])
  PROVE  [Lifecycle(m)!Next]_(Lifecycle(m)!lifecycleVars)
<1> DEFINE x == matches[m]
           y == matches'[m]
           done == completed[m]
           stored == completed'[m]
<1>1. /\ x \in Match \cup {None} /\ MatchFine(x, done)
      /\ y \in Match \cup {None} /\ MatchFine(y, stored)
      /\ done \in Completion \cup {None} /\ stored \in Completion \cup {None}
  BY DEF IInv, Fine, TablesOK
<1>2. /\ x # None => x.phase \in Phases /\ x.winner \in Sides \cup {None}
      /\ y # None => y.phase \in Phases /\ y.winner \in Sides \cup {None}
      /\ \A z : CompletionOf(z).winner = z.winner
  BY <1>1, MatchFields DEF CompletionOf
<1>3. /\ PhaseOf(m) = (IF x = None THEN "none" ELSE x.phase)
      /\ PhaseOf(m)' = (IF y = None THEN "none" ELSE y.phase)
      /\ OutcomeOf(m) = (IF x = None THEN None ELSE x.winner)
      /\ OutcomeOf(m)' = (IF y = None THEN None ELSE y.winner)
      /\ DurableOf(m) = (IF done = None THEN None ELSE done.winner)
      /\ DurableOf(m)' = (IF stored = None THEN None ELSE stored.winner)
  BY DEF PhaseOf, OutcomeOf, DurableOf
<1>4. /\ x # None => (x.winner # None <=> x.phase \in {"finishing", "finished"})
      /\ y # None => (y.winner # None <=> y.phase \in {"finishing", "finished"})
  BY <1>1 DEF MatchFine
<1> HIDE DEF x, y, done, stored
<1>5. CASE Rests(x, done, y, stored)
  BY <1>3, <1>5 DEF Rests, Lifecycle!lifecycleVars
<1>6. CASE IsPaired(x, done, y, stored)
  BY <1>3, <1>6 DEF IsPaired, Lifecycle!Next, Lifecycle!Pair
<1>7. CASE MovesOn(x, done, y, stored)
  BY <1>3, <1>7 DEF MovesOn, Lifecycle!Next, Lifecycle!Start, Lifecycle!CancelJoin
<1>8. CASE IsDecided(x, done, y, stored)
  <2>1. stored # None => stored.winner \in Sides
    BY <1>1 DEF Completion
  <2>2. CASE y.phase = "finishing"
    BY <1>3, <1>8, <2>2 DEF IsDecided, Lifecycle!Next, Lifecycle!Decide
  <2>3. CASE y.phase = "finished"
    <3>1. /\ x # None /\ x.phase = "started" /\ y # None /\ y.winner \in Sides
          /\ done = None /\ stored = CompletionOf(y)
      BY <1>8, <2>3 DEF IsDecided
    <3>2. stored # None /\ stored.winner = y.winner
      BY <1>1, <1>2, <2>3, <3>1, CompletionOfMatch
    <3> QED
      BY <1>3, <2>3, <3>1, <3>2 DEF Lifecycle!Next, Lifecycle!DecideAndPublish
  <2> QED
    BY <1>8, <2>2, <2>3 DEF IsDecided
<1>9. CASE IsPublished(x, done, y, stored)
  <2>1. /\ x # None /\ x.phase = "finishing" /\ done = None
        /\ stored = CompletionOf(x) /\ x.winner \in Sides
        /\ y # None => y.phase = "finished" /\ y.winner = x.winner
    BY <1>2, <1>4, <1>9 DEF IsPublished
  <2>2. stored # None /\ stored.winner = x.winner
    BY <1>1, <1>2, <2>1, CompletionOfMatch
  <2> QED
    BY <1>3, <2>1, <2>2 DEF Lifecycle!Next, Lifecycle!Publish
<1>10. CASE IsForgotten(x, done, y, stored)
  BY <1>3, <1>10 DEF IsForgotten, Lifecycle!Next, Lifecycle!Forget
<1> QED
  BY <1>5, <1>6, <1>7, <1>8, <1>9, <1>10 DEF Moves, SweepMoves, x, y, done, stored

-----------------------------------------------------------------------------
(***************************************************************************)
(* The theorems.                                                            *)
(***************************************************************************)
\* Whatever the accounts, the clock, the store and the process do, the queue,
\* the matches, the index and the stored completions fit together.
THEOREM Invariance == Spec => []IInv
<1>1. Init => IInv
  BY InitFine
<1>2. IInv /\ [Next]_vars => IInv'
  BY StepFine
<1> QED
  BY <1>1, <1>2, PTL DEF Spec

\* The four tables of the service and the completed_matches table keep their types.
THEOREM TypeCorrect == Spec => []TypeOK
<1>1. IInv => TypeOK
  BY DEF IInv, Fine, TablesOK, TypeOK
<1> QED
  BY <1>1, Invariance, PTL

\* At most one account waits, and it answers for no match: enter pairs with the
\* first waiting account it finds, and there never is a second.
THEOREM OneWaits == Spec => []OneFreeEntry
<1>1. IInv => OneFreeEntry
  BY DEF IInv, Fine, QueueFine, OneFreeEntry
<1> QED
  BY <1>1, Invariance, PTL

\* Pairing never overwrites a match in memory.
THEOREM RoomIsFree == Spec => []RoomIsUnused
<1>1. IInv => RoomIsUnused
  BY DEF IInv, Fine, QueueFine, RoomIsUnused
<1> QED
  BY <1>1, Invariance, PTL

\* activeByUser is exactly the matches an account still answers for.
THEOREM IndexIsExact == Spec => []ActiveIndexExact
<1>1. IInv => ActiveIndexExact
  <2> SUFFICES ASSUME IInv, NEW u \in Users, NEW m \in MatchIds
               PROVE  activeByUser[u] = m <=>
                        /\ InPhase(m, Phases \ {"reset"})
                        /\ u \in Players(matches[m]) \ matches[m].dismissed
    BY DEF ActiveIndexExact
  <2>1. activeByUser[u] = m <=> Answers(u, matches[m])
    BY DEF IInv, Fine, IndexFine
  <2>2. matches[m] # None => matches[m].phase \in Phases
    BY MatchFields DEF IInv, Fine, TablesOK
  <2> QED
    BY <2>1, <2>2 DEF Answers, InPhase
<1> QED
  BY <1>1, Invariance, PTL

\* A result is shown only once the account store holds it.
THEOREM PublishedIsStored == Spec => []PublishedIsDurable
<1>1. IInv => PublishedIsDurable
  BY DEF IInv, Fine, MatchFine, InPhase, PublishedIsDurable
<1> QED
  BY <1>1, Invariance, PTL

\* No step of the service, and no crash, changes a completion the store holds.
THEOREM StoreIsMonotone == Spec => StoredForever
<1>1. ASSUME [Next]_vars, NEW m \in MatchIds, completed[m] # None
      PROVE  completed'[m] = completed[m]
  <2>1. \A failing : ~Commits(m, failing)
    BY <1>1 DEF Commits
  <2>2. \A failing, verdict, swept : SweptCompleted(failing, verdict, swept)[m] = completed[m]
    BY <2>1 DEF SweptCompleted, Settles
  <2>3. ASSUME NEW failing, NEW verdict, Sweep(failing, verdict)
        PROVE  completed'[m] = completed[m]
    BY <2>2, <2>3 DEF Sweep
  <2>4. ASSUME NEW failing, NEW verdict, NEW k \in MatchIds, Line(k, failing, verdict)
        PROVE  completed'[m] = completed[m]
    BY <2>2, <2>4 DEF Line
  <2>5. ASSUME NEW failing, NEW verdict, NEW s, Request(s, failing, verdict)
        PROVE  completed'[m] = completed[m]
    <3>1. completed' = SweptCompleted(failing, verdict, MatchIds)
      BY <2>5, ZenonT(30) DEF Request, Refresh, EnterQueue, EnterPair
    <3> QED
      BY <2>2, <3>1
  <2>6. ASSUME NEW failing, NEW k \in MatchIds, NEW winner, Decide(k, winner, failing)
        PROVE  completed'[m] = completed[m]
    BY <2>1, <2>6 DEF Decide
  <2>7. (\E s \in Sessions : Cancel(s) \/ Reset(s) \/ Revoke(s)) => UNCHANGED completed
    BY DEF Cancel, Reset, Revoke
  <2>8. (\E k \in MatchIds : Start(k)) \/ Tick \/ Crash \/ UNCHANGED vars => UNCHANGED completed
    BY DEF Start, Tick, Crash, vars
  <2> QED
    BY <1>1, <2>3, <2>4, <2>5, <2>6, <2>7, <2>8, ZenonT(30) DEF Next
<1>2. [Next]_vars => [\A m \in MatchIds : completed[m] # None => completed'[m] = completed[m]]_vars
  BY <1>1
<1> QED
  BY <1>2, PTL DEF Spec, StoredForever
\* The queue pairs only with an account whose lease runs and whose bearer is
\* authorised at that moment, under the identifier drawn for it: enter sweeps the
\* queue before it looks for an opponent.
THEOREM OnlyLiveEntriesPair == Spec => PairsLiveEntries
<1> DEFINE Live(m) == \E u \in Players(matches'[m]) :
                        /\ waiting[u] # None
                        /\ waiting[u].room = m
                        /\ waiting[u].lease < QueueLease
                        /\ waiting[u].session \in authorized
<1>1. ASSUME IInv, [Next]_vars, NEW m \in MatchIds, matches[m] = None, matches'[m] # None
      PROVE  Live(m)
  <2>1. ~SweepMoves(matches[m], completed[m], matches'[m], completed'[m])
    BY <1>1 DEF SweepMoves, Rests, MovesOn, IsDecided, IsPublished, IsForgotten
  <2>2. ~Crash
    BY <1>1 DEF Crash
  <2>3. PICK failing \in Failures, verdict \in Verdicts, s \in Sessions, other \in Users :
          EnterPair(s, failing, verdict, other)
    BY <1>1, <2>1, <2>2, OtherMoves
  <2>4. m = waiting[other].room /\ EntryLives(other) /\ other \in Players(matches'[m])
    BY <1>1, <2>1, <2>3, PairMoves
  <2> QED
    BY <2>4 DEF EntryLives
<1>2. IInv /\ [Next]_vars =>
        [\A m \in MatchIds : matches[m] = None /\ matches'[m] # None => Live(m)]_vars
  BY <1>1
<1> QED
  BY <1>2, Invariance, PTL DEF Spec, PairsLiveEntries

\* A living server drops a match only when the join timeout reset it or when the
\* store holds the outcome it ended with, even if the pass that stores it also
\* drops it.
THEOREM OnlySettledGo == Spec => OnlySettledIsDropped
<1> DEFINE Settled(m) ==
      \/ matches[m].phase = "reset"
      \/ matches[m].phase \in {"finishing", "finished"} /\ completed'[m] = CompletionOf(matches[m])
<1>1. ASSUME IInv, [Next]_vars, ~Crash, NEW m \in MatchIds, matches[m] # None, matches'[m] = None
      PROVE  Settled(m)
  <2>1. IsPublished(matches[m], completed[m], matches'[m], completed'[m])
          \/ IsForgotten(matches[m], completed[m], matches'[m], completed'[m])
    BY <1>1, StepMoves DEF Moves, SweepMoves, Rests, IsPaired, MovesOn, IsDecided
  <2>2. matches[m].phase = "finished" => completed[m] = CompletionOf(matches[m])
    BY <1>1 DEF IInv, Fine, MatchFine
  <2> QED
    BY <2>1, <2>2 DEF IsPublished, IsForgotten
<1>2. IInv /\ [Next]_vars =>
        [Crash \/ \A m \in MatchIds : matches[m] # None /\ matches'[m] = None => Settled(m)]_vars
  BY <1>1
<1> QED
  BY <1>2, Invariance, PTL DEF Spec, OnlySettledIsDropped

\* Every identifier goes through the life MatchLifecycle promises: found,
\* started, decided once, shown only when stored, gone only when settled or when
\* the process dies; and it may be drawn again.
THEOREM Refinement == Spec => ImplementsLifecycle
<1>1. Init => \A m \in MatchIds : Lifecycle(m)!Init
  BY DEF Init, Lifecycle!Init, PhaseOf, OutcomeOf, DurableOf
<1>2. ASSUME IInv, IInv', [Next]_vars, NEW m \in MatchIds
      PROVE  [Lifecycle(m)!Next]_(Lifecycle(m)!lifecycleVars)
  <2>1. CASE Crash
    <3>1. /\ matches[m] # None => matches[m].phase \in Phases
          /\ matches'[m] = None /\ completed'[m] = completed[m]
      BY <1>2, <2>1, MatchFields DEF Crash, IInv, Fine, TablesOK
    <3>2. /\ PhaseOf(m)' = "none" /\ OutcomeOf(m)' = None /\ DurableOf(m)' = DurableOf(m)
          /\ matches[m] = None => PhaseOf(m) = "none" /\ OutcomeOf(m) = None
          /\ matches[m] # None => PhaseOf(m) # "none"
      BY <3>1 DEF PhaseOf, OutcomeOf, DurableOf, Phases
    <3> QED
      BY <3>2 DEF Lifecycle!Next, Lifecycle!Crash, Lifecycle!lifecycleVars
  <2>2. CASE ~Crash
    BY <1>2, <2>2, StepMoves, MovesAreLife
  <2> QED
    BY <2>1, <2>2
<1>3. IInv /\ IInv' /\ [Next]_vars =>
        [\A m \in MatchIds : [Lifecycle(m)!Next]_(Lifecycle(m)!lifecycleVars)]_vars
  BY <1>2
<1> QED
  BY <1>1, <1>3, Invariance, PTL DEF Spec, ImplementsLifecycle
=============================================================================
