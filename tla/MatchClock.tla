----------------------------- MODULE MatchClock -----------------------------
(***************************************************************************)
(* Think time in a human match: armPresentationClock, startMatchClock,     *)
(* pauseMatchClock, syncMatchClock, the timer that calls it, and the       *)
(* handlers that call them.  The clock is read from wall time only when    *)
(* somebody looks; IdealClock says what the players are promised.          *)
(*                                                                         *)
(* One handler takes one instant.  since is "now" minus the moment the     *)
(* current clock counts from: clockStartedAtMs of a running clock, or the  *)
(* deadline of a pending one (then negative until it falls due).           *)
(***************************************************************************)
EXTENDS Integers

CONSTANTS Sides,       \* SIDES: the two colours
          None,        \* "" or null: no side
          Budget,      \* initialTimeMs, in units of the model
          Allowances   \* authored presentation + readiness allowance, in units

ASSUME SidesAssumption == /\ None \notin Sides
                          /\ \E s, t \in Sides : s # t /\ Sides = {s, t}
Verdicts == {"timeout", "play", "disconnect"} \X Sides
ASSUME VerdictAssumption == None \notin Verdicts
ASSUME TimesAssumption == Budget \in Nat \ {0} /\ Allowances \subseteq Nat /\ Allowances # {}

VARIABLE match
vars == <<match>>

Opposite(s) == CHOOSE t \in Sides : t # s
Max0(n) == IF n > 0 THEN n ELSE 0

\* settling: a declined respin was accepted but its battle is not over ("no": there
\* is none). "spins": pendingRespin is still set, so its owner may answer again;
\* "lost": an answer made the owed callback stale; "knockouts": pendingRespin is gone.
Settlings == {"no", "spins", "knockouts", "lost"}

Started(m) == m.verdict = None

\* finish: the presentation clock is left where it is, nobody reads it again.
Finish(m, why, winner) ==
  [m EXCEPT !.verdict = <<why, winner>>, !.active = None, !.since = 0]

\* Mutant: a clock that falls due counts from the moment it is noticed.
LateActivate(m) ==
  IF m.pending # None /\ m.since >= 0
  THEN [m EXCEPT !.active = m.pending, !.pending = None, !.since = 0] ELSE m
\* Mutant: a pending clock waits for timer_start.
NeverActivate(m) == m

\* The human half of syncMatchClock: a pending clock past its deadline runs,
\* and counts from the deadline.
Activate(m) ==
  IF m.pending # None /\ m.since >= 0
  THEN [m EXCEPT !.active = m.pending, !.pending = None] ELSE m

\* The inherited half: charge what passed, and decide when nothing is left.
Charge(m) ==
  LET rest == Max0(m.time[m.active] - Max0(m.since))
      charged == [m EXCEPT !.time = [@ EXCEPT ![m.active] = rest], !.since = 0]
  IN IF m.active = None \/ m.since <= 0 THEN m
     ELSE IF rest = 0 THEN Finish(charged, "timeout", Opposite(m.active)) ELSE charged

\* Mutant: whoever reads the clock also stops it, as an accepted move does.
StoppingSync(m) ==
  IF Started(m) THEN [Charge(Activate(m)) EXCEPT !.active = None, !.pending = None, !.since = 0]
  ELSE m
SyncMatchClock(m) == IF Started(m) THEN Charge(Activate(m)) ELSE m

ArmPresentationClock(m, a) ==
  SyncMatchClock([m EXCEPT !.active = None, !.pending = m.choosing, !.since = -a])

\* Callers have synchronised in the same instant.
PauseMatchClock(m) == [m EXCEPT !.active = None, !.pending = None, !.since = 0]

\* Mutant: timer_start is honoured for the side that sends it, whoever chooses.
EagerStart(m, s) ==
  IF ~Started(m) \/ m.resolving THEN m
  ELSE [m EXCEPT !.pending = None, !.active = s, !.since = 0]
StartMatchClock(m, s) ==
  IF ~Started(m) \/ m.choosing # s \/ m.resolving THEN m
  ELSE IF m.active = s THEN [m EXCEPT !.pending = None]
  ELSE [m EXCEPT !.active = s, !.pending = None, !.since = 0]

Played(m) == [m EXCEPT !.moves = 1 - @]

-----------------------------------------------------------------------------
\* Both players have sent playgame: the first turn's presentation begins.
Init == \E s \in Sides, a \in Allowances :
  match = ArmPresentationClock(
    [verdict |-> None, turn |-> s, choosing |-> s, resolving |-> FALSE, settling |-> "no",
     time |-> [t \in Sides |-> Budget], active |-> None, pending |-> None, since |-> 0,
     moves |-> 0], a)

\* Wall time.  Past Budget more of it changes nothing.
Tick == /\ Started(match)
        /\ match.active # None \/ match.pending # None
        /\ match.since < Budget
        /\ match' = [match EXCEPT !.since = @ + 1]

\* tickMatchTimers, a "time" line, a playgame of a running match, or a move
\* that is turned down: they read the clock and leave everything else alone.
Look == match' = SyncMatchClock(match)

TimerStart(s) ==
  LET m == SyncMatchClock(match)
  IN match' = IF m.turn = s THEN StartMatchClock(m, s) ELSE m

\* The guards a move has to pass, with the clock read first.
Admitted(m, s) == Started(m) /\ m.choosing = s /\ ~m.resolving

\* declare_battle, declare_respin or declare_spin: input and clocks are locked
\* until a delayed step of the battle comes back.
Lock(s) ==
  LET m == SyncMatchClock(match)
  IN /\ Admitted(m, s) /\ m.settling \in {"no", "spins", "lost"}
     /\ match' = [Played(PauseMatchClock(m)) EXCEPT !.resolving = TRUE, !.settling = "no"]

\* Any other accepted move: the choice passes to whoever is to choose next.
Move(s, turn, choosing, a) ==
  LET m == SyncMatchClock(match)
  IN /\ Admitted(m, s) /\ m.settling = "no"
     /\ match' = ArmPresentationClock(
          [Played(PauseMatchClock(m)) EXCEPT !.turn = turn, !.choosing = choosing], a)

\* Declining a respin whose battle still needs wheels or knockout choices: the
\* clock is armed for that side although a delayed step is owed.  The respin
\* is the plate owner's, whose turn it is.
Decline(s, how, a) ==
  LET m == SyncMatchClock(match)
  IN /\ Admitted(m, s) /\ m.turn = s
     /\ \/ m.settling = "no" /\ how \in {"spins", "knockouts"}
        \/ m.settling \in {"spins", "lost"} /\ how = "lost"
     /\ match' = ArmPresentationClock(
          [Played(PauseMatchClock(m)) EXCEPT !.settling = how], a)

\* A move that ends the match: resignation as a move or a line, or a goal.
FinishingMove(s, w) ==
  LET m == SyncMatchClock(match)
  IN /\ Started(m)
     /\ \/ w = Opposite(s)                                       \* lose
        \/ Admitted(m, s) /\ m.settling = "no" /\ w = s          \* goal
     /\ match' = Finish(m, "play", w)

Owed(m) == Started(m) /\ (m.resolving \/ m.settling \in {"spins", "knockouts"})

\* A delayed step of a battle hands the choice to a player: a respin, a jump,
\* an extra battle, the choice after a grudge wheel, or the next turn.  It
\* does not read the clock first.
Continue(turn, choosing, a) ==
  /\ Owed(match)
  /\ match' = ArmPresentationClock(
       [Played(match) EXCEPT !.resolving = FALSE, !.settling = "no", !.turn = turn,
                             !.choosing = choosing], a)

\* The secondary wheels have stopped and knockout choices follow.
ContinueKnockouts ==
  /\ Started(match) /\ match.settling = "spins"
  /\ match' = [match EXCEPT !.settling = "knockouts"]

\* A delayed step meets a wheel without segments.
ContinueInvalid(w) == /\ Started(match) /\ match.resolving
                      /\ match' = Finish(match, "play", w)

\* expireMatch: a player has been away too long.  The clock is not read.
Disconnect(w) == /\ Started(match)
                 /\ match' = Finish(match, "disconnect", w)

HandsOver == \E turn, choosing \in Sides, a \in Allowances :
               \/ \E s \in Sides : Move(s, turn, choosing, a)
               \/ Continue(turn, choosing, a)

Next == \/ Tick \/ Look
        \/ \E s \in Sides : TimerStart(s) \/ Lock(s)
        \/ HandsOver
        \/ \E s \in Sides, how \in Settlings, a \in Allowances : Decline(s, how, a)
        \/ \E s, w \in Sides : FinishingMove(s, w)
        \/ ContinueKnockouts
        \/ \E w \in Sides : ContinueInvalid(w) \/ Disconnect(w)

\* Time passes, and tickMatchTimers runs on an interval: nothing else is owed.
Spec == Init /\ [][Next]_vars /\ WF_vars(Tick) /\ WF_vars(Look)

-----------------------------------------------------------------------------
Clocked == match.active # None \/ match.pending # None
Thinker == IF ~Started(match) THEN None
           ELSE IF match.active # None THEN match.active ELSE match.pending

\* The running total a perfect observer keeps: what was charged, and what has
\* passed since that nobody has charged yet.
Ideal == INSTANCE IdealClock WITH
  thinker <- Thinker,
  grace <- IF Thinker # None /\ match.active = None THEN Max0(-match.since) ELSE 0,
  left <- [s \in Sides |-> IF ~Started(match) THEN 0
                           ELSE IF s = Thinker THEN Max0(match.time[s] - Max0(match.since))
                           ELSE match.time[s]],
  owing <- Started(match) /\ match.settling # "no",
  moves <- match.moves,
  verdict <- match.verdict

\* Whoever looks at the clock, whenever and in whatever order with the lines
\* and delayed steps of the match, the players' time is the time of a clock
\* that never has to be looked at: nobody loses or gains a unit, nobody plays
\* on after running out, and nobody loses on time who has some left.
\* (syncMatchClock charging from the fixed deadline.)
ImplementsIdealClock == Ideal!ClockSpec

\* While a player is to choose, one clock stands for that player, running or
\* waiting for its deadline; while the server resolves a battle, none does.
\* (armPresentationClock and pauseMatchClock at every hand-over.)
ClockStandsForChooser ==
  Started(match) =>
    /\ match.resolving => ~Clocked
    /\ ~match.resolving => (match.active = None) # (match.pending = None)
    /\ ~match.resolving /\ match.settling = "no" => Thinker = match.choosing

Chooses(s, parity) == /\ Started(match) /\ ~match.resolving
                      /\ match.choosing = s /\ match.moves = parity

\* A player to whom the choice belongs does not keep it for ever without
\* moving, even if the client never says it is ready: time runs out, or the
\* player moves, or somebody ends the match.
ThinkingEnds == \A s \in Sides, parity \in 0..1 :
                  Chooses(s, parity) ~> ~Chooses(s, parity)
=============================================================================
