----------------------------- MODULE TurnEngine -----------------------------
(***************************************************************************)
(* The turn engine of custom-match-engine.mjs, in the human variant        *)
(* (human-match-service.mjs: both sides are clients, input is locked by    *)
(* match.resolving) and the training variant (white is played by delayed   *)
(* calls): what is pending in a turn, which delayed continuation owes the  *)
(* next step, when a turn is completed and bound in the ledger.            *)
(*                                                                         *)
(* Kept is the control: every guard, every pending object with the record  *)
(* length that identifies it, every timer, the room reserved in the        *)
(* record.  What the board, the wheels and the skills decide is a free     *)
(* choice: who is faint, who may jump, which battles a move opens.  A      *)
(* record counts one per entry.  Left out: the Z transaction (it narrows   *)
(* which moves are accepted), replies, the bearer of a training socket and *)
(* the plates an opponentPlateMode other than "off" lets white play.       *)
(***************************************************************************)
EXTENDS Naturals

CONSTANTS Variants,          \* TRUE for human matchmaking, FALSE for training
          None,
          Capacity,          \* entries the encoder takes (canonicalToken)
          MaxCompletions,    \* MAX_COMPLETIONS
          Wheels,            \* secondary wheels a battle may need
          WheelsAfterRespin, \* the same, for a battle that offered a respin
          MaxFaint           \* figures one battle may knock out

ASSUME EngineAssumption ==
  /\ Variants \subseteq BOOLEAN
  /\ {Capacity, MaxCompletions, Wheels, WheelsAfterRespin, MaxFaint} \subseteq Nat

VARIABLE match
vars == <<match>>

Sides == {"black", "white"}
Other(side) == IF side = "black" THEN "white" ELSE "black"
Enders == {"mp_move", "spot_move", "plate_move"}
Steps == {"resolve", "spin", "respin", "secondary", "knockouts", "grudge",
          "opponent", "opponent_grudge", "opponent_jump", "opponent_extra"}

\* What the match keeps: the battle that was declared and how far it is
\* resolved, the choices a side has to make, the steps the server owes.
Plans == [ordinal : Nat, count : Nat, index : Nat]
Declarations == [at : Nat, started : BOOLEAN, turnSide : Sides, outcomes : Nat]
Resolutions == [spin : Nat, turnSide : Sides, phase : {"pending", "completed"}, plan : Plans \cup {None}]
                 \cup [spin : Nat, turnSide : Sides, phase : {"applying"}, plan : Plans]
Respins == [spin : Nat, side : Sides, declared : BOOLEAN]
Jumps == [at : Nat, spin : Nat, side : Sides, landing : BOOLEAN, extra : BOOLEAN]
ExtraBattles == [at : Nat, spin : Nat, side : Sides, choices : BOOLEAN]
SecondarySpins == [at : Nat, spin : Nat, left : Nat, kos : Nat]
PendingKnockouts == [at : Nat, spin : Nat, left : Nat, shifts : Nat]
Grudges == [at : Nat, bound : Nat, side : Sides, type : Enders, declared : BOOLEAN]
Phases == {"started", "decided"}
Battles == {"none", "may", "must"}
Plates == {"none", "select", "respin"}
Extras == {"none", "open", "used"}
Timers == [step : Steps, at : Nat, turns : Nat]
ASSUME NoneAssumption ==
  None \notin Plans \cup Declarations \cup Resolutions \cup Respins \cup Jumps \cup ExtraBattles
              \cup SecondarySpins \cup PendingKnockouts \cup Grudges

Matches == [
  human : BOOLEAN, phase : Phases, turn : Sides, len : Nat, done : Nat, cut : Nat,
  timers : SUBSET Timers, late : BOOLEAN, resolving : BOOLEAN,
  pendingBattles : Battles, pendingTouch : BOOLEAN, pendingPlate : Plates,
  battleResolutionPending : BOOLEAN, extraBattle : Extras,
  activeBattleDeclaration : Declarations \cup {None}, activeBattleResolution : Resolutions \cup {None},
  pendingRespin : Respins \cup {None}, pendingJump : Jumps \cup {None},
  pendingExtraBattle : ExtraBattles \cup {None}, pendingSecondarySpins : SecondarySpins \cup {None},
  pendingKnockouts : PendingKnockouts \cup {None}, pendingGrudge : Grudges \cup {None}]
TypeOK == match \in Matches

\* The ledger's view of a completion: its ordinal, the length of the record it
\* binds and the entry that decided the turn (CompletedTurns has the rest).
Plan(m, index, more) == [ordinal |-> m.done + 1, count |-> m.len + more, index |-> index]
Fits(m, plan) == /\ plan.ordinal = m.done + 1
                 /\ plan.ordinal <= MaxCompletions
                 /\ plan.count > m.cut
                 /\ plan.index >= m.cut

Room(m, reserve) == m.len + reserve <= Capacity
Grow(m, n) == [m EXCEPT !.len = @ + n]
\* setTimeout.  A callback carries what it is to continue: the entry that
\* identifies the declaration or the record length of the pending object.
Later(m, step, at) == [m EXCEPT !.timers = @ \cup {[step |-> step, at |-> at, turns |-> m.done]}]
\* Mutant: the opponent's turn is never scheduled.
NobodyPlays(m) == m
OpponentLater(m) == IF m.human THEN m ELSE Later(m, "opponent", m.len)
Controlled(m, side) == ~m.human /\ side = "white"

-----------------------------------------------------------------------------
\* finish: the outcome is fixed (Matchmaking and BattleConnection follow it).
Finish(m) == [m EXCEPT !.phase = "decided"]

\* pauseMatchClock looks at the clock, which may have run out: the handler
\* stops ("out") unless a human outcome could not be stored ("unstored").
Pauses == IF match.human THEN {"runs", "out", "unstored"} ELSE {"runs", "out"}
Paused(m, pause) == IF pause = "runs" THEN m ELSE Finish(m)

\* addZGauge: an award is an entry of its own.
Gauge(m) == IF m.phase = "started" THEN Grow(m, 1) ELSE m

\* completeTurnCleanup: nothing that was pending outlives the turn.
CompleteTurnCleanup(m, side) ==
  [m EXCEPT
    !.turn = Other(side), !.pendingBattles = "none", !.pendingTouch = FALSE, !.pendingPlate = "none",
    !.battleResolutionPending = FALSE, !.extraBattle = "none",
    !.pendingRespin = None, !.pendingGrudge = None, !.pendingKnockouts = None,
    !.pendingSecondarySpins = None, !.pendingJump = None, !.pendingExtraBattle = None]

\* completeTurn, with the gauge of the next turn.
CompleteTurn(m, side, plan) ==
  IF ~(m.phase = "started" /\ Fits(m, plan) /\ m.turn = side) THEN m
  ELSE Gauge([CompleteTurnCleanup(m, side) EXCEPT !.done = @ + 1, !.cut = plan.count])

\* Mutant: a battle outlives the match.
ByPhase(m, spin, phase) ==
  /\ m.activeBattleResolution # None
  /\ m.activeBattleResolution.phase = phase
  /\ m.activeBattleResolution.spin = spin
CurrentBattleResolution(m, spin, phase) ==
  /\ m.phase = "started"
  /\ m.activeBattleResolution # None
  /\ m.activeBattleResolution.phase = phase
  /\ m.activeBattleResolution.spin = spin
  /\ m.turn = m.activeBattleResolution.turnSide

SelectionSide(m) ==
  CASE m.pendingGrudge # None -> IF m.pendingGrudge.declared THEN "both" ELSE m.pendingGrudge.side
    [] m.pendingGrudge = None /\ m.pendingRespin # None -> m.pendingRespin.side
    [] m.pendingGrudge = None /\ m.pendingRespin = None /\ m.pendingJump # None -> m.pendingJump.side
    [] m.pendingGrudge = None /\ m.pendingRespin = None /\ m.pendingJump = None
         /\ m.pendingExtraBattle # None -> m.pendingExtraBattle.side
    [] OTHER -> m.turn

-----------------------------------------------------------------------------
\* completeBattleResolution: the last step of a battle; with endTurn FALSE an
\* extra battle follows in the same turn.
CompleteBattleResolution(m, spin, endTurn) ==
  IF ~(CurrentBattleResolution(m, spin, "applying") /\ Fits(m, m.activeBattleResolution.plan)) THEN m
  ELSE LET settled == [m EXCEPT !.activeBattleResolution.phase = "completed"]
           ended == CompleteTurn(Gauge(settled), m.turn, m.activeBattleResolution.plan)
       IN IF endTurn
          THEN [IF ended.turn = "white" THEN OpponentLater(ended) ELSE ended EXCEPT !.resolving = FALSE]
          ELSE [settled EXCEPT !.pendingPlate = "none", !.pendingRespin = None, !.pendingJump = None,
                  !.pendingExtraBattle = None, !.pendingBattles = "none", !.battleResolutionPending = FALSE]

\* completeKnockoutBatch: n figures leave the field, with an award each.
CompleteKnockoutBatch(m, spin, n, complete) ==
  IF ~(CurrentBattleResolution(m, spin, "applying") /\ Fits(m, m.activeBattleResolution.plan)) THEN m
  ELSE IF complete THEN CompleteBattleResolution(Grow(m, n), spin, TRUE) ELSE Grow(m, n)

\* Mutant: the respin that was offered stays pending.
KeepingRespin(m, spin, left) ==
  Later([m EXCEPT !.pendingKnockouts = [at |-> m.len, spin |-> spin, left |-> left, shifts |-> 0],
                  !.battleResolutionPending = TRUE], "knockouts", m.len)
\* stagePendingKnockouts: several figures are faint, one is relocated at a time.
StagePendingKnockouts(m, spin, left) ==
  Later([m EXCEPT !.pendingKnockouts = [at |-> m.len, spin |-> spin, left |-> left, shifts |-> 0],
                  !.pendingRespin = None, !.battleResolutionPending = TRUE], "knockouts", m.len)

Knockouts(m, spin, n) ==
  CASE n = 0 -> CompleteBattleResolution(m, spin, TRUE)
    [] n = 1 -> CompleteKnockoutBatch(m, spin, 1, TRUE)
    [] OTHER -> StagePendingKnockouts(m, spin, n)

\* Mutant: the respin that was declined stays pending.
KeepingOffer(m, spin, o) ==
  [m EXCEPT !.pendingJump = [at |-> m.len, spin |-> spin, side |-> o.jumper,
                             landing |-> o.landing, extra |-> o.extra],
            !.pendingBattles = "none", !.battleResolutionPending = TRUE, !.resolving = FALSE]
\* stagePendingJump: the winner of the battle may leap to another point.  With
\* nowhere to land the choice stays open, which is documented at 2460.
StagePendingJump(m, spin, o) ==
  LET staged == [m EXCEPT !.pendingJump = [at |-> m.len, spin |-> spin, side |-> o.jumper,
                                           landing |-> o.landing, extra |-> o.extra],
                          !.pendingRespin = None, !.pendingBattles = "none",
                          !.battleResolutionPending = TRUE, !.resolving = FALSE]
  IN IF Controlled(m, o.jumper) /\ o.landing THEN Later(staged, "opponent_jump", m.len) ELSE staged

StageSecondarySpins(m, spin, left, kos) ==
  Later([m EXCEPT !.pendingSecondarySpins = [at |-> m.len, spin |-> spin, left |-> left, kos |-> kos]],
        "secondary", m.len)

\* finishBattleSpin: the outcome of the wheels is applied to the board.
FinishBattleSpin(m, spin, o) ==
  IF ~(/\ m.pendingKnockouts = None
       /\ CurrentBattleResolution(m, spin, "pending")
       /\ Room(m, 39)
       /\ Fits(m, Plan(m, spin, 0))) THEN m
  ELSE LET applied == [m EXCEPT !.activeBattleResolution.phase = "applying",
                                !.activeBattleResolution.plan = Plan(m, spin, 0),
                                !.activeBattleDeclaration.outcomes = @ + 1]
       IN IF o.jumper # "nobody" THEN StagePendingJump(applied, spin, o)
          ELSE IF o.wheels > 0 THEN StageSecondarySpins(applied, spin, o.wheels, o.faint)
          ELSE Knockouts(applied, spin, o.faint)

\* performBattleSpin.  Double Chance (plate 5015) holds the outcome back until
\* its owner has chosen; an extra battle has no plate, nor has the training
\* opponent, so nothing declares a respin for it (declareOpponentRespin).
PerformBattleSpin(m, at, o) ==
  IF ~(/\ m.phase = "started"
       /\ m.activeBattleDeclaration.at = at
       /\ m.turn = m.activeBattleDeclaration.turnSide
       /\ m.activeBattleResolution # None =>
            m.activeBattleResolution.phase \notin {"pending", "applying"}
       /\ Room(m, 42)) THEN m
  ELSE LET spun == [Grow(m, 1) EXCEPT
                      !.activeBattleResolution = [spin |-> m.len, turnSide |-> m.turn, phase |-> "pending",
                                                  plan |-> None]]
           offered == [spun EXCEPT !.pendingRespin = [spin |-> m.len, side |-> m.turn, declared |-> FALSE],
                                   !.resolving = FALSE]
       IN IF m.pendingPlate = "respin" THEN offered ELSE FinishBattleSpin(spun, m.len, o)

\* resolveBattle: d wheels are disabled first, and shown for a moment.
ResolveBattle(m, at, d, o) ==
  IF ~(/\ m.phase = "started"
       /\ m.activeBattleDeclaration.at = at
       /\ ~m.activeBattleDeclaration.started
       /\ m.turn = m.activeBattleDeclaration.turnSide
       /\ Room(m, 44)) THEN m
  ELSE LET begun == [m EXCEPT !.activeBattleDeclaration.started = TRUE]
       IN IF d = 0 THEN PerformBattleSpin(begun, at, o) ELSE Later(Grow(begun, d), "spin", at)

\* performPendingRespin: one wheel again; the callback names no object.
PerformPendingRespin(m, o) ==
  IF ~(/\ m.phase = "started"
       /\ m.pendingRespin # None /\ m.pendingRespin.declared
       /\ Room(m, 40)) THEN m
  ELSE FinishBattleSpin([Grow(m, 1) EXCEPT
         !.pendingRespin.spin = m.len,
         !.activeBattleResolution = [spin |-> m.len, turnSide |-> @.turnSide, phase |-> "pending", plan |-> None]],
         m.len, o)

\* Mutant: the wheels that are left keep the old cut of the record.
StaleSecondarySpins(m, at) ==
  LET p == m.pendingSecondarySpins
      spun == [Grow(m, 1) EXCEPT !.activeBattleResolution.spin = m.len,
                                 !.activeBattleResolution.plan = Plan(m, m.len, 1),
                                 !.pendingSecondarySpins = None]
  IN IF ~(p # None /\ p.at = at /\ p.at = m.len /\ Room(m, 40)) THEN m
     ELSE IF p.left > 1
     THEN Later([spun EXCEPT !.pendingSecondarySpins = [p EXCEPT !.left = @ - 1]], "secondary", p.at)
     ELSE Knockouts(spun, m.len, p.kos)
\* performSecondarySpins: the next of the wheels that are owed.
PerformSecondarySpins(m, at) ==
  LET p == m.pendingSecondarySpins
      spun == [Grow(m, 1) EXCEPT !.activeBattleResolution.spin = m.len,
                                 !.activeBattleResolution.plan = Plan(m, m.len, 1),
                                 !.pendingSecondarySpins = None]
  IN IF ~(/\ p # None /\ p.at = at /\ p.at = m.len
          /\ m.pendingKnockouts = None
          /\ CurrentBattleResolution(m, p.spin, "applying")
          /\ Room(m, 40)) THEN m
     ELSE IF p.left > 1 THEN StageSecondarySpins(spun, m.len, p.left - 1, p.kos)
     ELSE Knockouts(spun, m.len, p.kos)

\* performPendingKnockouts.  A full Center is shifted or emptied first: at most
\* two entries for a figure.  The last two figures leave together.
PerformPendingKnockouts(m, at, shift) ==
  LET p == m.pendingKnockouts
      moved == [Grow(m, 1) EXCEPT !.activeBattleResolution.plan = Plan(m, p.spin, 1),
                                  !.pendingKnockouts = None]
  IN IF ~(/\ p # None /\ p.at = at /\ p.at = m.len
          /\ CurrentBattleResolution(m, p.spin, "applying")
          /\ Room(m, 1 + 3 * p.left + 3)) THEN m
     ELSE IF shift /\ p.shifts < 2
     THEN [StagePendingKnockouts(moved, p.spin, p.left) EXCEPT !.pendingKnockouts.shifts = p.shifts + 1]
     ELSE IF p.left > 2
     THEN StagePendingKnockouts(CompleteKnockoutBatch(moved, p.spin, 1, FALSE), p.spin, p.left - 1)
     ELSE CompleteKnockoutBatch(moved, p.spin, p.left, TRUE)

\* stagePendingExtraBattle: Double Flight fights again where it landed.  What
\* another figure's chain should do is left open, which is documented at 2518.
StagePendingExtraBattle(m, jump) ==
  LET staged == [m EXCEPT !.pendingExtraBattle = [at |-> m.len, spin |-> jump.spin, side |-> jump.side,
                                                  choices |-> m.extraBattle # "used"],
                          !.pendingBattles = IF m.extraBattle # "used" THEN "may" ELSE "none",
                          !.extraBattle = IF @ = "none" THEN "open" ELSE @,
                          !.battleResolutionPending = TRUE, !.resolving = FALSE]
  IN IF Controlled(m, jump.side) /\ m.extraBattle # "used"
     THEN Later(staged, "opponent_extra", m.len) ELSE staged

\* stagePendingGrudge: a figure that entered chooses whose wheel to spin.
StagePendingGrudge(m, side, type, index) ==
  LET staged == [m EXCEPT !.pendingGrudge = [at |-> index, bound |-> m.len, side |-> side, type |-> type,
                                             declared |-> FALSE],
                          !.pendingBattles = "none"]
  IN IF Controlled(m, side) THEN Later(staged, "opponent_grudge", index) ELSE staged

\* performPendingGrudge, bound to the whole record; b is what the move opens.
PerformPendingGrudge(m, at, b) ==
  LET p == m.pendingGrudge
      spun == Grow([m EXCEPT !.pendingGrudge = None, !.pendingBattles = b.battles,
                             !.pendingTouch = b.touch, !.resolving = FALSE], 1)
      opens == p.type = "mp_move" /\ (b.battles # "none" \/ b.touch)
  IN IF ~(/\ m.phase = "started"
          /\ p # None /\ p.at = at /\ p.declared /\ p.bound = m.len
          /\ m.turn = p.side
          /\ Room(m, 16)
          /\ opens \/ Fits(m, Plan(m, p.at, 1))) THEN m
     ELSE IF opens THEN (IF p.side = "white" THEN OpponentLater(spun) ELSE spun)
     ELSE OpponentLater(CompleteTurn(spun, p.side, Plan(m, p.at, 1)))

-----------------------------------------------------------------------------
\* acceptPlayerMove, as the human transport guards it: the move is admitted if
\* it is this side's choice and the record has the room it reserves.
Admits(m, side, reserve) ==
  /\ m.phase = "started"
  /\ SelectionSide(m) = side
  /\ ~m.resolving
  /\ m.pendingRespin # None => ~m.pendingRespin.declared
  /\ m.done < MaxCompletions
  /\ Room(m, 1 + reserve)

NoChoicePending(m) == /\ ~m.battleResolutionPending
                      /\ m.pendingGrudge = None /\ m.pendingRespin = None
                      /\ m.pendingJump = None /\ m.pendingExtraBattle = None
NoContinuation(m) == NoChoicePending(m) /\ m.pendingBattles = "none" /\ ~m.pendingTouch

\* The human input lock: a declaration owes a delayed answer.
Owing(m) == IF m.phase = "started" THEN [m EXCEPT !.resolving = m.human] ELSE m

\* What a move may open: a battle, which may be mandatory, or a recovery; plate
\* says that the figure that moves is the one the pending plate selected.
Openings == [goal : BOOLEAN, grudge : BOOLEAN, plate : BOOLEAN,
             battles : Battles, touch : BOOLEAN]
MoveOpenings == {b \in Openings :
  /\ b.goal => ~b.grudge
  /\ b.goal \/ b.grudge => b.battles = "none" /\ ~b.touch
  /\ b.touch => b.battles # "must"
  /\ b.plate => b.grudge \/ b.battles # "none" \/ b.touch}

Moved(m, side, type, b) ==
  LET moved == [Grow(m, 1) EXCEPT !.pendingPlate = IF type = "mp_move" /\ ~b.plate THEN "none" ELSE @]
  IN IF b.goal /\ type = "mp_move" THEN Finish(moved)
     ELSE IF b.grudge THEN StagePendingGrudge(moved, side, type, m.len)
     ELSE IF type = "mp_move" /\ (b.battles # "none" \/ b.touch)
     THEN [moved EXCEPT !.pendingBattles = b.battles, !.pendingTouch = b.touch]
     ELSE OpponentLater(CompleteTurn(moved, side, Plan(m, m.len, 1)))

\* Of an input the guard is a predicate of its own (May..., Chooses..., ...),
\* which the handler and the properties share.
\* A handler that stops at the clock has appended nothing.
Accepted(pause, next) == match' = IF pause = "out" THEN Finish(match) ELSE next

\* A mp_move or spot_move, or a plate that moves a figure.
MayMove(m, side, type) ==
  /\ Admits(m, side, IF type = "mp_move" THEN 60 ELSE 64)
  /\ NoContinuation(m)
  /\ type = "plate_move" => m.pendingPlate = "none"
  /\ Fits(m, Plan(m, m.len, 1))
Move(side, type, b, pause) ==
  /\ MayMove(match, side, type)
  /\ Accepted(pause, Moved(Paused(match, pause), side, type, b))

\* A plate that selects a figure and leaves it to move, fight or stop.
MaySelect(m, side) == Admits(m, side, 64) /\ NoContinuation(m) /\ m.pendingPlate = "none"
SelectByPlate(side, plate, pause) ==
  /\ MaySelect(match, side)
  /\ Accepted(pause, [Grow(Paused(match, pause), 1) EXCEPT !.pendingPlate = plate])

Declared(m, turnSide, at) ==
  Later([m EXCEPT !.battleResolutionPending = TRUE,
                  !.activeBattleDeclaration = [at |-> at, started |-> FALSE, turnSide |-> turnSide, outcomes |-> 0]],
        "resolve", at)

\* declare_battle.  A sleeping target wakes first, and may be surrounded: then
\* the declaration ends the turn and no battle follows.
MayDeclare(m, side, cancelled) == /\ Admits(m, side, 52)
                                  /\ NoChoicePending(m)
                                  /\ cancelled => Fits(m, Plan(m, m.len, 1))
DeclareBattle(side, cancelled, pause) ==
  LET m == Paused(match, pause)
  IN /\ MayDeclare(match, side, cancelled)
     /\ Accepted(pause,
          IF cancelled THEN OpponentLater(CompleteTurn(Grow(m, 1), side, Plan(m, m.len, 1)))
          ELSE Owing(Declared([Grow(m, 1) EXCEPT !.pendingTouch = FALSE], side, m.len)))

\* null_move, declare_turn_end and touch end the turn with nothing to resolve.
MayEndTurn(m, side) == Admits(m, side, 64) /\ NoChoicePending(m) /\ Fits(m, Plan(m, m.len, 1))
MayDecline(m, side) == MayEndTurn(m, side) /\ (m.pendingBattles = "may" \/ m.pendingTouch)
MayDeclareTurnEnd(m, side) == MayEndTurn(m, side) /\ NoContinuation(m) /\ m.pendingPlate # "none"
MayTouch(m, side) == /\ MayEndTurn(m, side)
                     /\ m.pendingTouch \/ (NoContinuation(m) /\ m.pendingPlate = "none")
EndsTurn(side, pause) ==
  LET m == Paused(match, pause)
  IN Accepted(pause, OpponentLater(CompleteTurn(Grow(m, 1), side, Plan(m, m.len, 1))))

Decline(side, pause) == MayDecline(match, side) /\ EndsTurn(side, pause)
DeclareTurnEnd(side, pause) == MayDeclareTurnEnd(match, side) /\ EndsTurn(side, pause)
Touch(side, pause) == MayTouch(match, side) /\ EndsTurn(side, pause)

ChoosesRespin(m, side, reserve) == Admits(m, side, reserve) /\ m.pendingRespin # None
DeclareRespin(side, pause) ==
  LET m == Paused(match, pause)
  IN /\ ChoosesRespin(match, side, 40)
     /\ Accepted(pause, Owing(Later([Grow(m, 1) EXCEPT !.pendingRespin.declared = TRUE], "respin", 0)))

DeclineRespin(side, o, pause) ==
  LET m == Grow(Paused(match, pause), 1)
  IN /\ ChoosesRespin(match, side, 39)
     /\ o.wheels <= WheelsAfterRespin
     /\ Accepted(pause, FinishBattleSpin(m, match.pendingRespin.spin, o))

\* acceptPendingGrudge, for a client or the training opponent.
ChoosesGrudge(m, side) == /\ Admits(m, side, 64)
                          /\ m.pendingGrudge # None
                          /\ m.pendingGrudge.bound = m.len
GrudgeChosen(m) ==
  Owing(Later([Grow(m, 1) EXCEPT !.pendingGrudge.declared = TRUE, !.pendingGrudge.bound = m.len + 1],
              "grudge", m.pendingGrudge.at))

\* acceptPendingJump: n figures fall where it lands.
LandsJump(m, side) ==
  LET p == m.pendingJump
  IN /\ Admits(m, side, 64)
     /\ m.pendingGrudge = None /\ p # None
     /\ p.landing /\ p.at = m.len
     /\ CurrentBattleResolution(m, p.spin, "applying")
     /\ Fits(m, Plan(m, p.spin, 1))
JumpLanded(m, n, goal) ==
  LET p == m.pendingJump
      landed == [Grow(m, 1) EXCEPT !.activeBattleResolution.plan = Plan(m, p.spin, 1)]
      fallen == [CompleteKnockoutBatch(landed, p.spin, n, FALSE) EXCEPT !.pendingJump = None]
  IN IF goal THEN Finish(landed)
     ELSE IF p.extra THEN StagePendingExtraBattle(fallen, p)
     ELSE CompleteBattleResolution(fallen, p.spin, TRUE)

\* acceptPendingExtraBattle: fight again, or end the turn with the first
\* battle; so does a target that wakes up surrounded.
TakesExtraBattle(m, side, reserve) ==
  LET p == m.pendingExtraBattle
  IN /\ Admits(m, side, reserve)
     /\ m.pendingGrudge = None /\ m.pendingJump = None /\ p # None
     /\ p.choices /\ p.at = m.len
     /\ CurrentBattleResolution(m, p.spin, "applying")
     /\ Fits(m, Plan(m, p.spin, 1))
ExtraBattleTaken(m, fights) ==
  LET p == m.pendingExtraBattle
      taken == [Grow(m, 1) EXCEPT !.activeBattleResolution.plan = Plan(m, p.spin, 1)]
  IN IF fights
     THEN Owing(Declared([CompleteBattleResolution(taken, p.spin, FALSE) EXCEPT !.extraBattle = "used"],
                         m.turn, m.len))
     ELSE CompleteBattleResolution(taken, p.spin, TRUE)

ChooseGrudge(side, pause) ==
  /\ ChoosesGrudge(match, side)
  /\ Accepted(pause, GrudgeChosen(Paused(match, pause)))
LandJump(side, n, goal, pause) ==
  /\ LandsJump(match, side)
  /\ Accepted(pause, JumpLanded(Paused(match, pause), n, goal))
TakeExtraBattle(side, fights, pause) ==
  /\ TakesExtraBattle(match, side, 52)
  /\ Accepted(pause, ExtraBattleTaken(Paused(match, pause), fights))
DeclineExtraBattle(side, pause) ==
  /\ TakesExtraBattle(match, side, 64)
  /\ Accepted(pause, ExtraBattleTaken(Paused(match, pause), FALSE))

\* The resign move is refused while an answer is owed or a respin offered; the
\* lose line, the clocks and the absence of a player are not.
Resign(side) == /\ match.phase = "started" /\ SelectionSide(match) = side /\ ~match.resolving
                /\ match.pendingRespin = None
                /\ match.battleResolutionPending => match.pendingJump # None \/ match.pendingExtraBattle # None
                /\ match' = Finish(Grow(match, 1))
Decide == match.phase = "started" /\ match' = Finish(match)

-----------------------------------------------------------------------------
\* playOpponentTurn of the training variant, which has no plate: it looks at the phase and the
\* side only.  A battle it cannot declare loses it the match.
PlayOpponentTurn(m, choice, b) ==
  LET plan == Plan(m, m.len, 1)
      moved == Grow(m, 1)
  IN IF ~(/\ m.phase = "started" /\ m.turn = "white"
          /\ m.done < MaxCompletions /\ Room(m, 64)) THEN m
     ELSE IF m.pendingTouch THEN OpponentLater(CompleteTurn(moved, "white", plan))
     ELSE IF m.pendingBattles # "none"
     THEN IF m.battleResolutionPending \/ m.pendingRespin # None THEN Finish(m)
          ELSE IF choice = "cancelled" THEN CompleteTurn(moved, "white", plan)
          ELSE Declared(moved, "white", m.len)
     ELSE IF choice = "cancelled" THEN Finish(m)    \* no_legal_moves
     ELSE IF choice = "spot_move" THEN CompleteTurn(moved, "white", plan)
     ELSE IF b.goal THEN Finish(moved)
     ELSE IF b.grudge THEN StagePendingGrudge(moved, "white", "mp_move", m.len)
     ELSE IF b.battles # "none" \/ b.touch
     THEN OpponentLater([moved EXCEPT !.pendingBattles = b.battles, !.pendingTouch = b.touch])
     ELSE CompleteTurn(moved, "white", plan)

\* The outcomes of a battle: wheels still to spin and figures that faint, or a
\* leap of the winner, with or without somewhere to land.
Outcomes ==
  [wheels : 0..Wheels, faint : 0..MaxFaint, jumper : {"nobody"}, landing : {FALSE}, extra : {FALSE}]
  \cup [wheels : {0}, faint : {0}, jumper : Sides, landing : {TRUE}, extra : BOOLEAN]
  \cup [wheels : {0}, faint : {0}, jumper : Sides, landing : {FALSE}, extra : {FALSE}]
Offered(o) == match.pendingPlate = "respin" => o.wheels <= WheelsAfterRespin

Without(t) == [match EXCEPT !.timers = @ \ {t}]
\* The call of the training opponent that a turn of white's own left behind
\* (acceptTouchRecovery and performPendingGrudge schedule one whoever played)
\* names no turn: it acts in a later one, white's next.  late remembers that
\* such a call has played.
Late(t) == t.step = "opponent" /\ t.turns # match.done

\* What a callback may leave behind.
Resolve(t) == {ResolveBattle(Without(t), t.at, d, o) : d \in 0..2, o \in {o \in Outcomes : Offered(o)}}
Spin(t) == {PerformBattleSpin(Without(t), t.at, o) : o \in {o \in Outcomes : Offered(o)}}
Respin(t) == {PerformPendingRespin(Without(t), o) : o \in {o \in Outcomes : o.wheels <= WheelsAfterRespin}}
Secondary(t) == {PerformSecondarySpins(Without(t), t.at)}
Knockout(t) == {PerformPendingKnockouts(Without(t), t.at, shift) : shift \in BOOLEAN}
Grudge(t) == {PerformPendingGrudge(Without(t), t.at, b) : b \in {b \in MoveOpenings : ~b.goal /\ ~b.grudge}}
Opponent(t) ==
  LET Played(choice, b) == PlayOpponentTurn(Without(t), choice, b)
  IN {[Played(choice, b) EXCEPT !.late = @ \/ (Late(t) /\ Played(choice, b) # Without(t))] :
        choice \in {"move", "spot_move", "cancelled"}, b \in MoveOpenings}
\* scheduleOpponentGrudge, -Jump and -ExtraBattle answer through the very
\* handlers a client uses.
OpponentGrudge(t) ==
  LET m == Without(t)
  IN IF m.pendingGrudge # None /\ m.pendingGrudge.at = t.at /\ ChoosesGrudge(m, "white")
     THEN {GrudgeChosen(m)} ELSE {m}
OpponentJump(t) ==
  LET m == Without(t)
  IN IF m.pendingJump # None /\ m.pendingJump.at = t.at /\ LandsJump(m, "white")
     THEN {JumpLanded(m, n, goal) : n \in 0..1, goal \in BOOLEAN} ELSE {m}
OpponentExtra(t) ==
  LET m == Without(t)
  IN IF m.pendingExtraBattle # None /\ m.pendingExtraBattle.at = t.at /\ TakesExtraBattle(m, "white", 52)
     THEN {ExtraBattleTaken(m, fights) : fights \in BOOLEAN} ELSE {m}

Results(t) ==
  CASE t.step = "resolve" -> Resolve(t)
    [] t.step = "spin" -> Spin(t)
    [] t.step = "respin" -> Respin(t)
    [] t.step = "secondary" -> Secondary(t)
    [] t.step = "knockouts" -> Knockout(t)
    [] t.step = "grudge" -> Grudge(t)
    [] t.step = "opponent" -> Opponent(t)
    [] t.step = "opponent_grudge" -> OpponentGrudge(t)
    [] t.step = "opponent_jump" -> OpponentJump(t)
    [] t.step = "opponent_extra" -> OpponentExtra(t)
Fires(t) == match' \in Results(t)

Plays(side) ==
  \E pause \in Pauses :
    \/ \E type \in Enders, b \in MoveOpenings :
         (type # "mp_move" => ~b.goal /\ ~b.plate /\ b.battles = "none" /\ ~b.touch) /\ Move(side, type, b, pause)
    \/ \E plate \in {"select", "respin"} : SelectByPlate(side, plate, pause)
    \/ \E cancelled \in BOOLEAN : DeclareBattle(side, cancelled, pause)
    \/ Decline(side, pause) \/ DeclareTurnEnd(side, pause) \/ Touch(side, pause)
    \/ DeclareRespin(side, pause)
    \/ \E o \in Outcomes : DeclineRespin(side, o, pause)
    \/ ChooseGrudge(side, pause)
    \/ \E n \in 0..1, goal \in BOOLEAN : LandJump(side, n, goal, pause)
    \/ \E fights \in BOOLEAN : TakeExtraBattle(side, fights, pause)
    \/ DeclineExtraBattle(side, pause)

\* The same, as far as what the client asks can be granted.
MayPlay(side) ==
  \/ \E type \in Enders : MayMove(match, side, type)
  \/ MaySelect(match, side)
  \/ \E cancelled \in BOOLEAN : MayDeclare(match, side, cancelled)
  \/ MayDecline(match, side) \/ MayDeclareTurnEnd(match, side) \/ MayTouch(match, side)
  \/ \E reserve \in {39, 40} : ChoosesRespin(match, side, reserve)
  \/ ChoosesGrudge(match, side)
  \/ LandsJump(match, side)
  \/ \E reserve \in {52, 64} : TakesExtraBattle(match, side, reserve)

Clients == {side \in Sides : ~Controlled(match, side)}

Init == \E human \in Variants : match = [
  human |-> human, phase |-> "started", turn |-> "black", len |-> 0, done |-> 0, cut |-> 0, timers |-> {},
  late |-> FALSE, resolving |-> FALSE,
  pendingBattles |-> "none", pendingTouch |-> FALSE, pendingPlate |-> "none",
  battleResolutionPending |-> FALSE, extraBattle |-> "none",
  activeBattleDeclaration |-> None, activeBattleResolution |-> None,
  pendingRespin |-> None, pendingJump |-> None, pendingExtraBattle |-> None,
  pendingSecondarySpins |-> None, pendingKnockouts |-> None, pendingGrudge |-> None]

Next == \/ \E side \in Clients : Plays(side) \/ Resign(side)
        \/ \E t \in match.timers : Fires(t)
        \/ Decide

\* Every callback of setTimeout is called in the end.
Fairness == \A step \in Steps : WF_vars(\E t \in match.timers : t.step = step /\ Fires(t))
Spec == Init /\ [][Next]_vars
FairSpec == Spec /\ Fairness

-----------------------------------------------------------------------------
\* A callback that has something to do, and does it in its own turn.
OwedStep == \E t \in match.timers : ~Late(t) /\ \E n \in Results(t) : n # Without(t)
\* The server owes the next step, and refuses input meanwhile.
Owes == \/ match.resolving
        \/ match.pendingRespin # None /\ match.pendingRespin.declared
        \/ match.pendingGrudge # None /\ match.pendingGrudge.declared
        \/ /\ match.battleResolutionPending
           /\ match.pendingRespin = None /\ match.pendingJump = None /\ match.pendingExtraBattle = None
        \/ Controlled(match, SelectionSide(match))
\* The choices the code leaves open on purpose, and a record that is full.
LeftOpen == \/ match.pendingJump # None /\ ~match.pendingJump.landing
            \/ match.pendingExtraBattle # None /\ ~match.pendingExtraBattle.choices
Full == match.done >= MaxCompletions \/ ~Room(match, 65)

\* Somebody can always go on: while the server owes a step there is a callback
\* that takes it, with the room in the record it needs; otherwise the side
\* that is to choose has a choice.  Once a late call has played for white this
\* is not so: the call that was due acts into the turn the late one began, and
\* what was pending there is gone (OpponentIsPaced says why it comes to that).
NobodyIsStuck ==
  match.phase = "started" /\ ~LeftOpen /\ ~match.late =>
    \/ IF Owes THEN OwedStep ELSE \E side \in Clients : MayPlay(side)
    \/ Full /\ (~Owes \/ Controlled(match, match.turn) \/ Controlled(match, SelectionSide(match)))

\* While a callback is to act, no client can: neither a move nor a second
\* answer slips between a declaration and its consequences.  Where a late call
\* has played, none of this is promised.
InputIsLocked == ~match.late /\ OwedStep => ~\E side \in Clients : MayPlay(side)

\* A declared battle changes the board once, however often its wheels spin.
OneOutcomePerBattle ==
  match.activeBattleDeclaration # None => match.activeBattleDeclaration.outcomes <= 1

\* A callback of a turn that is over, or of a match that is decided, finds
\* nothing to continue.  The training opponent's own call, which looks at the
\* side to move and at nothing else, is the exception (see OpponentIsPaced), and
\* once it has played out of its turn the callbacks of that turn are not safe.
StaleStepsChangeNothing ==
  [][\A t \in match.timers \ match'.timers :
       (t.turns # match.done /\ t.step # "opponent" /\ ~match.late) \/ match.phase # "started"
         => match' = Without(t)]_vars

\* The training opponent is paced: each of its turns is played by a call that
\* was scheduled when that turn began, a side change earlier, and no call of a
\* former turn plays it (the comment at the end of acceptPlayerMove: "Pace the
\* training opponent across that boundary rather than racing its move").
OpponentIsPaced ==
  [][\A t \in match.timers \ match'.timers :
       t.step = "opponent" /\ t.turns # match.done => match' = Without(t)]_vars

\* The first choice of a respin is committed: when a decline has applied the
\* battle, a second click cannot change it to a respin.
RespinChoiceStands ==
  [][match.pendingRespin # None /\ match'.pendingRespin # None
       /\ ~match.pendingRespin.declared /\ match'.pendingRespin.declared
     => match.activeBattleDeclaration.outcomes = 0]_vars

\* Input is not locked for ever.
LocksAreReleased == match.resolving ~> ~match.resolving \/ match.phase # "started"
=============================================================================
