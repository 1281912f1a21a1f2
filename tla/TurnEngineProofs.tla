-------------------------- MODULE TurnEngineProofs ---------------------------
(***************************************************************************)
(* What is pending in a turn, for a record of any length and any number of *)
(* turns, wheels and figures, in both variants, with whatever callbacks a  *)
(* turn leaves behind.                                                     *)
(*                                                                         *)
(* A handler changes a match several times over, and most of what it does  *)
(* (Calm) neither declares a battle nor spins its first wheel.  Shape and  *)
(* TimerShape say what else a step may do.  From them follow the types     *)
(* (Typed), that a battle is applied once (Once), and that at most one     *)
(* callback is owed, of the turn and for what is pending (Waiting).        *)
(*                                                                         *)
(* Going says more of the same states: the callback that is owed finds     *)
(* what it is to continue, in the phase it looks for and with the room it  *)
(* needs, and where none is owed a choice is open that can be made.        *)
(***************************************************************************)
EXTENDS TurnEngine, TLAPS

\* What a step that starts no battle and spins no first wheel leaves alone.
Mild(m, n) ==
  /\ n.phase = "started" => m.phase = "started"
  /\ m.late => n.late
  /\ n.activeBattleDeclaration = m.activeBattleDeclaration
  /\ n.activeBattleResolution = None <=> m.activeBattleResolution = None
  /\ n.len >= m.len
  /\ n.pendingRespin # None => m.pendingRespin # None
  /\ m.timers \subseteq n.timers
  /\ \A t \in n.timers : t.step \in {"resolve", "spin"} => t \in m.timers
Calm(m, n) == n \in Matches /\ Mild(m, n)

LEMMA CalmTrans ==
  ASSUME NEW m \in Matches, NEW n, NEW o, Calm(m, n), Calm(n, o)
  PROVE  Calm(m, o)
<1>1. m.len \in Nat /\ n.len \in Nat /\ o.len \in Nat
  BY DEF Calm, Matches
<1>2. o.len >= m.len
  BY <1>1 DEF Calm, Mild
<1> QED BY <1>2 DEF Calm, Mild

LEMMA CalmSame ==
  ASSUME NEW m \in Matches
  PROVE  Calm(m, m)
BY DEF Calm, Mild, Matches

LEMMA PlanType ==
  ASSUME NEW m \in Matches, NEW index \in Nat, NEW more \in Nat
  PROVE  Plan(m, index, more) \in Plans
BY DEF Plan, Plans, Matches

LEMMA GrowCalm ==
  ASSUME NEW m \in Matches, NEW k \in Nat
  PROVE  Calm(m, Grow(m, k))
BY DEF Calm, Mild, Matches, Grow

LEMMA GaugeCalm ==
  ASSUME NEW m \in Matches
  PROVE  Calm(m, Gauge(m))
BY GrowCalm, CalmSame DEF Gauge

LEMMA FinishCalm ==
  ASSUME NEW m \in Matches
  PROVE  Calm(m, Finish(m))
BY DEF Calm, Mild, Matches, Finish, Phases

LEMMA LaterType ==
  ASSUME NEW m \in Matches, NEW step \in Steps, NEW at \in Nat
  PROVE  Later(m, step, at) \in Matches
<1>1. [step |-> step, at |-> at, turns |-> m.done] \in Timers
  BY DEF Matches, Timers
<1> QED BY <1>1 DEF Matches, Later

LEMMA LaterCalm ==
  ASSUME NEW m \in Matches, NEW step \in Steps \ {"resolve", "spin"}, NEW at \in Nat
  PROVE  Calm(m, Later(m, step, at))
<1>1. Later(m, step, at) \in Matches
  BY LaterType
<1>2. Mild(m, Later(m, step, at))
  BY DEF Matches, Later, Mild
<1> QED BY <1>1, <1>2 DEF Calm

LEMMA OpponentLaterCalm ==
  ASSUME NEW m \in Matches
  PROVE  Calm(m, OpponentLater(m))
BY LaterCalm, CalmSame DEF OpponentLater, Matches, Steps

\* completeTurnCleanup, a few fields at a time.
LEMMA CleanTurn ==
  ASSUME NEW m \in Matches, NEW side \in Sides
  PROVE  Calm(m, [m EXCEPT !.turn = side, !.pendingBattles = "none", !.pendingTouch = FALSE])
<1>1. "none" \in Battles
  BY DEF Battles
<1>2. [m EXCEPT !.turn = side, !.pendingBattles = "none", !.pendingTouch = FALSE] \in Matches
  BY <1>1 DEF Matches
<1>3. Mild(m, [m EXCEPT !.turn = side, !.pendingBattles = "none", !.pendingTouch = FALSE])
  BY DEF Matches, Mild
<1> QED BY <1>2, <1>3 DEF Calm

LEMMA CleanPlate ==
  ASSUME NEW m \in Matches
  PROVE  Calm(m, [m EXCEPT !.pendingPlate = "none", !.battleResolutionPending = FALSE, !.extraBattle = "none"])
<1>1. "none" \in Plates /\ "none" \in Extras
  BY DEF Plates, Extras
<1>2. [m EXCEPT !.pendingPlate = "none", !.battleResolutionPending = FALSE, !.extraBattle = "none"] \in Matches
  BY <1>1 DEF Matches
<1>3. Mild(m, [m EXCEPT !.pendingPlate = "none", !.battleResolutionPending = FALSE, !.extraBattle = "none"])
  BY DEF Matches, Mild
<1> QED BY <1>2, <1>3 DEF Calm

LEMMA CleanChoices ==
  ASSUME NEW m \in Matches
  PROVE  Calm(m, [m EXCEPT !.pendingRespin = None, !.pendingGrudge = None, !.pendingKnockouts = None])
<1>1. [m EXCEPT !.pendingRespin = None, !.pendingGrudge = None, !.pendingKnockouts = None] \in Matches
  BY DEF Matches
<1>2. Mild(m, [m EXCEPT !.pendingRespin = None, !.pendingGrudge = None, !.pendingKnockouts = None])
  BY DEF Matches, Mild
<1> QED BY <1>1, <1>2 DEF Calm

LEMMA CleanSteps ==
  ASSUME NEW m \in Matches
  PROVE  Calm(m, [m EXCEPT !.pendingSecondarySpins = None, !.pendingJump = None, !.pendingExtraBattle = None])
<1>1. [m EXCEPT !.pendingSecondarySpins = None, !.pendingJump = None, !.pendingExtraBattle = None] \in Matches
  BY DEF Matches
<1>2. Mild(m, [m EXCEPT !.pendingSecondarySpins = None, !.pendingJump = None, !.pendingExtraBattle = None])
  BY DEF Matches, Mild
<1> QED BY <1>1, <1>2 DEF Calm

LEMMA CleanupCalm ==
  ASSUME NEW m \in Matches, NEW side \in Sides
  PROVE  Calm(m, CompleteTurnCleanup(m, side))
<1> DEFINE n1 == [m EXCEPT !.turn = Other(side), !.pendingBattles = "none", !.pendingTouch = FALSE]
           n2 == [n1 EXCEPT !.pendingPlate = "none", !.battleResolutionPending = FALSE, !.extraBattle = "none"]
           n3 == [n2 EXCEPT !.pendingRespin = None, !.pendingGrudge = None, !.pendingKnockouts = None]
           n4 == [n3 EXCEPT !.pendingSecondarySpins = None, !.pendingJump = None, !.pendingExtraBattle = None]
<1>1. Other(side) \in Sides
  BY DEF Other, Sides
<1>2. CompleteTurnCleanup(m, side) = n4
  BY DEF CompleteTurnCleanup
<1>3. Calm(m, n1)
  BY <1>1, CleanTurn
<1>4. Calm(n1, n2)
  BY <1>3, CleanPlate DEF Calm
<1>5. Calm(n2, n3)
  BY <1>4, CleanChoices DEF Calm
<1>6. Calm(n3, n4)
  BY <1>5, CleanSteps DEF Calm
<1> HIDE DEF n1, n2, n3, n4
<1>7. Calm(m, n3)
  BY <1>3, <1>4, <1>5, CalmTrans
<1> QED BY <1>2, <1>6, <1>7, CalmTrans

LEMMA BindTurn ==
  ASSUME NEW m \in Matches, NEW plan \in Plans
  PROVE  Calm(m, [m EXCEPT !.done = @ + 1, !.cut = plan.count])
<1>1. plan.count \in Nat /\ m.done + 1 \in Nat
  BY DEF Plans, Matches
<1>2. \A a \in Nat, b \in Nat : [m EXCEPT !.done = a, !.cut = b] \in Matches
  BY DEF Matches
<1>3. [m EXCEPT !.done = @ + 1, !.cut = plan.count] \in Matches
  BY <1>1, <1>2
<1>4. Mild(m, [m EXCEPT !.done = @ + 1, !.cut = plan.count])
  BY DEF Matches, Mild
<1> QED BY <1>3, <1>4 DEF Calm

LEMMA CompleteTurnCalm ==
  ASSUME NEW m \in Matches, NEW side \in Sides, NEW plan \in Plans
  PROVE  Calm(m, CompleteTurn(m, side, plan))
<1> DEFINE c == CompleteTurnCleanup(m, side)
           n == [c EXCEPT !.done = @ + 1, !.cut = plan.count]
<1>1. Calm(m, c)
  BY CleanupCalm
<1> HIDE DEF c
<1>2. Calm(c, n)
  BY <1>1, BindTurn DEF Calm
<1> HIDE DEF n
<1>3. Calm(m, n)
  BY <1>1, <1>2, CalmTrans
<1>4. Calm(n, Gauge(n))
  BY <1>2, GaugeCalm DEF Calm
<1>5. Calm(m, Gauge(n))
  BY <1>3, <1>4, CalmTrans
<1>6. CompleteTurn(m, side, plan) \in {m, Gauge(n)}
  BY DEF CompleteTurn, c, n
<1> QED BY <1>5, <1>6, CalmSame

\* The battle in hand, when it is current, has the bound plan of its turn.
LEMMA CurrentIs ==
  ASSUME NEW m \in Matches, NEW spin, CurrentBattleResolution(m, spin, "applying")
  PROVE  /\ m.phase = "started"
         /\ m.activeBattleResolution \in Resolutions /\ m.activeBattleResolution.phase = "applying"
         /\ m.activeBattleResolution.plan \in Plans /\ m.activeBattleResolution.spin = spin
<1>1. m.activeBattleResolution \in Resolutions
  BY DEF Matches, CurrentBattleResolution
<1>2. m.activeBattleResolution.phase = "applying"
  BY DEF CurrentBattleResolution
<1> QED BY <1>1, <1>2 DEF Resolutions, CurrentBattleResolution

LEMMA SetResolution ==
  ASSUME NEW m \in Matches, m.activeBattleResolution # None, NEW r \in Resolutions
  PROVE  Calm(m, [m EXCEPT !.activeBattleResolution = r])
<1>1. r # None
  BY NoneAssumption
<1>2. [m EXCEPT !.activeBattleResolution = r] \in Matches
  BY DEF Matches
<1>3. Mild(m, [m EXCEPT !.activeBattleResolution = r])
  BY <1>1 DEF Matches, Mild
<1> QED BY <1>2, <1>3 DEF Calm

LEMMA SettleCalm ==
  ASSUME NEW m \in Matches, m.activeBattleResolution # None
  PROVE  Calm(m, [m EXCEPT !.activeBattleResolution.phase = "completed"])
<1> DEFINE r == [m.activeBattleResolution EXCEPT !.phase = "completed"]
<1>1. m.activeBattleResolution \in Resolutions
  BY DEF Matches
<1>2. r \in Resolutions
  BY <1>1 DEF Resolutions
<1>3. [m EXCEPT !.activeBattleResolution.phase = "completed"] = [m EXCEPT !.activeBattleResolution = r]
  BY DEF Matches
<1> QED BY <1>2, <1>3, SetResolution

LEMMA RebindCalm ==
  ASSUME NEW m \in Matches, m.activeBattleResolution # None, NEW plan \in Plans
  PROVE  Calm(m, [m EXCEPT !.activeBattleResolution.plan = plan])
<1> DEFINE r == [m.activeBattleResolution EXCEPT !.plan = plan]
<1>1. m.activeBattleResolution \in Resolutions
  BY DEF Matches
<1>2. r \in Resolutions
  BY <1>1 DEF Resolutions
<1>3. [m EXCEPT !.activeBattleResolution.plan = plan] = [m EXCEPT !.activeBattleResolution = r]
  BY DEF Matches
<1> QED BY <1>2, <1>3, SetResolution

-----------------------------------------------------------------------------
LEMMA Unlock ==
  ASSUME NEW m \in Matches, NEW locked \in BOOLEAN
  PROVE  Calm(m, [m EXCEPT !.resolving = locked])
<1>1. [m EXCEPT !.resolving = locked] \in Matches
  BY DEF Matches
<1>2. Mild(m, [m EXCEPT !.resolving = locked])
  BY DEF Matches, Mild
<1> QED BY <1>1, <1>2 DEF Calm

LEMMA DropPlate ==
  ASSUME NEW m \in Matches
  PROVE  Calm(m, [m EXCEPT !.pendingPlate = "none", !.pendingBattles = "none", !.battleResolutionPending = FALSE])
<1>1. "none" \in Plates /\ "none" \in Battles
  BY DEF Plates, Battles
<1>2. [m EXCEPT !.pendingPlate = "none", !.pendingBattles = "none", !.battleResolutionPending = FALSE] \in Matches
  BY <1>1 DEF Matches
<1>3. Mild(m, [m EXCEPT !.pendingPlate = "none", !.pendingBattles = "none", !.battleResolutionPending = FALSE])
  BY DEF Matches, Mild
<1> QED BY <1>2, <1>3 DEF Calm

LEMMA ContinueTurn ==
  ASSUME NEW m \in Matches
  PROVE  Calm(m, [m EXCEPT !.pendingPlate = "none", !.pendingRespin = None, !.pendingJump = None,
                    !.pendingExtraBattle = None, !.pendingBattles = "none", !.battleResolutionPending = FALSE])
<1> DEFINE n == [m EXCEPT !.pendingRespin = None, !.pendingJump = None, !.pendingExtraBattle = None]
           o == [n EXCEPT !.pendingPlate = "none", !.pendingBattles = "none", !.battleResolutionPending = FALSE]
<1>1. Calm(m, n)
  <2>1. n \in Matches
    BY DEF Matches
  <2>2. Mild(m, n)
    BY DEF Matches, Mild
  <2> QED BY <2>1, <2>2 DEF Calm
<1>3. Calm(n, o)
  BY <1>1, DropPlate DEF Calm
<1>4. [m EXCEPT !.pendingPlate = "none", !.pendingRespin = None, !.pendingJump = None,
          !.pendingExtraBattle = None, !.pendingBattles = "none", !.battleResolutionPending = FALSE] = o
  OBVIOUS
<1> HIDE DEF n, o
<1> QED BY <1>1, <1>3, <1>4, CalmTrans

LEMMA CompleteBattleCalm ==
  ASSUME NEW m \in Matches, NEW spin, NEW endTurn \in BOOLEAN
  PROVE  Calm(m, CompleteBattleResolution(m, spin, endTurn))
<1> SUFFICES ASSUME CurrentBattleResolution(m, spin, "applying")
             PROVE  Calm(m, CompleteBattleResolution(m, spin, endTurn))
  BY CalmSame DEF CompleteBattleResolution
<1> DEFINE settled == [m EXCEPT !.activeBattleResolution.phase = "completed"]
           plan == m.activeBattleResolution.plan
           gauged == Gauge(settled)
           ended == CompleteTurn(gauged, m.turn, plan)
           after == IF ended.turn = "white" THEN OpponentLater(ended) ELSE ended
           over == [after EXCEPT !.resolving = FALSE]
           going == [settled EXCEPT !.pendingPlate = "none", !.pendingRespin = None, !.pendingJump = None,
                       !.pendingExtraBattle = None, !.pendingBattles = "none", !.battleResolutionPending = FALSE]
<1>1. m.activeBattleResolution # None /\ plan \in Plans /\ m.turn \in Sides
  BY CurrentIs DEF CurrentBattleResolution, Matches
<1>2. CompleteBattleResolution(m, spin, endTurn) \in {m, over, going}
  BY DEF CompleteBattleResolution
<1>3. Calm(m, settled)
  BY <1>1, SettleCalm
<1> HIDE DEF plan, settled
<1>4. Calm(settled, going)
  BY <1>3, ContinueTurn DEF Calm
<1>5. Calm(settled, gauged)
  BY <1>3, GaugeCalm DEF Calm
<1> HIDE DEF gauged
<1>6. Calm(gauged, ended)
  BY <1>1, <1>5, CompleteTurnCalm DEF Calm
<1> HIDE DEF ended
<1>7. Calm(ended, after)
  BY <1>6, OpponentLaterCalm, CalmSame DEF Calm
<1> HIDE DEF after
<1>8. Calm(after, over)
  BY <1>7, Unlock DEF Calm
<1> HIDE DEF over, going
<1>9. Calm(m, over)
  BY <1>3, <1>5, <1>6, <1>7, <1>8, CalmTrans DEF Calm
<1>10. Calm(m, going)
  BY <1>3, <1>4, CalmTrans
<1> QED BY <1>2, <1>9, <1>10, CalmSame

LEMMA BatchCalm ==
  ASSUME NEW m \in Matches, NEW spin, NEW n \in Nat, NEW complete \in BOOLEAN
  PROVE  Calm(m, CompleteKnockoutBatch(m, spin, n, complete))
<1>1. Calm(m, Grow(m, n))
  BY GrowCalm
<1>2. Calm(m, CompleteBattleResolution(Grow(m, n), spin, TRUE))
  BY <1>1, CompleteBattleCalm, CalmTrans DEF Calm
<1>3. CompleteKnockoutBatch(m, spin, n, complete)
        \in {m, Grow(m, n), CompleteBattleResolution(Grow(m, n), spin, TRUE)}
  BY DEF CompleteKnockoutBatch
<1> QED BY <1>1, <1>2, <1>3, CalmSame

LEMMA StageKnockoutsCalm ==
  ASSUME NEW m \in Matches, NEW spin \in Nat, NEW left \in Nat
  PROVE  /\ Calm(m, StagePendingKnockouts(m, spin, left))
         /\ StagePendingKnockouts(m, spin, left).pendingRespin = None
<1> DEFINE p == [at |-> m.len, spin |-> spin, left |-> left, shifts |-> 0]
           n == [m EXCEPT !.pendingKnockouts = p, !.pendingRespin = None, !.battleResolutionPending = TRUE]
<1>1. p \in PendingKnockouts /\ m.len \in Nat
  BY DEF PendingKnockouts, Matches
<1> HIDE DEF p
<1>2. Calm(m, n) /\ n.pendingRespin = None
  <2>1. n \in Matches
    BY <1>1 DEF Matches
  <2>2. Mild(m, n) /\ n.pendingRespin = None
    BY DEF Matches, Mild
  <2> QED BY <2>1, <2>2 DEF Calm
<1>3. StagePendingKnockouts(m, spin, left) = Later(n, "knockouts", m.len)
  BY DEF StagePendingKnockouts, p
<1> HIDE DEF n
<1>4. Calm(n, Later(n, "knockouts", m.len))
  BY <1>1, <1>2, LaterCalm DEF Calm, Steps
<1>5. Later(n, "knockouts", m.len).pendingRespin = None
  BY <1>2 DEF Later, Matches, Calm
<1> QED BY <1>2, <1>3, <1>4, <1>5, CalmTrans

\* What completes a turn withdraws a respin; so does what completes a battle.
LEMMA TurnWithdraws ==
  ASSUME NEW m \in Matches, NEW side \in Sides, NEW plan \in Plans,
         m.phase = "started", m.turn = side, Fits(m, plan)
  PROVE  CompleteTurn(m, side, plan).pendingRespin = None
<1> DEFINE c == CompleteTurnCleanup(m, side)
           n == [c EXCEPT !.done = @ + 1, !.cut = plan.count]
<1>1. c \in Matches
  BY CleanupCalm DEF Calm
<1>2. c.pendingRespin = None
  BY DEF CompleteTurnCleanup, Matches
<1> HIDE DEF c
<1>3. n \in Matches /\ n.pendingRespin = None
  BY <1>1, <1>2, BindTurn DEF Calm, Mild
<1> HIDE DEF n
<1>4. Gauge(n).pendingRespin = None
  BY <1>3, GaugeCalm DEF Calm, Mild
<1>5. CompleteTurn(m, side, plan) = Gauge(n)
  BY DEF CompleteTurn, c, n
<1> QED BY <1>4, <1>5

LEMMA BattleWithdraws ==
  ASSUME NEW m \in Matches, NEW spin, CurrentBattleResolution(m, spin, "applying"),
         Fits(m, m.activeBattleResolution.plan)
  PROVE  CompleteBattleResolution(m, spin, TRUE).pendingRespin = None
<1> DEFINE settled == [m EXCEPT !.activeBattleResolution.phase = "completed"]
           plan == m.activeBattleResolution.plan
           gauged == Gauge(settled)
           ended == CompleteTurn(gauged, m.turn, plan)
           after == IF ended.turn = "white" THEN OpponentLater(ended) ELSE ended
           over == [after EXCEPT !.resolving = FALSE]
<1>1. m.activeBattleResolution # None /\ plan \in Plans /\ m.turn \in Sides
  BY CurrentIs DEF CurrentBattleResolution, Matches
<1>2. CompleteBattleResolution(m, spin, TRUE) = over
  BY DEF CompleteBattleResolution
<1>3. settled \in Matches
  BY <1>1, SettleCalm DEF Calm
<1>4. settled.phase = "started" /\ settled.turn = m.turn /\ settled.done = m.done /\ settled.cut = m.cut
  BY DEF CurrentBattleResolution, Matches
<1>5. Fits(settled, plan)
  BY <1>4 DEF Fits
<1> HIDE DEF plan, settled
<1>6. gauged \in Matches
  BY <1>3, GaugeCalm DEF Calm
<1>7. gauged.phase = "started" /\ gauged.turn = m.turn /\ gauged.done = settled.done /\ gauged.cut = settled.cut
  BY <1>3, <1>4 DEF Gauge, Grow, Matches
<1>8. Fits(gauged, plan)
  BY <1>5, <1>7 DEF Fits
<1> HIDE DEF gauged
<1>9. ended.pendingRespin = None /\ ended \in Matches
  BY <1>1, <1>6, <1>7, <1>8, TurnWithdraws, CompleteTurnCalm DEF Calm
<1> HIDE DEF ended
<1>10. after.pendingRespin = None /\ after \in Matches
  BY <1>9, OpponentLaterCalm DEF Calm, Mild
<1> HIDE DEF after
<1>11. over.pendingRespin = None
  BY <1>10, Unlock DEF Calm, Mild
<1> QED BY <1>2, <1>11

LEMMA KnockoutsCalm ==
  ASSUME NEW m \in Matches, NEW spin \in Nat, NEW n \in Nat
  PROVE  Calm(m, Knockouts(m, spin, n))
<1>1. Calm(m, CompleteBattleResolution(m, spin, TRUE))
  BY CompleteBattleCalm
<1>2. Calm(m, CompleteKnockoutBatch(m, spin, 1, TRUE))
  BY BatchCalm
<1>3. Calm(m, StagePendingKnockouts(m, spin, n))
  BY StageKnockoutsCalm
<1> QED BY <1>1, <1>2, <1>3 DEF Knockouts

LEMMA KnockoutsWithdraw ==
  ASSUME NEW m \in Matches, NEW spin \in Nat, NEW n \in Nat, CurrentBattleResolution(m, spin, "applying"),
         Fits(m, m.activeBattleResolution.plan)
  PROVE  Knockouts(m, spin, n).pendingRespin = None
<1>1. CompleteBattleResolution(m, spin, TRUE).pendingRespin = None
  BY BattleWithdraws
<1>2. CompleteKnockoutBatch(m, spin, 1, TRUE).pendingRespin = None
  <2> DEFINE g == Grow(m, 1)
  <2>1. g \in Matches
    BY GrowCalm DEF Calm
  <2>2. /\ g.phase = m.phase /\ g.turn = m.turn /\ g.done = m.done /\ g.cut = m.cut
        /\ g.activeBattleResolution = m.activeBattleResolution
    BY DEF Grow, Matches
  <2> HIDE DEF g
  <2>3. CurrentBattleResolution(g, spin, "applying") /\ Fits(g, g.activeBattleResolution.plan)
    BY <2>2 DEF CurrentBattleResolution, Fits
  <2>4. CompleteBattleResolution(g, spin, TRUE).pendingRespin = None
    BY <2>1, <2>3, BattleWithdraws
  <2> QED BY <2>4 DEF CompleteKnockoutBatch, g
<1>3. StagePendingKnockouts(m, spin, n).pendingRespin = None
  BY StageKnockoutsCalm
<1> QED BY <1>1, <1>2, <1>3 DEF Knockouts

-----------------------------------------------------------------------------
LEMMA OutcomeType ==
  ASSUME NEW o \in Outcomes
  PROVE  /\ o.wheels \in Nat /\ o.faint \in Nat /\ o.jumper \in Sides \cup {"nobody"}
         /\ o.landing \in BOOLEAN /\ o.extra \in BOOLEAN
<1>1. Wheels \in Nat /\ MaxFaint \in Nat
  BY EngineAssumption
<1>2. o.jumper \in Sides \cup {"nobody"} /\ o.landing \in BOOLEAN /\ o.extra \in BOOLEAN
  BY DEF Outcomes
<1>3. o.wheels \in 0..Wheels \cup {0} /\ o.faint \in 0..MaxFaint \cup {0}
  BY DEF Outcomes
<1> QED BY <1>1, <1>2, <1>3

LEMMA StageJumpCalm ==
  ASSUME NEW m \in Matches, NEW spin \in Nat, NEW o \in Outcomes, o.jumper \in Sides
  PROVE  /\ Calm(m, StagePendingJump(m, spin, o))
         /\ StagePendingJump(m, spin, o).pendingRespin = None
<1> DEFINE p == [at |-> m.len, spin |-> spin, side |-> o.jumper, landing |-> o.landing, extra |-> o.extra]
           n == [m EXCEPT !.pendingJump = p, !.pendingRespin = None, !.pendingBattles = "none",
                   !.battleResolutionPending = TRUE, !.resolving = FALSE]
<1>1. p \in Jumps /\ m.len \in Nat
  BY OutcomeType DEF Jumps, Matches
<1>2. StagePendingJump(m, spin, o) \in {n, Later(n, "opponent_jump", m.len)}
  BY DEF StagePendingJump
<1> HIDE DEF p
<1>3. Calm(m, n) /\ n.pendingRespin = None
  <2>1. "none" \in Battles
    BY DEF Battles
  <2>2. n \in Matches
    BY <1>1, <2>1 DEF Matches
  <2>3. Mild(m, n) /\ n.pendingRespin = None
    BY DEF Matches, Mild
  <2> QED BY <2>2, <2>3 DEF Calm
<1> HIDE DEF n
<1>4. Calm(n, Later(n, "opponent_jump", m.len))
  BY <1>1, <1>3, LaterCalm DEF Calm, Steps
<1>5. Later(n, "opponent_jump", m.len).pendingRespin = None
  BY <1>3, <1>4 DEF Mild, Calm
<1> QED BY <1>2, <1>3, <1>4, <1>5, CalmTrans

LEMMA StageSpinsCalm ==
  ASSUME NEW m \in Matches, NEW spin \in Nat, NEW left \in Nat, NEW kos \in Nat
  PROVE  Calm(m, StageSecondarySpins(m, spin, left, kos))
<1> DEFINE p == [at |-> m.len, spin |-> spin, left |-> left, kos |-> kos]
           n == [m EXCEPT !.pendingSecondarySpins = p]
<1>1. p \in SecondarySpins /\ m.len \in Nat
  BY DEF SecondarySpins, Matches
<1>2. StageSecondarySpins(m, spin, left, kos) = Later(n, "secondary", m.len)
  BY DEF StageSecondarySpins
<1> HIDE DEF p
<1>3. Calm(m, n)
  <2>1. n \in Matches
    BY <1>1 DEF Matches
  <2>2. Mild(m, n)
    BY DEF Matches, Mild
  <2> QED BY <2>1, <2>2 DEF Calm
<1> HIDE DEF n
<1>4. Calm(n, Later(n, "secondary", m.len))
  BY <1>1, <1>3, LaterCalm DEF Calm, Steps
<1> QED BY <1>2, <1>3, <1>4, CalmTrans

LEMMA SecondaryCalm ==
  ASSUME NEW m \in Matches, NEW at
  PROVE  Calm(m, PerformSecondarySpins(m, at))
<1> DEFINE p == m.pendingSecondarySpins
           plan == Plan(m, m.len, 1)
           r == [m.activeBattleResolution EXCEPT !.spin = m.len, !.plan = plan]
           grown == Grow(m, 1)
           n == [grown EXCEPT !.activeBattleResolution = r]
           spun == [n EXCEPT !.pendingSecondarySpins = None]
<1> SUFFICES ASSUME p # None, CurrentBattleResolution(m, p.spin, "applying")
             PROVE  Calm(m, PerformSecondarySpins(m, at))
  BY CalmSame DEF PerformSecondarySpins
<1>1. p \in SecondarySpins /\ m.len \in Nat
  BY DEF Matches
<1>2. p.left \in Nat /\ p.kos \in Nat /\ (p.left > 1 => p.left - 1 \in Nat)
  BY <1>1 DEF SecondarySpins
<1>3. plan \in Plans
  BY <1>1, PlanType
<1>4. m.activeBattleResolution # None /\ r \in Resolutions
  <2>1. m.activeBattleResolution \in Resolutions
    BY CurrentIs
  <2> HIDE DEF plan
  <2>2. r \in Resolutions
    BY <1>1, <1>3, <2>1 DEF Resolutions
  <2> QED BY <2>1, <2>2, NoneAssumption
<1>5. \/ PerformSecondarySpins(m, at) \in {m, Knockouts(spun, m.len, p.kos)}
      \/ p.left > 1 /\ PerformSecondarySpins(m, at) = StageSecondarySpins(spun, m.len, p.left - 1, p.kos)
  <2>1. [grown EXCEPT !.activeBattleResolution.spin = m.len, !.activeBattleResolution.plan = plan,
                      !.pendingSecondarySpins = None] = spun
    BY DEF Grow, Matches
  <2> QED BY <2>1 DEF PerformSecondarySpins
<1>6. Calm(m, grown) /\ grown.activeBattleResolution # None
  BY <1>4, GrowCalm DEF Calm, Mild
<1> HIDE DEF r, grown
<1>7. Calm(grown, n)
  BY <1>4, <1>6, SetResolution DEF Calm
<1> HIDE DEF n
<1>8. Calm(n, spun)
  <2>1. n \in Matches
    BY <1>7 DEF Calm
  <2>2. spun \in Matches
    BY <2>1 DEF Matches
  <2>3. Mild(n, spun)
    BY <2>1 DEF Matches, Mild
  <2> QED BY <2>2, <2>3 DEF Calm
<1> HIDE DEF spun
<1>9. Calm(m, spun) /\ spun \in Matches
  BY <1>6, <1>7, <1>8, CalmTrans DEF Calm
<1>10. p.left > 1 => Calm(m, StageSecondarySpins(spun, m.len, p.left - 1, p.kos))
  BY <1>1, <1>2, <1>9, StageSpinsCalm, CalmTrans
<1>11. Calm(m, Knockouts(spun, m.len, p.kos))
  BY <1>1, <1>2, <1>9, KnockoutsCalm, CalmTrans
<1> QED BY <1>5, <1>10, <1>11, CalmSame

LEMMA PerformKnockoutsCalm ==
  ASSUME NEW m \in Matches, NEW at, NEW shift \in BOOLEAN
  PROVE  Calm(m, PerformPendingKnockouts(m, at, shift))
<1> DEFINE p == m.pendingKnockouts
           plan == Plan(m, p.spin, 1)
           grown == Grow(m, 1)
           n == [grown EXCEPT !.activeBattleResolution.plan = plan]
           moved == [n EXCEPT !.pendingKnockouts = None]
           again == StagePendingKnockouts(moved, p.spin, p.left)
           shifted == [again EXCEPT !.pendingKnockouts.shifts = p.shifts + 1]
           fallen == CompleteKnockoutBatch(moved, p.spin, 1, FALSE)
           next == StagePendingKnockouts(fallen, p.spin, p.left - 1)
           last == CompleteKnockoutBatch(moved, p.spin, p.left, TRUE)
<1> SUFFICES ASSUME p # None, CurrentBattleResolution(m, p.spin, "applying")
             PROVE  Calm(m, PerformPendingKnockouts(m, at, shift))
  BY CalmSame DEF PerformPendingKnockouts
<1>1. p \in PendingKnockouts /\ m.len \in Nat
  BY DEF Matches
<1>2. p.spin \in Nat /\ p.left \in Nat /\ p.shifts + 1 \in Nat /\ (p.left > 2 => p.left - 1 \in Nat)
  BY <1>1 DEF PendingKnockouts
<1>3. plan \in Plans
  BY <1>1, <1>2, PlanType
<1>4. PerformPendingKnockouts(m, at, shift) \in {m, shifted, last} \/
        (p.left > 2 /\ PerformPendingKnockouts(m, at, shift) = next)
  BY DEF PerformPendingKnockouts
<1>5. Calm(m, grown) /\ grown.activeBattleResolution # None
  BY GrowCalm DEF Calm, Mild, CurrentBattleResolution
<1> HIDE DEF plan, grown
<1>6. Calm(grown, n)
  BY <1>3, <1>5, RebindCalm DEF Calm
<1> HIDE DEF n
<1>7. Calm(n, moved)
  <2>1. n \in Matches
    BY <1>6 DEF Calm
  <2>2. moved \in Matches
    BY <2>1 DEF Matches
  <2>3. Mild(n, moved)
    BY <2>1 DEF Matches, Mild
  <2> QED BY <2>2, <2>3 DEF Calm
<1> HIDE DEF moved
<1>8. Calm(m, moved) /\ moved \in Matches
  BY <1>5, <1>6, <1>7, CalmTrans DEF Calm
<1>9. Calm(moved, again) /\ again \in Matches
  BY <1>2, <1>8, StageKnockoutsCalm DEF Calm
<1>10. again.pendingKnockouts \in PendingKnockouts
  <2>1. again.pendingKnockouts = [at |-> moved.len, spin |-> p.spin, left |-> p.left, shifts |-> 0]
    BY <1>8 DEF StagePendingKnockouts, Later, Matches
  <2>2. moved.len \in Nat
    BY <1>8 DEF Matches
  <2> QED BY <1>2, <2>1, <2>2 DEF PendingKnockouts
<1> HIDE DEF again
<1>11. Calm(again, shifted)
  <2> DEFINE q == [again.pendingKnockouts EXCEPT !.shifts = p.shifts + 1]
  <2>1. q \in PendingKnockouts
    BY <1>2, <1>10 DEF PendingKnockouts
  <2>2. shifted = [again EXCEPT !.pendingKnockouts = q]
    BY <1>9 DEF Matches
  <2> HIDE DEF q, shifted
  <2>3. [again EXCEPT !.pendingKnockouts = q] \in Matches
    BY <1>9, <2>1 DEF Matches
  <2>4. Mild(again, [again EXCEPT !.pendingKnockouts = q])
    BY <1>9 DEF Matches, Mild
  <2> QED BY <2>2, <2>3, <2>4 DEF Calm
<1> HIDE DEF shifted
<1>12. Calm(m, shifted)
  BY <1>8, <1>9, <1>11, CalmTrans
<1>13. Calm(moved, fallen) /\ fallen \in Matches
  BY <1>8, BatchCalm DEF Calm
<1> HIDE DEF fallen
<1>14. p.left > 2 => Calm(m, next)
  BY <1>2, <1>8, <1>13, StageKnockoutsCalm, CalmTrans
<1>15. Calm(m, last)
  BY <1>2, <1>8, BatchCalm, CalmTrans
<1> QED BY <1>4, <1>12, <1>14, <1>15, CalmSame

LEMMA AskSide ==
  ASSUME NEW m \in Matches
  PROVE  Calm(m, [m EXCEPT !.battleResolutionPending = TRUE, !.resolving = FALSE])
<1>1. [m EXCEPT !.battleResolutionPending = TRUE, !.resolving = FALSE] \in Matches
  BY DEF Matches
<1>2. Mild(m, [m EXCEPT !.battleResolutionPending = TRUE, !.resolving = FALSE])
  BY DEF Matches, Mild
<1> QED BY <1>1, <1>2 DEF Calm

LEMMA StageExtraCalm ==
  ASSUME NEW m \in Matches, NEW jump \in Jumps
  PROVE  Calm(m, StagePendingExtraBattle(m, jump))
<1> DEFINE p == [at |-> m.len, spin |-> jump.spin, side |-> jump.side, choices |-> m.extraBattle # "used"]
           opens == IF m.extraBattle # "used" THEN "may" ELSE "none"
           extra == IF m.extraBattle = "none" THEN "open" ELSE m.extraBattle
           a == [m EXCEPT !.pendingExtraBattle = p, !.pendingBattles = opens, !.extraBattle = extra]
           b == [a EXCEPT !.battleResolutionPending = TRUE, !.resolving = FALSE]
<1>1. p \in ExtraBattles /\ m.len \in Nat
  BY DEF ExtraBattles, Matches, Jumps
<1>2. opens \in Battles /\ extra \in Extras
  BY DEF Battles, Extras, Matches
<1>3. StagePendingExtraBattle(m, jump) \in {b, Later(b, "opponent_extra", m.len)}
  <2>1. [m EXCEPT !.pendingExtraBattle = p, !.pendingBattles = opens,
                  !.extraBattle = IF @ = "none" THEN "open" ELSE @,
                  !.battleResolutionPending = TRUE, !.resolving = FALSE] = b
    BY DEF Matches
  <2> QED BY <2>1 DEF StagePendingExtraBattle
<1> HIDE DEF p, opens, extra
<1>4. Calm(m, a)
  <2>1. a \in Matches
    BY <1>1, <1>2 DEF Matches
  <2>2. Mild(m, a)
    BY DEF Matches, Mild
  <2> QED BY <2>1, <2>2 DEF Calm
<1> HIDE DEF a
<1>5. Calm(a, b)
  BY <1>4, AskSide DEF Calm
<1> HIDE DEF b
<1>6. Calm(m, b) /\ b \in Matches
  BY <1>4, <1>5, CalmTrans DEF Calm
<1>7. Calm(m, Later(b, "opponent_extra", m.len))
  BY <1>1, <1>6, LaterCalm, CalmTrans DEF Steps
<1> QED BY <1>3, <1>6, <1>7

LEMMA StageGrudgeCalm ==
  ASSUME NEW m \in Matches, NEW side \in Sides, NEW type \in Enders, NEW index \in Nat
  PROVE  Calm(m, StagePendingGrudge(m, side, type, index))
<1> DEFINE p == [at |-> index, bound |-> m.len, side |-> side, type |-> type, declared |-> FALSE]
           n == [m EXCEPT !.pendingGrudge = p, !.pendingBattles = "none"]
<1>1. p \in Grudges /\ "none" \in Battles
  BY DEF Grudges, Matches, Battles
<1>2. StagePendingGrudge(m, side, type, index) \in {n, Later(n, "opponent_grudge", index)}
  BY DEF StagePendingGrudge
<1> HIDE DEF p
<1>3. Calm(m, n)
  <2>1. n \in Matches
    BY <1>1 DEF Matches
  <2>2. Mild(m, n)
    BY DEF Matches, Mild
  <2> QED BY <2>1, <2>2 DEF Calm
<1> HIDE DEF n
<1>4. Calm(m, Later(n, "opponent_grudge", index))
  BY <1>3, LaterCalm, CalmTrans DEF Calm, Steps
<1> QED BY <1>2, <1>3, <1>4

LEMMA OpenMove ==
  ASSUME NEW m \in Matches, NEW battles \in Battles, NEW touch \in BOOLEAN
  PROVE  Calm(m, [m EXCEPT !.pendingBattles = battles, !.pendingTouch = touch])
<1>1. [m EXCEPT !.pendingBattles = battles, !.pendingTouch = touch] \in Matches
  BY DEF Matches
<1>2. Mild(m, [m EXCEPT !.pendingBattles = battles, !.pendingTouch = touch])
  BY DEF Matches, Mild
<1> QED BY <1>1, <1>2 DEF Calm

LEMMA GrudgeCalm ==
  ASSUME NEW m \in Matches, NEW at, NEW b \in MoveOpenings
  PROVE  Calm(m, PerformPendingGrudge(m, at, b))
<1> DEFINE p == m.pendingGrudge
           a == [m EXCEPT !.pendingGrudge = None, !.pendingBattles = b.battles,
                          !.pendingTouch = b.touch, !.resolving = FALSE]
           spun == Grow(a, 1)
           ended == CompleteTurn(spun, p.side, Plan(m, p.at, 1))
<1> SUFFICES ASSUME p # None
             PROVE  Calm(m, PerformPendingGrudge(m, at, b))
  BY CalmSame DEF PerformPendingGrudge
<1>1. p \in Grudges /\ p.side \in Sides /\ p.at \in Nat
  BY DEF Matches, Grudges
<1>2. b.battles \in Battles /\ b.touch \in BOOLEAN
  BY DEF MoveOpenings, Openings
<1>3. Calm(m, a)
  <2>1. a \in Matches
    BY <1>2 DEF Matches
  <2>2. Mild(m, a)
    BY DEF Matches, Mild
  <2> QED BY <2>1, <2>2 DEF Calm
<1>4. PerformPendingGrudge(m, at, b) \in {m, spun, OpponentLater(spun), OpponentLater(ended)}
  BY DEF PerformPendingGrudge
<1> HIDE DEF a
<1>5. Calm(m, spun) /\ spun \in Matches
  BY <1>3, GrowCalm, CalmTrans DEF Calm
<1> HIDE DEF spun
<1>6. Calm(m, OpponentLater(spun))
  BY <1>5, OpponentLaterCalm, CalmTrans
<1>7. Calm(spun, ended) /\ ended \in Matches
  BY <1>1, <1>5, PlanType, CompleteTurnCalm DEF Calm
<1> HIDE DEF ended
<1>8. Calm(m, OpponentLater(ended))
  BY <1>5, <1>7, OpponentLaterCalm, CalmTrans
<1> QED BY <1>4, <1>5, <1>6, <1>8, CalmSame

LEMMA MovedCalm ==
  ASSUME NEW m \in Matches, NEW side \in Sides, NEW type \in Enders, NEW b \in MoveOpenings
  PROVE  Calm(m, Moved(m, side, type, b))
<1> DEFINE plate == IF type = "mp_move" /\ ~b.plate THEN "none" ELSE m.pendingPlate
           grown == Grow(m, 1)
           moved == [grown EXCEPT !.pendingPlate = plate]
           ended == CompleteTurn(moved, side, Plan(m, m.len, 1))
<1>1. b.battles \in Battles /\ b.touch \in BOOLEAN /\ m.len \in Nat
  BY DEF MoveOpenings, Openings, Matches
<1>2. Moved(m, side, type, b) \in
        {Finish(moved), StagePendingGrudge(moved, side, type, m.len),
         [moved EXCEPT !.pendingBattles = b.battles, !.pendingTouch = b.touch], OpponentLater(ended)}
  <2>1. moved = [grown EXCEPT !.pendingPlate = IF type = "mp_move" /\ ~b.plate THEN "none" ELSE @]
    BY DEF Grow, Matches
  <2> HIDE DEF moved
  <2> QED BY <2>1 DEF Moved
<1>3. plate \in Plates
  BY DEF Matches, Plates
<1>4. Calm(m, grown) /\ grown \in Matches
  BY GrowCalm DEF Calm
<1> HIDE DEF plate, grown
<1>5. Calm(grown, moved)
  <2>1. moved \in Matches
    BY <1>3, <1>4 DEF Matches
  <2>2. Mild(grown, moved)
    BY <1>4 DEF Matches, Mild
  <2> QED BY <2>1, <2>2 DEF Calm
<1> HIDE DEF moved
<1>6. Calm(m, moved) /\ moved \in Matches
  BY <1>4, <1>5, CalmTrans DEF Calm
<1>7. Calm(m, Finish(moved))
  BY <1>6, FinishCalm, CalmTrans
<1>8. Calm(m, StagePendingGrudge(moved, side, type, m.len))
  BY <1>1, <1>6, StageGrudgeCalm, CalmTrans
<1>9. Calm(m, [moved EXCEPT !.pendingBattles = b.battles, !.pendingTouch = b.touch])
  BY <1>1, <1>6, OpenMove, CalmTrans
<1>10. Calm(moved, ended) /\ ended \in Matches
  BY <1>1, <1>6, PlanType, CompleteTurnCalm DEF Calm
<1> HIDE DEF ended
<1>11. Calm(m, OpponentLater(ended))
  BY <1>6, <1>10, OpponentLaterCalm, CalmTrans
<1> QED BY <1>2, <1>7, <1>8, <1>9, <1>11

LEMMA EndedCalm ==
  ASSUME NEW m \in Matches, NEW side \in Sides
  PROVE  Calm(m, OpponentLater(CompleteTurn(Grow(m, 1), side, Plan(m, m.len, 1))))
<1> DEFINE grown == Grow(m, 1)
           ended == CompleteTurn(grown, side, Plan(m, m.len, 1))
<1>1. Plan(m, m.len, 1) \in Plans
  BY PlanType DEF Matches
<1>2. Calm(m, grown) /\ grown \in Matches
  BY GrowCalm DEF Calm
<1> HIDE DEF grown
<1>3. Calm(m, ended) /\ ended \in Matches
  BY <1>1, <1>2, CompleteTurnCalm, CalmTrans DEF Calm
<1> HIDE DEF ended
<1>4. Calm(m, OpponentLater(ended))
  BY <1>3, OpponentLaterCalm, CalmTrans
<1> QED BY <1>4 DEF grown, ended

LEMMA OwingCalm ==
  ASSUME NEW m \in Matches
  PROVE  Calm(m, Owing(m))
<1>1. m.human \in BOOLEAN
  BY DEF Matches
<1> QED BY <1>1, Unlock, CalmSame DEF Owing

LEMMA GrudgeChosenCalm ==
  ASSUME NEW m \in Matches, m.pendingGrudge # None
  PROVE  Calm(m, GrudgeChosen(m))
<1> DEFINE g == [m.pendingGrudge EXCEPT !.declared = TRUE, !.bound = m.len + 1]
           grown == Grow(m, 1)
           n == [grown EXCEPT !.pendingGrudge = g]
           o == Later(n, "grudge", m.pendingGrudge.at)
<1>1. m.pendingGrudge \in Grudges /\ m.pendingGrudge.at \in Nat /\ m.len + 1 \in Nat
  BY DEF Matches, Grudges
<1>2. g \in Grudges
  BY <1>1 DEF Grudges
<1>3. GrudgeChosen(m) = Owing(o)
  <2>1. [grown EXCEPT !.pendingGrudge.declared = TRUE, !.pendingGrudge.bound = m.len + 1] = n
    BY DEF Grow, Matches
  <2> QED BY <2>1 DEF GrudgeChosen
<1>4. Calm(m, grown) /\ grown \in Matches
  BY GrowCalm DEF Calm
<1> HIDE DEF g, grown
<1>5. Calm(grown, n)
  <2>1. n \in Matches
    BY <1>2, <1>4 DEF Matches
  <2>2. Mild(grown, n)
    BY <1>4 DEF Matches, Mild
  <2> QED BY <2>1, <2>2 DEF Calm
<1> HIDE DEF n
<1>6. Calm(n, o)
  BY <1>1, <1>5, LaterCalm DEF Calm, Steps
<1> HIDE DEF o
<1>7. Calm(m, o) /\ o \in Matches
  BY <1>4, <1>5, <1>6, CalmTrans DEF Calm
<1> QED BY <1>3, <1>7, OwingCalm, CalmTrans

LEMMA JumpLandedCalm ==
  ASSUME NEW m \in Matches, NEW n \in Nat, NEW goal \in BOOLEAN,
         m.pendingJump # None, m.activeBattleResolution # None
  PROVE  Calm(m, JumpLanded(m, n, goal))
<1> DEFINE p == m.pendingJump
           plan == Plan(m, p.spin, 1)
           grown == Grow(m, 1)
           landed == [grown EXCEPT !.activeBattleResolution.plan = plan]
           batch == CompleteKnockoutBatch(landed, p.spin, n, FALSE)
           fallen == [batch EXCEPT !.pendingJump = None]
<1>1. p \in Jumps /\ p.spin \in Nat
  BY DEF Matches, Jumps
<1>2. plan \in Plans
  BY <1>1, PlanType
<1>3. JumpLanded(m, n, goal) \in {Finish(landed), StagePendingExtraBattle(fallen, p),
                                 CompleteBattleResolution(fallen, p.spin, TRUE)}
  BY DEF JumpLanded
<1>4. Calm(m, grown) /\ grown \in Matches /\ grown.activeBattleResolution # None
  BY GrowCalm DEF Calm, Mild
<1> HIDE DEF plan, grown
<1>5. Calm(m, landed) /\ landed \in Matches
  BY <1>2, <1>4, RebindCalm, CalmTrans DEF Calm
<1> HIDE DEF landed
<1>6. Calm(landed, batch) /\ batch \in Matches
  BY <1>5, BatchCalm DEF Calm
<1> HIDE DEF batch
<1>7. Calm(batch, fallen)
  <2>1. fallen \in Matches
    BY <1>6 DEF Matches
  <2>2. Mild(batch, fallen)
    BY <1>6 DEF Matches, Mild
  <2> QED BY <2>1, <2>2 DEF Calm
<1> HIDE DEF fallen
<1>8. Calm(m, fallen) /\ fallen \in Matches
  BY <1>5, <1>6, <1>7, CalmTrans DEF Calm
<1>9. Calm(m, Finish(landed))
  BY <1>5, FinishCalm, CalmTrans
<1>10. Calm(m, StagePendingExtraBattle(fallen, p))
  BY <1>1, <1>8, StageExtraCalm, CalmTrans
<1>11. Calm(m, CompleteBattleResolution(fallen, p.spin, TRUE))
  BY <1>8, CompleteBattleCalm, CalmTrans
<1> QED BY <1>3, <1>9, <1>10, <1>11

-----------------------------------------------------------------------------
\* Every resolution, respin and callback of a battle belongs to a declaration.
Linked(m) ==
  /\ m.activeBattleResolution # None => m.activeBattleDeclaration # None
  /\ m.pendingRespin # None => m.activeBattleResolution # None
  /\ \A t \in m.timers : t.step \in {"resolve", "spin"} => m.activeBattleDeclaration # None

\* The callbacks that are to spin the first wheel of the battle in hand.
Rolls(m) == {t \in m.timers : t.step = "spin" /\ t.at = m.activeBattleDeclaration.at}
\* The battle in hand has begun and has had no outcome.
Begun(m) == m.activeBattleDeclaration.started /\ m.activeBattleDeclaration.outcomes = 0

\* While a match is played: a first wheel that is to come, or a respin that is
\* offered, waits for a battle without an outcome, and no two wait for one.
Once(m) ==
  /\ m.activeBattleDeclaration # None => m.activeBattleDeclaration.outcomes <= 1
  /\ m.pendingRespin # None => m.activeBattleDeclaration.outcomes = 0
  /\ m.phase = "started" =>
       /\ m.activeBattleDeclaration # None =>
            /\ m.activeBattleDeclaration.at < m.len
            /\ m.activeBattleDeclaration.outcomes = 1 => m.activeBattleDeclaration.started
       /\ \A t \in m.timers : t.step = "spin" => t.at < m.len
       /\ \A t, u \in Rolls(m) : t = u
       /\ Rolls(m) # {} => Begun(m) /\ m.pendingRespin = None
       /\ m.pendingRespin # None => Begun(m)
Typed(m) == m \in Matches /\ Linked(m)

LEMMA CalmTyped ==
  ASSUME NEW m, Typed(m), NEW n, Calm(m, n)
  PROVE  Typed(n)
BY DEF Typed, Linked, Calm, Mild

LEMMA CalmOnce ==
  ASSUME NEW m, Typed(m), Once(m), NEW n, Calm(m, n)
  PROVE  Once(n)
<1> DEFINE d == m.activeBattleDeclaration
<1>1. /\ n.activeBattleDeclaration = d
      /\ n.phase = "started" => m.phase = "started"
      /\ n.pendingRespin # None => m.pendingRespin # None
      /\ \A t \in n.timers : t.step = "spin" => t \in m.timers
  BY DEF Calm, Mild
<1>2. m.len \in Nat /\ n.len \in Nat /\ n.len >= m.len
  BY DEF Calm, Mild, Typed, Matches
<1>3. Rolls(n) \subseteq Rolls(m)
  BY <1>1 DEF Rolls
<1>4. d # None => d.outcomes <= 1
  BY DEF Once
<1> SUFFICES ASSUME n.phase = "started"
             PROVE  /\ d # None => d.at < n.len /\ (d.outcomes = 1 => d.started)
                    /\ \A t \in n.timers : t.step = "spin" => t.at < n.len
                    /\ \A t, u \in Rolls(n) : t = u
                    /\ Rolls(n) # {} => Begun(n) /\ n.pendingRespin = None
                    /\ n.pendingRespin # None => Begun(n)
  BY <1>1, <1>4 DEF Once
<1>5. d # None => d.at < n.len /\ (d.outcomes = 1 => d.started)
  <2>1. d # None => d.at \in Nat /\ d.at < m.len /\ (d.outcomes = 1 => d.started)
    BY <1>1 DEF Once, Typed, Matches, Declarations
  <2> QED BY <1>2, <2>1
<1>6. \A t \in n.timers : t.step = "spin" => t.at < n.len
  <2> SUFFICES ASSUME NEW t \in n.timers, t.step = "spin" PROVE t.at < n.len
    OBVIOUS
  <2>1. t \in m.timers /\ t.at < m.len
    BY <1>1 DEF Once
  <2>2. t.at \in Nat
    BY <2>1 DEF Typed, Matches, Timers
  <2> QED BY <1>2, <2>1, <2>2
<1>7. Begun(n) <=> Begun(m)
  BY <1>1 DEF Begun
<1>8. /\ \A t, u \in Rolls(m) : t = u
      /\ Rolls(m) # {} => Begun(m) /\ m.pendingRespin = None
      /\ m.pendingRespin # None => Begun(m)
  BY <1>1 DEF Once
<1> QED BY <1>1, <1>3, <1>5, <1>6, <1>7, <1>8

\* A battle is declared: m is the match before, k what it is when the entry of
\* the declaration has been appended, n when the input is locked.
NewBattle(m, n) ==
  \E k \in Matches, side \in Sides :
    /\ Calm(m, k) /\ k.len > m.len
    /\ k.phase = "started" => k.pendingRespin = None
    /\ Calm(Declared(k, side, m.len), n)

LEMMA DeclaredIs ==
  ASSUME NEW m \in Matches, NEW side \in Sides, NEW at \in Nat
  PROVE  /\ Declared(m, side, at) \in Matches
         /\ Declared(m, side, at).activeBattleDeclaration =
              [at |-> at, started |-> FALSE, turnSide |-> side, outcomes |-> 0]
         /\ Declared(m, side, at).activeBattleDeclaration # None
         /\ Declared(m, side, at).timers =
              m.timers \cup {[step |-> "resolve", at |-> at, turns |-> m.done]}
         /\ Declared(m, side, at).late = m.late
         /\ Declared(m, side, at).phase = m.phase /\ Declared(m, side, at).len = m.len
         /\ Declared(m, side, at).pendingRespin = m.pendingRespin
         /\ Declared(m, side, at).activeBattleResolution = m.activeBattleResolution
<1> DEFINE d == [at |-> at, started |-> FALSE, turnSide |-> side, outcomes |-> 0]
           n == [m EXCEPT !.battleResolutionPending = TRUE, !.activeBattleDeclaration = d]
<1>1. d \in Declarations /\ d # None
  <2>1. d \in Declarations
    BY DEF Declarations
  <2> QED BY <2>1, NoneAssumption
<1>2. Declared(m, side, at) = Later(n, "resolve", at)
  BY DEF Declared
<1> HIDE DEF d
<1>3. n \in Matches
  BY <1>1 DEF Matches
<1>4. /\ n.activeBattleDeclaration = d /\ n.timers = m.timers /\ n.done = m.done /\ n.phase = m.phase
      /\ n.len = m.len /\ n.pendingRespin = m.pendingRespin /\ n.late = m.late
      /\ n.activeBattleResolution = m.activeBattleResolution
  BY DEF Matches
<1> HIDE DEF n
<1>5. Later(n, "resolve", at) \in Matches
  BY <1>3, LaterType DEF Steps
<1>6. /\ Later(n, "resolve", at).activeBattleDeclaration = d
      /\ Later(n, "resolve", at).timers = n.timers \cup {[step |-> "resolve", at |-> at, turns |-> n.done]}
      /\ Later(n, "resolve", at).late = n.late
      /\ Later(n, "resolve", at).phase = n.phase /\ Later(n, "resolve", at).len = n.len
      /\ Later(n, "resolve", at).pendingRespin = n.pendingRespin
      /\ Later(n, "resolve", at).activeBattleResolution = n.activeBattleResolution
  BY <1>3, <1>4 DEF Later, Matches
<1> QED BY <1>1, <1>2, <1>4, <1>5, <1>6 DEF d

LEMMA NewBattleTyped ==
  ASSUME NEW m, Typed(m), NEW n, NewBattle(m, n)
  PROVE  Typed(n)
<1>1. PICK k \in Matches, side \in Sides :
        /\ Calm(m, k) /\ k.len > m.len
        /\ k.phase = "started" => k.pendingRespin = None
        /\ Calm(Declared(k, side, m.len), n)
  BY DEF NewBattle
<1> DEFINE e == Declared(k, side, m.len)
<1>2. Typed(k) /\ m.len \in Nat
  BY <1>1, CalmTyped DEF Typed, Matches
<1>3. Typed(e)
  BY <1>2, DeclaredIs DEF Typed, Linked
<1> QED BY <1>1, <1>3, CalmTyped

LEMMA NewBattleOnce ==
  ASSUME NEW m, Typed(m), Once(m), NEW n, NewBattle(m, n)
  PROVE  Once(n)
<1>1. PICK k \in Matches, side \in Sides :
        /\ Calm(m, k) /\ k.len > m.len
        /\ k.phase = "started" => k.pendingRespin = None
        /\ Calm(Declared(k, side, m.len), n)
  BY DEF NewBattle
<1> DEFINE e == Declared(k, side, m.len)
<1>2. Typed(k) /\ Once(k) /\ m.len \in Nat /\ k.len \in Nat
  BY <1>1, CalmTyped, CalmOnce DEF Typed, Matches
<1>3. /\ e \in Matches /\ e.activeBattleDeclaration.at = m.len /\ ~e.activeBattleDeclaration.started
      /\ e.activeBattleDeclaration.outcomes = 0 /\ e.activeBattleDeclaration # None
      /\ e.timers = k.timers \cup {[step |-> "resolve", at |-> m.len, turns |-> k.done]}
      /\ e.phase = k.phase /\ e.len = k.len /\ e.pendingRespin = k.pendingRespin
      /\ e.activeBattleResolution = k.activeBattleResolution
  <2>1. e.activeBattleDeclaration = [at |-> m.len, started |-> FALSE, turnSide |-> side, outcomes |-> 0]
    BY <1>2, DeclaredIs
  <2> QED BY <1>2, <2>1, DeclaredIs
<1>4. Typed(e)
  BY <1>2, DeclaredIs DEF Typed, Linked
<1> HIDE DEF e
<1>5. Once(e)
  <2> SUFFICES ASSUME e.phase = "started"
               PROVE  /\ \A t \in e.timers : t.step = "spin" => t.at < e.len
                      /\ Rolls(e) = {}
                      /\ e.pendingRespin = None
    BY <1>1, <1>2, <1>3 DEF Once
  <2>1. m.phase = "started" /\ \A t \in k.timers : t.step = "spin" => t \in m.timers
    BY <1>1, <1>3 DEF Calm, Mild
  <2>2. ASSUME NEW t \in e.timers, t.step = "spin"
        PROVE  t.at \in Nat /\ t.at < m.len
    <3>1. t \in k.timers
      BY <1>3, <2>2
    <3>2. t \in m.timers
      BY <2>1, <2>2, <3>1
    <3> QED BY <2>1, <2>2, <3>2 DEF Once, Typed, Matches, Timers
  <2>3. Rolls(e) = {}
    BY <1>2, <1>3, <2>2 DEF Rolls
  <2>4. \A t \in e.timers : t.step = "spin" => t.at < e.len
    BY <1>1, <1>2, <1>3, <2>2
  <2> QED BY <1>1, <1>3, <2>3, <2>4
<1> QED BY <1>1, <1>4, <1>5, CalmOnce DEF e

-----------------------------------------------------------------------------
\* The battle in hand gets an outcome.
Applied(m, plan) ==
  [m EXCEPT !.activeBattleResolution.phase = "applying", !.activeBattleResolution.plan = plan,
            !.activeBattleDeclaration.outcomes = @ + 1]

LEMMA AppliedIs ==
  ASSUME NEW m \in Matches, m.activeBattleResolution # None, m.activeBattleDeclaration # None,
         NEW plan \in Plans
  PROVE  /\ Applied(m, plan) \in Matches
         /\ Applied(m, plan).activeBattleDeclaration =
              [m.activeBattleDeclaration EXCEPT !.outcomes = m.activeBattleDeclaration.outcomes + 1]
         /\ Applied(m, plan).activeBattleDeclaration # None
         /\ Applied(m, plan).activeBattleResolution =
              [m.activeBattleResolution EXCEPT !.phase = "applying", !.plan = plan]
         /\ Applied(m, plan).activeBattleResolution # None
         /\ Applied(m, plan).timers = m.timers /\ Applied(m, plan).pendingRespin = m.pendingRespin
         /\ Applied(m, plan).late = m.late
         /\ Applied(m, plan).phase = m.phase /\ Applied(m, plan).turn = m.turn
         /\ Applied(m, plan).len = m.len /\ Applied(m, plan).done = m.done /\ Applied(m, plan).cut = m.cut
<1> DEFINE r == [m.activeBattleResolution EXCEPT !.phase = "applying", !.plan = plan]
           d == [m.activeBattleDeclaration EXCEPT !.outcomes = m.activeBattleDeclaration.outcomes + 1]
           n == [m EXCEPT !.activeBattleResolution = r, !.activeBattleDeclaration = d]
<1>1. r \in Resolutions /\ r # None
  <2>1. m.activeBattleResolution \in Resolutions
    BY DEF Matches
  <2>2. r \in Resolutions
    BY <2>1 DEF Resolutions
  <2> QED BY <2>2, NoneAssumption
<1>2. d \in Declarations /\ d # None
  <2>1. m.activeBattleDeclaration \in Declarations
    BY DEF Matches
  <2>2. d \in Declarations
    BY <2>1 DEF Declarations
  <2> QED BY <2>2, NoneAssumption
<1>3. Applied(m, plan) = n
  BY DEF Applied, Matches
<1> HIDE DEF r, d
<1>4. n \in Matches
  BY <1>1, <1>2 DEF Matches
<1>5. /\ n.activeBattleDeclaration = d /\ n.activeBattleResolution = r
      /\ n.timers = m.timers /\ n.pendingRespin = m.pendingRespin
      /\ n.phase = m.phase /\ n.turn = m.turn /\ n.late = m.late
      /\ n.len = m.len /\ n.done = m.done /\ n.cut = m.cut
  BY DEF Matches
<1> HIDE DEF n
<1> QED BY <1>1, <1>2, <1>3, <1>4, <1>5 DEF r, d

\* finishBattleSpin applies the outcome or does nothing.
LEMMA FinishSpinIs ==
  ASSUME NEW m \in Matches, NEW spin \in Nat, NEW o \in Outcomes, NEW n,
         n = FinishBattleSpin(m, spin, o), n # m
  PROVE  /\ m.phase = "started" /\ m.activeBattleResolution # None
         /\ Fits(m, Plan(m, spin, 0))
         /\ CurrentBattleResolution(m, spin, "pending")
         /\ Plan(m, spin, 0) \in Plans
         /\ LET applied == Applied(m, Plan(m, spin, 0))
            IN \/ o.jumper \in Sides /\ n = StagePendingJump(applied, spin, o)
               \/ o.wheels > 0 /\ n = StageSecondarySpins(applied, spin, o.wheels, o.faint)
               \/ n = Knockouts(applied, spin, o.faint)
<1> DEFINE applied == Applied(m, Plan(m, spin, 0))
<1>1. Plan(m, spin, 0) \in Plans
  BY PlanType
<1>2. CurrentBattleResolution(m, spin, "pending") /\ Fits(m, Plan(m, spin, 0))
  BY DEF FinishBattleSpin
<1>3. m.phase = "started" /\ m.activeBattleResolution # None
  BY <1>2 DEF CurrentBattleResolution
<1>4. n = IF o.jumper # "nobody" THEN StagePendingJump(applied, spin, o)
          ELSE IF o.wheels > 0 THEN StageSecondarySpins(applied, spin, o.wheels, o.faint)
          ELSE Knockouts(applied, spin, o.faint)
  BY DEF FinishBattleSpin, Applied
<1>5. o.jumper \in Sides \cup {"nobody"}
  BY OutcomeType
<1> HIDE DEF applied
<1>6. \/ o.jumper \in Sides /\ n = StagePendingJump(applied, spin, o)
      \/ o.wheels > 0 /\ n = StageSecondarySpins(applied, spin, o.wheels, o.faint)
      \/ n = Knockouts(applied, spin, o.faint)
  BY <1>4, <1>5
<1> QED BY <1>1, <1>2, <1>3, <1>6 DEF applied

LEMMA FinishSpinCalm ==
  ASSUME NEW m, Typed(m), NEW spin \in Nat, NEW o \in Outcomes, NEW n,
         n = FinishBattleSpin(m, spin, o), n # m
  PROVE  Typed(Applied(m, Plan(m, spin, 0))) /\ Calm(Applied(m, Plan(m, spin, 0)), n)
<1> DEFINE applied == Applied(m, Plan(m, spin, 0))
<1>1. m \in Matches
  BY DEF Typed
<1>2. /\ m.activeBattleResolution # None /\ m.activeBattleDeclaration # None
      /\ Plan(m, spin, 0) \in Plans
  BY <1>1, FinishSpinIs DEF Typed, Linked
<1>3. applied \in Matches
  BY <1>1, <1>2, AppliedIs
<1>4. Typed(applied)
  BY <1>1, <1>2, <1>3, AppliedIs DEF Typed, Linked
<1>5. \/ o.jumper \in Sides /\ n = StagePendingJump(applied, spin, o)
      \/ o.wheels > 0 /\ n = StageSecondarySpins(applied, spin, o.wheels, o.faint)
      \/ n = Knockouts(applied, spin, o.faint)
  BY <1>1, FinishSpinIs
<1> HIDE DEF applied
<1>6. o.wheels \in Nat /\ o.faint \in Nat
  BY OutcomeType
<1>7. Calm(applied, n)
  BY <1>3, <1>5, <1>6, StageJumpCalm, StageSpinsCalm, KnockoutsCalm
<1> QED BY <1>4, <1>7 DEF applied

LEMMA FinishSpinTyped ==
  ASSUME NEW m, Typed(m), NEW spin \in Nat, NEW o \in Outcomes
  PROVE  Typed(FinishBattleSpin(m, spin, o))
BY FinishSpinCalm, CalmTyped

\* No wheel is to come for the battle in hand, which has no outcome yet, and
\* none is owed once it has one: then it has its only outcome.
LEMMA FinishSpinOnce ==
  ASSUME NEW m, Typed(m), Once(m), NEW spin \in Nat, NEW o \in Outcomes,
         m.phase = "started" => Rolls(m) = {} /\ Begun(m) /\ (m.pendingRespin # None => o.wheels = 0)
  PROVE  Once(FinishBattleSpin(m, spin, o))
<1> DEFINE n == FinishBattleSpin(m, spin, o)
           plan == Plan(m, spin, 0)
           applied == Applied(m, plan)
           d == m.activeBattleDeclaration
<1> SUFFICES ASSUME n # m
             PROVE  Once(n)
  OBVIOUS
<1>1. m \in Matches
  BY DEF Typed
<1>2. /\ m.phase = "started" /\ m.activeBattleResolution # None /\ d # None
      /\ plan \in Plans /\ Fits(m, plan) /\ CurrentBattleResolution(m, spin, "pending")
  BY <1>1, FinishSpinIs DEF Typed, Linked
<1>3. \/ o.jumper \in Sides /\ n = StagePendingJump(applied, spin, o)
      \/ o.wheels > 0 /\ n = StageSecondarySpins(applied, spin, o.wheels, o.faint)
      \/ n = Knockouts(applied, spin, o.faint)
  BY <1>1, FinishSpinIs
<1>4. Typed(applied) /\ Calm(applied, n)
  BY FinishSpinCalm
<1>5. Begun(m) /\ Rolls(m) = {} /\ (m.pendingRespin # None => o.wheels = 0)
  BY <1>2
<1>6. /\ applied \in Matches /\ applied.timers = m.timers /\ applied.pendingRespin = m.pendingRespin
      /\ applied.phase = "started" /\ applied.len = m.len /\ applied.done = m.done /\ applied.cut = m.cut
      /\ applied.turn = m.turn
  BY <1>1, <1>2, AppliedIs
<1>7. /\ applied.activeBattleDeclaration.at = d.at /\ applied.activeBattleDeclaration.started
      /\ applied.activeBattleDeclaration.outcomes = 1 /\ applied.activeBattleDeclaration # None
  <2>1. d \in Declarations
    BY <1>1, <1>2 DEF Matches
  <2>2. applied.activeBattleDeclaration = [d EXCEPT !.outcomes = d.outcomes + 1]
    BY <1>1, <1>2, AppliedIs
  <2>3. applied.activeBattleDeclaration # None
    BY <1>1, <1>2, AppliedIs
  <2> HIDE DEF applied
  <2> QED BY <1>5, <2>1, <2>2, <2>3 DEF Declarations, Begun
<1>8. CurrentBattleResolution(applied, spin, "applying") /\ Fits(applied, applied.activeBattleResolution.plan)
  <2>1. m.activeBattleResolution \in Resolutions
    BY <1>1, <1>2 DEF Matches
  <2>2. /\ applied.activeBattleResolution # None
        /\ applied.activeBattleResolution = [m.activeBattleResolution EXCEPT !.phase = "applying", !.plan = plan]
    BY <1>1, <1>2, AppliedIs
  <2> HIDE DEF plan, applied
  <2>3. /\ applied.activeBattleResolution.phase = "applying" /\ applied.activeBattleResolution.plan = plan
        /\ applied.activeBattleResolution.spin = m.activeBattleResolution.spin
        /\ applied.activeBattleResolution.turnSide = m.activeBattleResolution.turnSide
    BY <2>1, <2>2 DEF Resolutions
  <2> QED BY <1>2, <1>6, <2>2, <2>3 DEF CurrentBattleResolution, Fits
<1> HIDE DEF n
<1>9. n.pendingRespin = None
  <2>1. CASE o.jumper \in Sides /\ n = StagePendingJump(applied, spin, o)
    BY <1>6, <2>1, StageJumpCalm
  <2>2. CASE o.wheels > 0 /\ n = StageSecondarySpins(applied, spin, o.wheels, o.faint)
    BY <1>4, <1>5, <1>6, <2>2 DEF Calm, Mild
  <2>3. CASE n = Knockouts(applied, spin, o.faint)
    BY <1>6, <1>8, <2>3, KnockoutsWithdraw, OutcomeType
  <2> QED BY <1>3, <2>1, <2>2, <2>3
<1> HIDE DEF applied
<1>10. n.activeBattleDeclaration = applied.activeBattleDeclaration /\ n.len >= m.len /\ n.len \in Nat
  BY <1>4, <1>6 DEF Calm, Mild, Matches
<1>11. \A t \in n.timers : t.step = "spin" => t \in m.timers
  BY <1>4, <1>6 DEF Calm, Mild
<1>12. Rolls(n) = {}
  BY <1>5, <1>7, <1>10, <1>11 DEF Rolls
<1>13. d.at \in Nat /\ d.at < m.len /\ m.len \in Nat
  BY <1>1, <1>2 DEF Once, Matches, Declarations
<1>14. \A t \in n.timers : t.step = "spin" => t.at < n.len
  <2> SUFFICES ASSUME NEW t \in n.timers, t.step = "spin" PROVE t.at < n.len
    OBVIOUS
  <2>1. t \in m.timers /\ t.at < m.len
    BY <1>2, <1>11 DEF Once
  <2>2. t.at \in Nat
    BY <1>1, <2>1 DEF Matches, Timers
  <2> QED BY <1>10, <1>13, <2>1, <2>2
<1> QED BY <1>7, <1>9, <1>10, <1>12, <1>13, <1>14 DEF Once

\* performBattleSpin: the wheel of the attacker has stopped.
Spun(m) ==
  [Grow(m, 1) EXCEPT !.activeBattleResolution = [spin |-> m.len, turnSide |-> m.turn, phase |-> "pending",
                                                 plan |-> None]]
RespinOffered(m) ==
  [Spun(m) EXCEPT !.pendingRespin = [spin |-> m.len, side |-> m.turn, declared |-> FALSE], !.resolving = FALSE]

LEMMA SpunIs ==
  ASSUME NEW m \in Matches
  PROVE  /\ Spun(m) \in Matches /\ Spun(m).activeBattleResolution # None
         /\ Spun(m).activeBattleDeclaration = m.activeBattleDeclaration
         /\ Spun(m).timers = m.timers /\ Spun(m).pendingRespin = m.pendingRespin
         /\ Spun(m).late = m.late /\ Spun(m).phase = m.phase /\ Spun(m).len = m.len + 1
<1> DEFINE r == [spin |-> m.len, turnSide |-> m.turn, phase |-> "pending", plan |-> None]
           g == Grow(m, 1)
<1>1. r \in Resolutions /\ r # None
  <2>1. r \in Resolutions
    BY DEF Resolutions, Matches
  <2> QED BY <2>1, NoneAssumption
<1>2. /\ g \in Matches /\ g.activeBattleDeclaration = m.activeBattleDeclaration
      /\ g.timers = m.timers /\ g.pendingRespin = m.pendingRespin /\ g.phase = m.phase /\ g.len = m.len + 1
      /\ g.late = m.late
  <2>1. g \in Matches
    BY GrowCalm DEF Calm
  <2> QED BY <2>1 DEF Grow, Matches
<1>3. Spun(m) = [g EXCEPT !.activeBattleResolution = r]
  BY DEF Spun
<1> HIDE DEF g, r
<1>4. [g EXCEPT !.activeBattleResolution = r] \in Matches
  BY <1>1, <1>2 DEF Matches
<1>5. /\ [g EXCEPT !.activeBattleResolution = r].activeBattleResolution = r
      /\ [g EXCEPT !.activeBattleResolution = r].activeBattleDeclaration = g.activeBattleDeclaration
      /\ [g EXCEPT !.activeBattleResolution = r].timers = g.timers
      /\ [g EXCEPT !.activeBattleResolution = r].pendingRespin = g.pendingRespin
      /\ [g EXCEPT !.activeBattleResolution = r].phase = g.phase
      /\ [g EXCEPT !.activeBattleResolution = r].late = g.late
      /\ [g EXCEPT !.activeBattleResolution = r].len = g.len
  BY <1>2 DEF Matches
<1> QED BY <1>1, <1>2, <1>3, <1>4, <1>5

LEMMA OfferRespin ==
  ASSUME NEW m \in Matches, NEW p \in Respins
  PROVE  [m EXCEPT !.pendingRespin = p, !.resolving = FALSE] \in Matches
BY DEF Matches

LEMMA OfferedIs ==
  ASSUME NEW m \in Matches
  PROVE  /\ RespinOffered(m) \in Matches /\ RespinOffered(m).activeBattleResolution # None
         /\ RespinOffered(m).activeBattleDeclaration = m.activeBattleDeclaration
         /\ RespinOffered(m).timers = m.timers
         /\ RespinOffered(m).late = m.late /\ RespinOffered(m).phase = m.phase /\ RespinOffered(m).len = m.len + 1
<1> DEFINE p == [spin |-> m.len, side |-> m.turn, declared |-> FALSE]
           s == Spun(m)
           n == [s EXCEPT !.pendingRespin = p, !.resolving = FALSE]
<1>1. p \in Respins
  BY DEF Respins, Matches
<1>2. s \in Matches
  BY SpunIs
<1>3. RespinOffered(m) = n
  BY DEF RespinOffered
<1> HIDE DEF p, s
<1>4. n \in Matches
  BY <1>1, <1>2, OfferRespin
<1>5. /\ n.activeBattleResolution = s.activeBattleResolution
      /\ n.activeBattleDeclaration = s.activeBattleDeclaration
      /\ n.timers = s.timers /\ n.phase = s.phase /\ n.len = s.len /\ n.late = s.late
  BY <1>2 DEF Matches
<1> HIDE DEF n
<1> QED BY <1>3, <1>4, <1>5, SpunIs DEF s

LEMMA PerformSpinIs ==
  ASSUME NEW m \in Matches, NEW at, NEW o \in Outcomes
  PROVE  \/ PerformBattleSpin(m, at, o) = m
         \/ /\ m.phase = "started" /\ m.activeBattleDeclaration.at = at
            /\ PerformBattleSpin(m, at, o) \in {RespinOffered(m), FinishBattleSpin(Spun(m), m.len, o)}
BY DEF PerformBattleSpin, Spun, RespinOffered

LEMMA PerformSpinTyped ==
  ASSUME NEW m, Typed(m), m.activeBattleDeclaration # None, NEW at, NEW o \in Outcomes
  PROVE  Typed(PerformBattleSpin(m, at, o))
<1>1. m \in Matches /\ m.len \in Nat
  BY DEF Typed, Matches
<1>2. Typed(RespinOffered(m))
  BY <1>1, OfferedIs DEF Typed, Linked
<1>3. Typed(Spun(m))
  BY <1>1, SpunIs DEF Typed, Linked
<1>4. Typed(FinishBattleSpin(Spun(m), m.len, o))
  BY <1>1, <1>3, FinishSpinTyped
<1> QED BY <1>1, <1>2, <1>4, PerformSpinIs

LEMMA PerformSpinOnce ==
  ASSUME NEW m, Typed(m), Once(m), m.activeBattleDeclaration # None, NEW at, NEW o \in Outcomes,
         m.phase = "started" /\ m.activeBattleDeclaration.at = at =>
           Rolls(m) = {} /\ Begun(m) /\ m.pendingRespin = None
  PROVE  Once(PerformBattleSpin(m, at, o))
<1> SUFFICES ASSUME m.phase = "started", m.activeBattleDeclaration.at = at,
                    PerformBattleSpin(m, at, o) \in {RespinOffered(m), FinishBattleSpin(Spun(m), m.len, o)}
             PROVE  Once(PerformBattleSpin(m, at, o))
  BY PerformSpinIs DEF Typed
<1> DEFINE d == m.activeBattleDeclaration
<1>1. m \in Matches /\ m.len \in Nat /\ d \in Declarations
  BY DEF Typed, Matches
<1>2. /\ d.outcomes = 0 /\ d.started /\ d.at \in Nat /\ d.at < m.len + 1
  BY <1>1 DEF Begun, Once, Declarations
<1>3. \A t \in m.timers : t.step = "spin" => t.at < m.len + 1
  <2> SUFFICES ASSUME NEW t \in m.timers, t.step = "spin" PROVE t.at < m.len + 1
    OBVIOUS
  <2>1. t.at < m.len
    BY DEF Once
  <2>2. t.at \in Nat
    BY <1>1 DEF Matches, Timers
  <2> QED BY <1>1, <2>1, <2>2
<1>4. ASSUME NEW n, n.activeBattleDeclaration = d, n.timers = m.timers, n.len = m.len + 1
      PROVE  Once(n) /\ Rolls(n) = {} /\ Begun(n)
  <2>1. Rolls(n) = {} /\ Begun(n)
    BY <1>4 DEF Rolls, Begun
  <2> QED BY <1>2, <1>3, <1>4, <2>1 DEF Once
<1>5. Once(RespinOffered(m))
  BY <1>1, <1>4, OfferedIs
<1>6. Typed(Spun(m)) /\ Once(Spun(m)) /\ Rolls(Spun(m)) = {} /\ Begun(Spun(m)) /\ Spun(m).pendingRespin = None
  BY <1>1, <1>4, SpunIs DEF Typed, Linked
<1>7. Once(FinishBattleSpin(Spun(m), m.len, o))
  BY <1>1, <1>6, FinishSpinOnce
<1> QED BY <1>5, <1>7

\* resolveBattle: the first wheels are disabled, or spun at once.
Started(m) == [m EXCEPT !.activeBattleDeclaration.started = TRUE]

LEMMA StartedIs ==
  ASSUME NEW m \in Matches, m.activeBattleDeclaration # None
  PROVE  /\ Started(m) \in Matches
         /\ Started(m).activeBattleDeclaration = [m.activeBattleDeclaration EXCEPT !.started = TRUE]
         /\ Started(m).activeBattleDeclaration # None
         /\ Started(m).activeBattleResolution = m.activeBattleResolution
         /\ Started(m).timers = m.timers /\ Started(m).pendingRespin = m.pendingRespin
         /\ Started(m).late = m.late /\ Started(m).phase = m.phase /\ Started(m).len = m.len /\ Started(m).done = m.done
<1> DEFINE d == [m.activeBattleDeclaration EXCEPT !.started = TRUE]
           n == [m EXCEPT !.activeBattleDeclaration = d]
<1>1. d \in Declarations /\ d # None
  <2>1. m.activeBattleDeclaration \in Declarations
    BY DEF Matches
  <2>2. d \in Declarations
    BY <2>1 DEF Declarations
  <2> QED BY <2>2, NoneAssumption
<1>2. Started(m) = n
  BY DEF Started, Matches
<1> HIDE DEF d
<1>3. n \in Matches
  BY <1>1 DEF Matches
<1>4. /\ n.activeBattleDeclaration = d /\ n.activeBattleResolution = m.activeBattleResolution
      /\ n.timers = m.timers /\ n.pendingRespin = m.pendingRespin
      /\ n.phase = m.phase /\ n.len = m.len /\ n.done = m.done /\ n.late = m.late
  BY DEF Matches
<1> QED BY <1>1, <1>2, <1>3, <1>4 DEF d

LEMMA ResolveIs ==
  ASSUME NEW m \in Matches, NEW at, NEW d \in Nat, NEW o \in Outcomes
  PROVE  \/ ResolveBattle(m, at, d, o) = m
         \/ /\ m.phase = "started" /\ m.activeBattleDeclaration.at = at /\ ~m.activeBattleDeclaration.started
            /\ ResolveBattle(m, at, d, o) \in {PerformBattleSpin(Started(m), at, o),
                                               Later(Grow(Started(m), d), "spin", at)}
BY DEF ResolveBattle, Started

LEMMA WheelLaterIs ==
  ASSUME NEW m \in Matches, NEW d \in Nat, NEW at \in Nat, NEW n, n = Later(Grow(m, d), "spin", at)
  PROVE  /\ n \in Matches /\ n.activeBattleDeclaration = m.activeBattleDeclaration
         /\ n.activeBattleResolution = m.activeBattleResolution
         /\ n.timers = m.timers \cup {[step |-> "spin", at |-> at, turns |-> m.done]}
         /\ n.pendingRespin = m.pendingRespin /\ n.phase = m.phase /\ n.len = m.len + d
         /\ n.late = m.late
<1> DEFINE g == Grow(m, d)
<1>1. g \in Matches
  BY GrowCalm DEF Calm
<1>2. /\ g.activeBattleDeclaration = m.activeBattleDeclaration
      /\ g.activeBattleResolution = m.activeBattleResolution
      /\ g.timers = m.timers /\ g.done = m.done /\ g.late = m.late
      /\ g.pendingRespin = m.pendingRespin /\ g.phase = m.phase /\ g.len = m.len + d
  BY DEF Grow, Matches
<1> HIDE DEF g
<1>3. n = Later(g, "spin", at)
  BY DEF g
<1>4. n \in Matches
  BY <1>1, <1>3, LaterType DEF Steps
<1>5. /\ n.activeBattleDeclaration = g.activeBattleDeclaration
      /\ n.activeBattleResolution = g.activeBattleResolution
      /\ n.timers = g.timers \cup {[step |-> "spin", at |-> at, turns |-> g.done]}
      /\ n.pendingRespin = g.pendingRespin /\ n.phase = g.phase /\ n.len = g.len
      /\ n.late = g.late
  BY <1>1, <1>3 DEF Later, Matches
<1> QED BY <1>2, <1>4, <1>5

LEMMA ResolveTyped ==
  ASSUME NEW m, Typed(m), m.activeBattleDeclaration # None,
         NEW at \in Nat, NEW d \in Nat, NEW o \in Outcomes
  PROVE  Typed(ResolveBattle(m, at, d, o))
<1>1. m \in Matches
  BY DEF Typed
<1>2. Typed(Started(m)) /\ Started(m).activeBattleDeclaration # None
  BY <1>1, StartedIs DEF Typed, Linked
<1>3. Typed(PerformBattleSpin(Started(m), at, o))
  BY <1>2, PerformSpinTyped
<1>4. Typed(Later(Grow(Started(m), d), "spin", at))
  BY <1>2, WheelLaterIs DEF Typed, Linked
<1> QED BY <1>1, <1>3, <1>4, ResolveIs

LEMMA ResolveOnce ==
  ASSUME NEW m, Typed(m), Once(m), m.activeBattleDeclaration # None,
         NEW at \in Nat, NEW d \in Nat, NEW o \in Outcomes
  PROVE  Once(ResolveBattle(m, at, d, o))
<1> DEFINE b == m.activeBattleDeclaration
           begun == Started(m)
           last == Later(Grow(begun, d), "spin", at)
<1>1. m \in Matches /\ m.len \in Nat /\ b \in Declarations
  BY DEF Typed, Matches
<1> SUFFICES ASSUME m.phase = "started", b.at = at, ~b.started,
                    ResolveBattle(m, at, d, o) \in {PerformBattleSpin(begun, at, o), last}
             PROVE  Once(ResolveBattle(m, at, d, o))
  BY <1>1, ResolveIs
<1>2. b.outcomes = 0 /\ b.at \in Nat /\ b.at < m.len
  BY <1>1 DEF Declarations, Once
<1>3. Rolls(m) = {} /\ m.pendingRespin = None
  BY DEF Once, Begun
<1>4. /\ begun \in Matches /\ begun.activeBattleDeclaration # None
      /\ begun.activeBattleDeclaration.at = at /\ begun.activeBattleDeclaration.started
      /\ begun.activeBattleDeclaration.outcomes = 0
      /\ begun.activeBattleResolution = m.activeBattleResolution
      /\ begun.timers = m.timers /\ begun.pendingRespin = None
      /\ begun.phase = "started" /\ begun.len = m.len
  <2>1. begun.activeBattleDeclaration = [b EXCEPT !.started = TRUE]
    BY <1>1, StartedIs
  <2>2. /\ begun.activeBattleDeclaration.at = at /\ begun.activeBattleDeclaration.started
        /\ begun.activeBattleDeclaration.outcomes = 0
    BY <1>1, <1>2, <2>1 DEF Declarations
  <2> QED BY <1>1, <1>3, <2>2, StartedIs
<1>5. Rolls(begun) = {} /\ Begun(begun)
  BY <1>3, <1>4 DEF Rolls, Begun
<1>6. \A t \in m.timers : t.step = "spin" => t.at \in Nat /\ t.at < m.len
  BY <1>1 DEF Once, Matches, Timers
<1>7. Typed(begun) /\ Once(begun)
  BY <1>1, <1>2, <1>4, <1>5, <1>6 DEF Typed, Linked, Once
<1>8. Once(PerformBattleSpin(begun, at, o))
  BY <1>4, <1>5, <1>7, PerformSpinOnce
<1>9. Once(last)
  <2> DEFINE w == [step |-> "spin", at |-> at, turns |-> begun.done]
  <2>1. /\ last.activeBattleDeclaration = begun.activeBattleDeclaration
        /\ last.timers = begun.timers \cup {w} /\ last.pendingRespin = None /\ last.len = m.len + d
    BY <1>4, WheelLaterIs
  <2>2. m.len + d >= m.len /\ m.len + d \in Nat
    BY <1>1
  <2> HIDE DEF begun, last, w
  <2>3. Rolls(last) \subseteq {w}
    BY <1>5, <2>1 DEF Rolls
  <2>4. \A t \in last.timers : t.step = "spin" => t.at < last.len
    BY <1>1, <1>2, <1>4, <1>6, <2>1, <2>2 DEF w
  <2>5. Begun(last)
    BY <1>4, <2>1 DEF Begun
  <2> QED BY <1>1, <1>2, <1>4, <2>1, <2>2, <2>3, <2>4, <2>5 DEF Once
<1> QED BY <1>8, <1>9

LEMMA RespinIs ==
  ASSUME NEW m, Typed(m), NEW o \in Outcomes, PerformPendingRespin(m, o) # m
  PROVE  m.pendingRespin # None /\ m.phase = "started" /\ m.len \in Nat
         /\ \E k : /\ Calm(m, k) /\ PerformPendingRespin(m, o) = FinishBattleSpin(k, m.len, o)
                   /\ k.pendingRespin # None
                   /\ k.human = m.human /\ k.timers = m.timers /\ k.done = m.done /\ k.turn = m.turn
                   /\ k.pendingGrudge = m.pendingGrudge /\ k.pendingJump = m.pendingJump
                   /\ k.pendingExtraBattle = m.pendingExtraBattle
<1> DEFINE g == Grow(m, 1)
           p == [m.pendingRespin EXCEPT !.spin = m.len]
           r == [spin |-> m.len, turnSide |-> m.activeBattleResolution.turnSide, phase |-> "pending", plan |-> None]
           a == [g EXCEPT !.pendingRespin = p]
           k == [a EXCEPT !.activeBattleResolution = r]
<1>1. m.pendingRespin # None /\ m.phase = "started"
  BY DEF PerformPendingRespin
<1>2. m \in Matches /\ m.activeBattleResolution # None
  BY <1>1 DEF Typed, Linked
<1>3. m.len \in Nat /\ m.activeBattleResolution \in Resolutions /\ m.pendingRespin \in Respins
  BY <1>1, <1>2 DEF Matches
<1>4. r \in Resolutions /\ p \in Respins /\ p # None
  <2>1. r \in Resolutions /\ p \in Respins
    BY <1>3 DEF Resolutions, Respins
  <2> QED BY <2>1, NoneAssumption
<1>5. PerformPendingRespin(m, o) = FinishBattleSpin(k, m.len, o)
  <2>1. [g EXCEPT !.pendingRespin.spin = m.len,
          !.activeBattleResolution = [spin |-> m.len, turnSide |-> @.turnSide, phase |-> "pending", plan |-> None]] = k
    BY <1>2 DEF Grow, Matches
  <2> HIDE DEF k
  <2> QED BY <2>1 DEF PerformPendingRespin
<1>6. /\ Calm(m, g) /\ g \in Matches /\ g.activeBattleResolution # None /\ g.pendingRespin = m.pendingRespin
      /\ g.human = m.human /\ g.timers = m.timers /\ g.done = m.done /\ g.turn = m.turn
      /\ g.pendingGrudge = m.pendingGrudge /\ g.pendingJump = m.pendingJump
      /\ g.pendingExtraBattle = m.pendingExtraBattle
  <2>1. Calm(m, g) /\ g \in Matches
    BY <1>2, GrowCalm DEF Calm
  <2>2. /\ g.activeBattleResolution # None /\ g.pendingRespin = m.pendingRespin
        /\ g.human = m.human /\ g.timers = m.timers /\ g.done = m.done /\ g.turn = m.turn
        /\ g.pendingGrudge = m.pendingGrudge /\ g.pendingJump = m.pendingJump
        /\ g.pendingExtraBattle = m.pendingExtraBattle
    BY <1>2 DEF Grow, Matches
  <2> QED BY <2>1, <2>2
<1> HIDE DEF g, p, r
<1>7. Calm(g, a)
  <2>1. a \in Matches
    BY <1>4, <1>6 DEF Matches
  <2>2. Mild(g, a)
    BY <1>1, <1>6 DEF Matches, Mild
  <2> QED BY <2>1, <2>2 DEF Calm
<1>8. a \in Matches /\ a.activeBattleResolution # None
  BY <1>6, <1>7 DEF Calm, Mild
<1>11. /\ a.pendingRespin = p /\ a.human = g.human /\ a.timers = g.timers /\ a.done = g.done /\ a.turn = g.turn
       /\ a.pendingGrudge = g.pendingGrudge /\ a.pendingJump = g.pendingJump
       /\ a.pendingExtraBattle = g.pendingExtraBattle
  BY <1>6 DEF Matches
<1> HIDE DEF a
<1>9. Calm(a, k)
  BY <1>4, <1>8, SetResolution
<1>12. /\ k.pendingRespin = a.pendingRespin
       /\ k.human = a.human /\ k.timers = a.timers /\ k.done = a.done /\ k.turn = a.turn
       /\ k.pendingGrudge = a.pendingGrudge /\ k.pendingJump = a.pendingJump
       /\ k.pendingExtraBattle = a.pendingExtraBattle
  BY <1>8 DEF Matches
<1> HIDE DEF k
<1>10. Calm(m, k)
  BY <1>2, <1>6, <1>7, <1>8, <1>9, CalmTrans
<1> QED BY <1>1, <1>3, <1>4, <1>5, <1>6, <1>10, <1>11, <1>12

LEMMA RespinTyped ==
  ASSUME NEW m, Typed(m), NEW o \in Outcomes
  PROVE  Typed(PerformPendingRespin(m, o))
BY RespinIs, CalmTyped, FinishSpinTyped

LEMMA RespinOnce ==
  ASSUME NEW m, Typed(m), Once(m), NEW o \in Outcomes, o.wheels = 0
  PROVE  Once(PerformPendingRespin(m, o))
<1> SUFFICES ASSUME PerformPendingRespin(m, o) # m PROVE Once(PerformPendingRespin(m, o))
  OBVIOUS
<1>1. m.pendingRespin # None /\ m.phase = "started" /\ m.len \in Nat
  BY RespinIs
<1>2. PICK k : Calm(m, k) /\ PerformPendingRespin(m, o) = FinishBattleSpin(k, m.len, o)
  BY RespinIs
<1>3. Typed(k) /\ Once(k)
  BY <1>2, CalmTyped, CalmOnce
<1>4. Rolls(m) = {} /\ Begun(m)
  BY <1>1 DEF Once
<1>5. Rolls(k) = {} /\ Begun(k)
  BY <1>2, <1>4 DEF Calm, Mild, Rolls, Begun
<1> QED BY <1>1, <1>2, <1>3, <1>5, FinishSpinOnce

-----------------------------------------------------------------------------
LEMMA PausedIs ==
  ASSUME match \in Matches, NEW pause \in Pauses
  PROVE  /\ Calm(match, Paused(match, pause)) /\ Paused(match, pause) \in Matches
         /\ Paused(match, pause).len = match.len
         /\ Paused(match, pause).turn = match.turn
         /\ Paused(match, pause).pendingRespin = match.pendingRespin
         /\ Paused(match, pause).pendingGrudge = match.pendingGrudge
         /\ Paused(match, pause).pendingJump = match.pendingJump
         /\ Paused(match, pause).pendingExtraBattle = match.pendingExtraBattle
         /\ Paused(match, pause).activeBattleResolution = match.activeBattleResolution
         /\ Paused(match, pause).phase = "started" => Paused(match, pause) = match
<1>1. Calm(match, Paused(match, pause))
  BY CalmSame, FinishCalm DEF Paused
<1>2. CASE pause = "runs"
  BY <1>1, <1>2 DEF Paused
<1>3. CASE pause # "runs"
  <2>1. Paused(match, pause) = Finish(match)
    BY <1>3 DEF Paused
  <2>2. /\ Finish(match).len = match.len /\ Finish(match).turn = match.turn
        /\ Finish(match).pendingRespin = match.pendingRespin
        /\ Finish(match).pendingGrudge = match.pendingGrudge
        /\ Finish(match).pendingJump = match.pendingJump
        /\ Finish(match).pendingExtraBattle = match.pendingExtraBattle
        /\ Finish(match).activeBattleResolution = match.activeBattleResolution
        /\ Finish(match).phase = "decided"
    BY DEF Finish, Matches
  <2> QED BY <1>1, <2>1, <2>2 DEF Calm
<1> QED BY <1>2, <1>3

LEMMA AcceptedCalm ==
  ASSUME match \in Matches, NEW pause, NEW next, Calm(match, next), Accepted(pause, next)
  PROVE  Calm(match, match')
BY FinishCalm DEF Accepted

\* What one step may do to the battle in hand.
Shape(m, n) ==
  \/ Calm(m, n)
  \/ NewBattle(m, n)
  \/ /\ m.pendingRespin # None
     /\ \E k \in Matches, spin \in Nat, o \in Outcomes :
          Calm(m, k) /\ o.wheels <= WheelsAfterRespin /\ n = FinishBattleSpin(k, spin, o)

LEMMA MoveShape ==
  ASSUME match \in Matches, NEW side \in Sides, NEW type \in Enders, NEW b \in MoveOpenings,
         NEW pause \in Pauses, Move(side, type, b, pause)
  PROVE  Calm(match, match')
<1> DEFINE m == Paused(match, pause)
<1>1. Calm(match, m) /\ m \in Matches
  BY PausedIs
<1>2. Accepted(pause, Moved(m, side, type, b))
  BY DEF Move
<1> HIDE DEF m
<1>3. Calm(match, Moved(m, side, type, b))
  BY <1>1, MovedCalm, CalmTrans
<1> QED BY <1>2, <1>3, AcceptedCalm

LEMMA PlateShape ==
  ASSUME match \in Matches, NEW side \in Sides, NEW plate \in {"select", "respin"},
         NEW pause \in Pauses, SelectByPlate(side, plate, pause)
  PROVE  Calm(match, match')
<1> DEFINE m == Paused(match, pause)
           g == Grow(m, 1)
           n == [g EXCEPT !.pendingPlate = plate]
<1>1. Calm(match, m) /\ m \in Matches
  BY PausedIs
<1>2. Accepted(pause, n)
  BY DEF SelectByPlate
<1> HIDE DEF m
<1>3. Calm(match, g) /\ g \in Matches
  BY <1>1, GrowCalm, CalmTrans DEF Calm
<1> HIDE DEF g
<1>4. Calm(g, n)
  <2>1. plate \in Plates
    BY DEF Plates
  <2>2. n \in Matches
    BY <1>3, <2>1 DEF Matches
  <2>3. Mild(g, n)
    BY <1>3 DEF Matches, Mild
  <2> QED BY <2>2, <2>3 DEF Calm
<1> HIDE DEF n
<1> QED BY <1>2, <1>3, <1>4, CalmTrans, AcceptedCalm

LEMMA ClearTouch ==
  ASSUME NEW m \in Matches
  PROVE  /\ Calm(m, [m EXCEPT !.pendingTouch = FALSE])
         /\ [m EXCEPT !.pendingTouch = FALSE].pendingRespin = m.pendingRespin
<1>1. [m EXCEPT !.pendingTouch = FALSE] \in Matches
  BY DEF Matches
<1>2. /\ Mild(m, [m EXCEPT !.pendingTouch = FALSE])
      /\ [m EXCEPT !.pendingTouch = FALSE].pendingRespin = m.pendingRespin
  BY DEF Matches, Mild
<1> QED BY <1>1, <1>2 DEF Calm

LEMMA DeclareShape ==
  ASSUME match \in Matches, NEW side \in Sides, NEW cancelled \in BOOLEAN,
         NEW pause \in Pauses, DeclareBattle(side, cancelled, pause)
  PROVE  Calm(match, match') \/ NewBattle(match, match')
<1> DEFINE m == Paused(match, pause)
           g == Grow(m, 1)
           k == [g EXCEPT !.pendingTouch = FALSE]
           d == Declared(k, side, m.len)
           ended == OpponentLater(CompleteTurn(Grow(m, 1), side, Plan(m, m.len, 1)))
<1>1. Calm(match, m) /\ m \in Matches /\ m.len = match.len /\ m.pendingRespin = match.pendingRespin
  BY PausedIs
<1>2. Accepted(pause, IF cancelled THEN ended ELSE Owing(d)) /\ match.pendingRespin = None
  BY DEF DeclareBattle, MayDeclare, NoChoicePending
<1> HIDE DEF m
<1>3. Calm(match, ended)
  BY <1>1, EndedCalm, CalmTrans
<1> HIDE DEF ended
<1>4. Calm(m, g) /\ g \in Matches /\ g.len = m.len + 1 /\ m.len \in Nat /\ g.pendingRespin = m.pendingRespin
  <2>1. Calm(m, g) /\ g \in Matches
    BY <1>1, GrowCalm DEF Calm
  <2>2. g.len = m.len + 1 /\ m.len \in Nat /\ g.pendingRespin = m.pendingRespin
    BY <1>1 DEF Grow, Matches
  <2> QED BY <2>1, <2>2
<1> HIDE DEF g
<1>5. Calm(g, k) /\ k.pendingRespin = g.pendingRespin
  BY <1>4, ClearTouch
<1> HIDE DEF k
<1>6. Calm(match, k) /\ k \in Matches /\ k.len > match.len /\ k.pendingRespin = None
  <2>1. Calm(match, k) /\ k \in Matches
    BY <1>1, <1>4, <1>5, CalmTrans DEF Calm
  <2>2. k.len \in Nat /\ k.len >= g.len
    BY <1>5, <2>1 DEF Calm, Mild, Matches
  <2> QED BY <1>1, <1>2, <1>4, <1>5, <2>1, <2>2
<1>7. d \in Matches
  BY <1>4, <1>6, DeclaredIs
<1>8. NewBattle(match, Owing(d))
  <2>1. Calm(Declared(k, side, match.len), Owing(d))
    BY <1>1, <1>7, OwingCalm
  <2> QED BY <1>6, <2>1 DEF NewBattle
<1> HIDE DEF d
<1>9. CASE cancelled \/ pause = "out"
  BY <1>2, <1>3, <1>9, AcceptedCalm, FinishCalm DEF Accepted
<1>10. CASE ~(cancelled \/ pause = "out")
  BY <1>2, <1>8, <1>10 DEF Accepted
<1> QED BY <1>9, <1>10

LEMMA EndShape ==
  ASSUME match \in Matches, NEW side \in Sides, NEW pause \in Pauses, EndsTurn(side, pause)
  PROVE  Calm(match, match')
<1> DEFINE m == Paused(match, pause)
           ended == OpponentLater(CompleteTurn(Grow(m, 1), side, Plan(m, m.len, 1)))
<1>1. Calm(match, m) /\ m \in Matches
  BY PausedIs
<1>2. Accepted(pause, ended)
  BY DEF EndsTurn
<1> HIDE DEF m
<1>3. Calm(match, ended)
  BY <1>1, EndedCalm, CalmTrans
<1> QED BY <1>2, <1>3, AcceptedCalm

LEMMA DeclareRespinShape ==
  ASSUME match \in Matches, NEW side \in Sides, NEW pause \in Pauses, DeclareRespin(side, pause)
  PROVE  Calm(match, match')
<1> DEFINE m == Paused(match, pause)
           g == Grow(m, 1)
           p == [g.pendingRespin EXCEPT !.declared = TRUE]
           n == [g EXCEPT !.pendingRespin = p]
           o == Later(n, "respin", 0)
<1>1. Calm(match, m) /\ m \in Matches /\ m.pendingRespin = match.pendingRespin
  BY PausedIs
<1>2. match.pendingRespin # None /\ Accepted(pause, Owing(Later([g EXCEPT !.pendingRespin.declared = TRUE], "respin", 0)))
  BY DEF DeclareRespin, ChoosesRespin
<1> HIDE DEF m
<1>3. Calm(match, g) /\ g \in Matches /\ g.pendingRespin = match.pendingRespin
  <2>1. Calm(match, g) /\ g \in Matches
    BY <1>1, GrowCalm, CalmTrans DEF Calm
  <2>2. g.pendingRespin = m.pendingRespin
    BY <1>1 DEF Grow, Matches
  <2> QED BY <1>1, <2>1, <2>2
<1> HIDE DEF g
<1>4. p \in Respins
  <2>1. g.pendingRespin \in Respins
    BY <1>2, <1>3 DEF Matches
  <2> QED BY <2>1 DEF Respins
<1>5. [g EXCEPT !.pendingRespin.declared = TRUE] = n
  BY <1>3 DEF Matches
<1>6. Calm(g, n)
  <2> HIDE DEF p
  <2>1. n \in Matches
    BY <1>3, <1>4 DEF Matches
  <2>2. Mild(g, n)
    BY <1>2, <1>3 DEF Matches, Mild
  <2> QED BY <2>1, <2>2 DEF Calm
<1>7. Accepted(pause, Owing(o))
  BY <1>2, <1>5
<1> HIDE DEF n
<1>8. Calm(match, o) /\ o \in Matches
  BY <1>3, <1>6, LaterCalm, CalmTrans DEF Calm, Steps
<1> HIDE DEF o
<1> QED BY <1>7, <1>8, OwingCalm, CalmTrans, AcceptedCalm

LEMMA DeclineRespinShape ==
  ASSUME match \in Matches, NEW side \in Sides, NEW o \in Outcomes, NEW pause \in Pauses,
         DeclineRespin(side, o, pause)
  PROVE  Shape(match, match')
<1> DEFINE m == Paused(match, pause)
           k == Grow(m, 1)
<1>1. Calm(match, m) /\ m \in Matches
  BY PausedIs
<1>2. /\ match.pendingRespin # None /\ o.wheels <= WheelsAfterRespin
      /\ Accepted(pause, FinishBattleSpin(k, match.pendingRespin.spin, o))
  BY DEF DeclineRespin, ChoosesRespin
<1> HIDE DEF m
<1>3. Calm(match, k)
  BY <1>1, GrowCalm, CalmTrans
<1>4. match.pendingRespin.spin \in Nat
  BY <1>2 DEF Matches, Respins
<1>5. CASE pause = "out"
  BY <1>2, <1>5, FinishCalm DEF Accepted, Shape
<1>6. CASE pause # "out"
  <2>1. match' = FinishBattleSpin(k, match.pendingRespin.spin, o)
    BY <1>2, <1>6 DEF Accepted
  <2> DEFINE spin == match.pendingRespin.spin
  <2>2. \E i \in Matches, s \in Nat, r \in Outcomes :
          Calm(match, i) /\ r.wheels <= WheelsAfterRespin /\ match' = FinishBattleSpin(i, s, r)
    <3> HIDE DEF k, spin
    <3>1. spin \in Nat /\ k \in Matches /\ Calm(match, k) /\ o.wheels <= WheelsAfterRespin /\ match' = FinishBattleSpin(k, spin, o)
      BY <1>2, <1>3, <1>4, <2>1 DEF spin, Calm
    <3> QED BY <3>1, Zenon
  <2> QED BY <1>2, <2>2 DEF Shape
<1> QED BY <1>5, <1>6

LEMMA ContinueWithdraws ==
  ASSUME NEW m \in Matches, NEW spin, CurrentBattleResolution(m, spin, "applying"),
         Fits(m, m.activeBattleResolution.plan)
  PROVE  CompleteBattleResolution(m, spin, FALSE).pendingRespin = None
<1> DEFINE settled == [m EXCEPT !.activeBattleResolution.phase = "completed"]
           going == [settled EXCEPT !.pendingPlate = "none", !.pendingRespin = None, !.pendingJump = None,
                       !.pendingExtraBattle = None, !.pendingBattles = "none", !.battleResolutionPending = FALSE]
<1>1. CompleteBattleResolution(m, spin, FALSE) = going
  BY DEF CompleteBattleResolution
<1>2. settled \in Matches
  BY SettleCalm DEF Calm, CurrentBattleResolution
<1> HIDE DEF settled
<1>3. going.pendingRespin = None
  BY <1>2 DEF Matches
<1> QED BY <1>1, <1>3

LEMMA UseExtra ==
  ASSUME NEW m \in Matches
  PROVE  /\ Calm(m, [m EXCEPT !.extraBattle = "used"])
         /\ [m EXCEPT !.extraBattle = "used"].pendingRespin = m.pendingRespin
<1>1. [m EXCEPT !.extraBattle = "used"] \in Matches
  BY DEF Matches, Extras
<1>2. /\ Mild(m, [m EXCEPT !.extraBattle = "used"])
      /\ [m EXCEPT !.extraBattle = "used"].pendingRespin = m.pendingRespin
  BY DEF Matches, Mild
<1> QED BY <1>1, <1>2 DEF Calm

LEMMA ExtraTakenShape ==
  ASSUME NEW m \in Matches, NEW fights \in BOOLEAN,
         m.pendingExtraBattle # None, m.activeBattleResolution # None,
         m.phase = "started" => /\ CurrentBattleResolution(m, m.pendingExtraBattle.spin, "applying")
                                /\ Fits(m, Plan(m, m.pendingExtraBattle.spin, 1))
  PROVE  /\ ExtraBattleTaken(m, fights) \in Matches
         /\ Calm(m, ExtraBattleTaken(m, fights)) \/ NewBattle(m, ExtraBattleTaken(m, fights))
<1> DEFINE p == m.pendingExtraBattle
           plan == Plan(m, p.spin, 1)
           grown == Grow(m, 1)
           taken == [grown EXCEPT !.activeBattleResolution.plan = plan]
           over == CompleteBattleResolution(taken, p.spin, TRUE)
           on == CompleteBattleResolution(taken, p.spin, FALSE)
           k == [on EXCEPT !.extraBattle = "used"]
           d == Declared(k, m.turn, m.len)
<1>1. p \in ExtraBattles /\ p.spin \in Nat /\ m.len \in Nat /\ m.turn \in Sides
  BY DEF Matches, ExtraBattles
<1>2. plan \in Plans
  BY <1>1, PlanType
<1>3. ExtraBattleTaken(m, fights) = IF fights THEN Owing(d) ELSE over
  BY DEF ExtraBattleTaken
<1>4. /\ Calm(m, grown) /\ grown \in Matches
      /\ grown.len = m.len + 1 /\ grown.phase = m.phase /\ grown.turn = m.turn /\ grown.done = m.done
      /\ grown.cut = m.cut /\ grown.activeBattleResolution = m.activeBattleResolution
  <2>1. Calm(m, grown) /\ grown \in Matches
    BY GrowCalm DEF Calm
  <2>2. /\ grown.len = m.len + 1 /\ grown.phase = m.phase /\ grown.turn = m.turn /\ grown.done = m.done
        /\ grown.cut = m.cut /\ grown.activeBattleResolution = m.activeBattleResolution
    BY DEF Grow, Matches
  <2> QED BY <2>1, <2>2
<1> HIDE DEF plan, grown
<1>5. Calm(grown, taken) /\ taken \in Matches
  BY <1>2, <1>4, RebindCalm DEF Calm
<1>6. m.phase = "started" => CurrentBattleResolution(taken, p.spin, "applying")
                             /\ Fits(taken, taken.activeBattleResolution.plan)
  <2> SUFFICES ASSUME m.phase = "started"
               PROVE  CurrentBattleResolution(taken, p.spin, "applying")
                      /\ Fits(taken, taken.activeBattleResolution.plan)
    OBVIOUS
  <2>1. CurrentBattleResolution(m, p.spin, "applying") /\ Fits(m, plan)
    BY DEF plan
  <2>2. /\ taken.phase = m.phase /\ taken.turn = m.turn /\ taken.done = m.done /\ taken.cut = m.cut
        /\ taken.activeBattleResolution = [m.activeBattleResolution EXCEPT !.plan = plan]
    BY <1>4 DEF Matches
  <2>3. taken.activeBattleResolution # None
    BY <1>4, <1>5 DEF Calm, Mild
  <2> HIDE DEF taken
  <2>4. m.activeBattleResolution \in Resolutions
    BY DEF Matches
  <2>5. /\ taken.activeBattleResolution.plan = plan
        /\ taken.activeBattleResolution.phase = m.activeBattleResolution.phase
        /\ taken.activeBattleResolution.spin = m.activeBattleResolution.spin
        /\ taken.activeBattleResolution.turnSide = m.activeBattleResolution.turnSide
    BY <2>2, <2>4 DEF Resolutions
  <2> QED BY <2>1, <2>2, <2>3, <2>5 DEF CurrentBattleResolution, Fits
<1> HIDE DEF taken
<1>7. Calm(m, taken) /\ taken.len >= grown.len
  BY <1>4, <1>5, CalmTrans DEF Calm, Mild
<1>8. Calm(m, over) /\ Calm(taken, on) /\ on \in Matches
  <2>1. Calm(taken, over) /\ Calm(taken, on)
    BY <1>5, CompleteBattleCalm
  <2>2. Calm(m, over)
    BY <1>5, <1>7, <2>1, CalmTrans
  <2> QED BY <2>1, <2>2 DEF Calm
<1>9. m.phase = "started" => on.pendingRespin = None
  BY <1>5, <1>6, ContinueWithdraws
<1> HIDE DEF over, on
<1>10. Calm(on, k) /\ k \in Matches /\ k.pendingRespin = on.pendingRespin
  BY <1>8, UseExtra DEF Calm
<1> HIDE DEF k
<1>11. Calm(m, k)
  BY <1>7, <1>8, <1>10, CalmTrans
<1>12. k.len > m.len
  <2>1. k.len \in Nat /\ on.len \in Nat /\ taken.len \in Nat /\ k.len >= on.len /\ on.len >= taken.len
    BY <1>5, <1>8, <1>10 DEF Calm, Mild, Matches
  <2> QED BY <1>1, <1>4, <1>7, <2>1
<1>13. k.phase = "started" => k.pendingRespin = None
  BY <1>9, <1>10, <1>11 DEF Calm, Mild
<1>14. d \in Matches
  BY <1>1, <1>10, DeclaredIs
<1>15. Calm(d, Owing(d))
  BY <1>14, OwingCalm
<1>16. NewBattle(m, Owing(d))
  BY <1>1, <1>10, <1>11, <1>12, <1>13, <1>15 DEF NewBattle
<1> QED BY <1>3, <1>8, <1>15, <1>16 DEF Calm

LEMMA ShapeAfter ==
  ASSUME NEW m \in Matches, NEW k \in Matches, NEW n, Calm(m, k), k.len = m.len,
         Calm(k, n) \/ NewBattle(k, n)
  PROVE  Calm(m, n) \/ NewBattle(m, n)
<1>1. CASE Calm(k, n)
  BY <1>1, CalmTrans
<1>2. CASE NewBattle(k, n)
  <2>1. PICK l \in Matches, side \in Sides :
          /\ Calm(k, l) /\ l.len > k.len
          /\ l.phase = "started" => l.pendingRespin = None
          /\ Calm(Declared(l, side, k.len), n)
    BY <1>2 DEF NewBattle
  <2>2. Calm(m, l)
    BY <2>1, CalmTrans
  <2> QED BY <2>1, <2>2 DEF NewBattle
<1> QED BY <1>1, <1>2

LEMMA GrudgeShape ==
  ASSUME match \in Matches, NEW side \in Sides, NEW pause \in Pauses, ChooseGrudge(side, pause)
  PROVE  Calm(match, match')
<1> DEFINE m == Paused(match, pause)
<1>1. Calm(match, m) /\ m \in Matches /\ m.pendingGrudge = match.pendingGrudge
  BY PausedIs
<1>2. match.pendingGrudge # None /\ Accepted(pause, GrudgeChosen(m))
  BY DEF ChooseGrudge, ChoosesGrudge
<1> HIDE DEF m
<1>3. Calm(match, GrudgeChosen(m))
  BY <1>1, <1>2, GrudgeChosenCalm, CalmTrans
<1> QED BY <1>2, <1>3, AcceptedCalm

LEMMA JumpShape ==
  ASSUME match \in Matches, NEW side \in Sides, NEW n \in 0..1, NEW goal \in BOOLEAN,
         NEW pause \in Pauses, LandJump(side, n, goal, pause)
  PROVE  Calm(match, match')
<1> DEFINE m == Paused(match, pause)
<1>1. /\ Calm(match, m) /\ m \in Matches /\ m.pendingJump = match.pendingJump
      /\ m.activeBattleResolution = match.activeBattleResolution
  BY PausedIs
<1>2. /\ match.pendingJump # None /\ match.activeBattleResolution # None
      /\ Accepted(pause, JumpLanded(m, n, goal))
  BY DEF LandJump, LandsJump, CurrentBattleResolution
<1> HIDE DEF m
<1>3. Calm(match, JumpLanded(m, n, goal))
  BY <1>1, <1>2, JumpLandedCalm, CalmTrans
<1> QED BY <1>2, <1>3, AcceptedCalm

LEMMA ExtraShape ==
  ASSUME match \in Matches, NEW side \in Sides, NEW reserve, NEW fights \in BOOLEAN,
         NEW pause \in Pauses, TakesExtraBattle(match, side, reserve),
         Accepted(pause, ExtraBattleTaken(Paused(match, pause), fights))
  PROVE  Calm(match, match') \/ NewBattle(match, match')
<1> DEFINE m == Paused(match, pause)
<1>1. /\ Calm(match, m) /\ m \in Matches /\ m.pendingExtraBattle = match.pendingExtraBattle
      /\ m.activeBattleResolution = match.activeBattleResolution /\ m.len = match.len
      /\ m.phase = "started" => m = match
  BY PausedIs
<1>2. /\ match.pendingExtraBattle # None /\ match.activeBattleResolution # None
      /\ CurrentBattleResolution(match, match.pendingExtraBattle.spin, "applying")
      /\ Fits(match, Plan(match, match.pendingExtraBattle.spin, 1))
  BY DEF TakesExtraBattle, CurrentBattleResolution
<1>3. Accepted(pause, ExtraBattleTaken(m, fights))
  OBVIOUS
<1> HIDE DEF m
<1>4. Calm(m, ExtraBattleTaken(m, fights)) \/ NewBattle(m, ExtraBattleTaken(m, fights))
  BY <1>1, <1>2, ExtraTakenShape
<1>5. Calm(match, ExtraBattleTaken(m, fights)) \/ NewBattle(match, ExtraBattleTaken(m, fights))
  BY <1>1, <1>4, ShapeAfter
<1> QED BY <1>3, <1>5, FinishCalm DEF Accepted

\* What a client can do: three moves end a turn in the same way.
LEMMA PlaysAre ==
  ASSUME NEW side, Plays(side)
  PROVE  \E pause \in Pauses :
          \/ \E type \in Enders, b \in MoveOpenings : Move(side, type, b, pause)
          \/ \E plate \in {"select", "respin"} : SelectByPlate(side, plate, pause)
          \/ \E cancelled \in BOOLEAN : DeclareBattle(side, cancelled, pause)
          \/ MayEndTurn(match, side) /\ EndsTurn(side, pause)
          \/ DeclareRespin(side, pause)
          \/ \E o \in Outcomes : DeclineRespin(side, o, pause)
          \/ ChooseGrudge(side, pause)
          \/ \E n \in 0..1, goal \in BOOLEAN : LandJump(side, n, goal, pause)
          \/ \E fights \in BOOLEAN, reserve \in {52, 64} : /\ TakesExtraBattle(match, side, reserve)
                                             /\ Accepted(pause, ExtraBattleTaken(Paused(match, pause), fights))
<1>1. \A pause : Decline(side, pause) \/ DeclareTurnEnd(side, pause) \/ Touch(side, pause) =>
        MayEndTurn(match, side) /\ EndsTurn(side, pause)
  BY DEF Decline, DeclareTurnEnd, Touch, MayDecline, MayDeclareTurnEnd, MayTouch
<1>2. \A pause, fights : TakeExtraBattle(side, fights, pause) =>
        TakesExtraBattle(match, side, 52) /\ Accepted(pause, ExtraBattleTaken(Paused(match, pause), fights))
  BY DEF TakeExtraBattle
<1>3. \A pause : DeclineExtraBattle(side, pause) =>
        TakesExtraBattle(match, side, 64) /\ Accepted(pause, ExtraBattleTaken(Paused(match, pause), FALSE))
  BY DEF DeclineExtraBattle
<1> QED BY <1>1, <1>2, <1>3, Zenon DEF Plays

LEMMA PlaysShape ==
  ASSUME match \in Matches, NEW side \in Sides, Plays(side)
  PROVE  Shape(match, match')
<1>1. PICK pause \in Pauses :
        \/ \E type \in Enders, b \in MoveOpenings : Move(side, type, b, pause)
        \/ \E plate \in {"select", "respin"} : SelectByPlate(side, plate, pause)
        \/ \E cancelled \in BOOLEAN : DeclareBattle(side, cancelled, pause)
        \/ MayEndTurn(match, side) /\ EndsTurn(side, pause)
        \/ DeclareRespin(side, pause)
        \/ \E o \in Outcomes : DeclineRespin(side, o, pause)
        \/ ChooseGrudge(side, pause)
        \/ \E n \in 0..1, goal \in BOOLEAN : LandJump(side, n, goal, pause)
        \/ \E fights \in BOOLEAN, reserve \in {52, 64} : /\ TakesExtraBattle(match, side, reserve)
                                           /\ Accepted(pause, ExtraBattleTaken(Paused(match, pause), fights))
  BY PlaysAre
<1>2. CASE \E type \in Enders, b \in MoveOpenings : Move(side, type, b, pause)
  BY <1>2, MoveShape DEF Shape
<1>3. CASE \E plate \in {"select", "respin"} : SelectByPlate(side, plate, pause)
  BY <1>3, PlateShape DEF Shape
<1>4. CASE \E cancelled \in BOOLEAN : DeclareBattle(side, cancelled, pause)
  BY <1>4, DeclareShape DEF Shape
<1>5. CASE MayEndTurn(match, side) /\ EndsTurn(side, pause)
  BY <1>5, EndShape DEF Shape
<1>6. CASE DeclareRespin(side, pause)
  BY <1>6, DeclareRespinShape DEF Shape
<1>7. CASE \E o \in Outcomes : DeclineRespin(side, o, pause)
  BY <1>7, DeclineRespinShape
<1>8. CASE ChooseGrudge(side, pause)
  BY <1>8, GrudgeShape DEF Shape
<1>9. CASE \E n \in 0..1, goal \in BOOLEAN : LandJump(side, n, goal, pause)
  BY <1>9, JumpShape DEF Shape
<1>10. CASE \E fights \in BOOLEAN, reserve \in {52, 64} : /\ TakesExtraBattle(match, side, reserve)
                                            /\ Accepted(pause, ExtraBattleTaken(Paused(match, pause), fights))
  BY <1>10, ExtraShape DEF Shape
<1> QED BY <1>1, <1>2, <1>3, <1>4, <1>5, <1>6, <1>7, <1>8, <1>9, <1>10

\* playOpponentTurn.
LEMMA PlayOpponentShape ==
  ASSUME NEW m \in Matches, NEW choice, NEW b \in MoveOpenings
  PROVE  LET n == PlayOpponentTurn(m, choice, b)
         IN n \in Matches /\ (Calm(m, n) \/ NewBattle(m, n))
<1> DEFINE n == PlayOpponentTurn(m, choice, b)
           g == Grow(m, 1)
           plan == Plan(m, m.len, 1)
           ended == CompleteTurn(g, "white", plan)
           opened == [g EXCEPT !.pendingBattles = b.battles, !.pendingTouch = b.touch]
           staged == StagePendingGrudge(g, "white", "mp_move", m.len)
           d == Declared(g, "white", m.len)
<1>1. /\ Calm(m, g) /\ g \in Matches /\ m.len \in Nat /\ g.len = m.len + 1
      /\ g.pendingRespin = m.pendingRespin /\ "white" \in Sides /\ "mp_move" \in Enders
  <2>1. Calm(m, g) /\ g \in Matches
    BY GrowCalm DEF Calm
  <2>2. m.len \in Nat /\ g.len = m.len + 1 /\ g.pendingRespin = m.pendingRespin
    BY DEF Grow, Matches
  <2> QED BY <2>1, <2>2 DEF Sides, Enders
<1>2. plan \in Plans /\ b.battles \in Battles /\ b.touch \in BOOLEAN
  BY <1>1, PlanType DEF MoveOpenings, Openings
<1>3. \/ n \in {m, OpponentLater(ended), Finish(m), ended, Finish(g), staged, OpponentLater(opened)}
      \/ n = d /\ m.pendingRespin = None
  BY DEF PlayOpponentTurn
<1> HIDE DEF n, g, plan
<1>4. Calm(m, ended) /\ ended \in Matches
  BY <1>1, <1>2, CompleteTurnCalm, CalmTrans DEF Calm
<1>5. Calm(m, staged)
  BY <1>1, StageGrudgeCalm, CalmTrans
<1>6. Calm(m, opened) /\ opened \in Matches
  <2>1. Calm(g, opened)
    BY <1>1, <1>2, OpenMove
  <2> QED BY <1>1, <2>1, CalmTrans DEF Calm
<1> HIDE DEF ended, staged, opened
<1>7. Calm(m, OpponentLater(ended))
  BY <1>4, OpponentLaterCalm, CalmTrans
<1>8. Calm(m, OpponentLater(opened))
  BY <1>6, OpponentLaterCalm, CalmTrans
<1>9. Calm(m, Finish(m)) /\ Calm(m, Finish(g)) /\ Calm(m, m)
  BY <1>1, FinishCalm, CalmSame, CalmTrans
<1>10. d \in Matches
  BY <1>1, DeclaredIs
<1>11. m.pendingRespin = None => NewBattle(m, d)
  <2>1. Calm(d, d) /\ g.len > m.len
    BY <1>1, <1>10, CalmSame
  <2> QED BY <1>1, <2>1 DEF NewBattle
<1> HIDE DEF d
<1>12. n \in Matches /\ (Calm(m, n) \/ NewBattle(m, n))
  BY <1>3, <1>4, <1>5, <1>7, <1>8, <1>9, <1>10, <1>11 DEF Calm
<1> QED BY <1>12 DEF n

LEMMA WithoutIs ==
  ASSUME match \in Matches, NEW t \in match.timers
  PROVE  /\ Without(t) \in Matches
         /\ t \in Timers /\ t.at \in Nat /\ t.step \in Steps
         /\ Without(t).len = match.len /\ Without(t).timers = match.timers \ {t}
         /\ Without(t).activeBattleDeclaration = match.activeBattleDeclaration
         /\ Without(t).pendingRespin = match.pendingRespin
         /\ Without(t).activeBattleResolution = match.activeBattleResolution
         /\ Without(t).phase = match.phase /\ Without(t).late = match.late
<1>1. Without(t) \in Matches
  BY DEF Without, Matches
<1>3. t \in Timers
  BY DEF Matches
<1>4. t.at \in Nat /\ t.step \in Steps
  BY <1>3 DEF Timers
<1>5. /\ Without(t).len = match.len /\ Without(t).timers = match.timers \ {t}
      /\ Without(t).activeBattleDeclaration = match.activeBattleDeclaration
      /\ Without(t).pendingRespin = match.pendingRespin
      /\ Without(t).activeBattleResolution = match.activeBattleResolution
      /\ Without(t).phase = match.phase /\ Without(t).late = match.late
  BY DEF Without, Matches
<1> QED BY <1>1, <1>3, <1>4, <1>5

LEMMA WithoutTyped ==
  ASSUME Typed(match), NEW t \in match.timers
  PROVE  Typed(Without(t))
<1>1. match \in Matches
  BY DEF Typed
<1> QED BY <1>1, WithoutIs DEF Typed, Linked

LEMMA WithoutOnce ==
  ASSUME Typed(match), Once(match), NEW t \in match.timers
  PROVE  Once(Without(t))
<1> DEFINE w == Without(t)
<1>1. /\ w.len = match.len /\ w.timers = match.timers \ {t}
      /\ w.activeBattleDeclaration = match.activeBattleDeclaration
      /\ w.pendingRespin = match.pendingRespin /\ w.phase = match.phase
  BY WithoutIs DEF Typed
<1> HIDE DEF w
<1>2. Rolls(w) \subseteq Rolls(match) /\ (Begun(w) <=> Begun(match))
  BY <1>1 DEF Rolls, Begun
<1>3. Once(w)
  BY <1>1, <1>2 DEF Once
<1> QED BY <1>3 DEF w

\* What one callback may do to the battle in hand.
TimerShape(t) ==
  \/ Calm(Without(t), match')
  \/ NewBattle(Without(t), match')
  \/ t.step = "resolve" /\ \E d \in 0..2, o \in Outcomes : match' = ResolveBattle(Without(t), t.at, d, o)
  \/ t.step = "spin" /\ \E o \in Outcomes : match' = PerformBattleSpin(Without(t), t.at, o)
  \/ \E o \in Outcomes : o.wheels <= WheelsAfterRespin /\ match' = PerformPendingRespin(Without(t), o)

LEMMA FiresShape ==
  ASSUME match \in Matches, NEW t \in match.timers, Fires(t)
  PROVE  TimerShape(t)
<1> DEFINE w == Without(t)
<1>1. w \in Matches /\ t.step \in Steps
  BY WithoutIs
<1>2. CASE t.step \in {"resolve", "spin", "respin"}
  <2>1. t.step = "resolve" => \E d \in 0..2, o \in Outcomes : match' = ResolveBattle(w, t.at, d, o)
    BY DEF Fires, Results, Resolve
  <2>2. t.step = "spin" => \E o \in Outcomes : match' = PerformBattleSpin(w, t.at, o)
    BY DEF Fires, Results, Spin
  <2>3. t.step = "respin" => \E o \in Outcomes :
          o.wheels <= WheelsAfterRespin /\ match' = PerformPendingRespin(w, o)
    BY DEF Fires, Results, Respin
  <2> QED BY <1>2, <2>1, <2>2, <2>3 DEF TimerShape
<1>3. CASE t.step = "secondary"
  <2>1. match' = PerformSecondarySpins(w, t.at)
    BY <1>3 DEF Fires, Results, Secondary
  <2> HIDE DEF w
  <2> QED BY <1>1, <2>1, SecondaryCalm DEF TimerShape, w
<1>4. CASE t.step = "knockouts"
  <2>1. PICK shift \in BOOLEAN : match' = PerformPendingKnockouts(w, t.at, shift)
    BY <1>4 DEF Fires, Results, Knockout
  <2> HIDE DEF w
  <2> QED BY <1>1, <2>1, PerformKnockoutsCalm DEF TimerShape, w
<1>5. CASE t.step = "grudge"
  <2>1. PICK b \in MoveOpenings : match' = PerformPendingGrudge(w, t.at, b)
    BY <1>5 DEF Fires, Results, Grudge
  <2> HIDE DEF w
  <2> QED BY <1>1, <2>1, GrudgeCalm DEF TimerShape, w
<1>6. CASE t.step = "opponent"
  <2>1. PICK choice \in {"move", "spot_move", "cancelled"}, b \in MoveOpenings :
          LET played == PlayOpponentTurn(w, choice, b)
          IN match' = [played EXCEPT !.late = @ \/ (Late(t) /\ played # w)]
    BY <1>6 DEF Fires, Results, Opponent
  <2> DEFINE played == PlayOpponentTurn(w, choice, b)
             late == played.late \/ (Late(t) /\ played # w)
  <2>2. match' = [played EXCEPT !.late = @ \/ (Late(t) /\ played # w)]
    BY <2>1
  <2> HIDE DEF w
  <2>3. played \in Matches /\ (Calm(w, played) \/ NewBattle(w, played))
    BY <1>1, PlayOpponentShape
  <2> HIDE DEF played
  <2>4. match' = [played EXCEPT !.late = late]
    BY <2>2, <2>3 DEF Matches
  <2>5. late \in BOOLEAN /\ (played.late => late)
    OBVIOUS
  <2> HIDE DEF late
  <2>6. Calm(played, match')
    <3>1. [played EXCEPT !.late = late] \in Matches
      BY <2>3, <2>5 DEF Matches
    <3>2. Mild(played, [played EXCEPT !.late = late])
      BY <2>3, <2>5 DEF Matches, Mild
    <3> QED BY <2>4, <3>1, <3>2 DEF Calm
  <2>8. CASE Calm(w, played)
    <3>1. Calm(w, match')
      BY <1>1, <2>3, <2>6, <2>8, CalmTrans
    <3> QED BY <3>1 DEF TimerShape, w
  <2>9. CASE NewBattle(w, played)
    <3>1. PICK k \in Matches, side \in Sides :
            /\ Calm(w, k) /\ k.len > w.len
            /\ k.phase = "started" => k.pendingRespin = None
            /\ Calm(Declared(k, side, w.len), played)
      BY <2>9 DEF NewBattle
    <3>2. w.len \in Nat
      BY <1>1 DEF Matches
    <3>3. Declared(k, side, w.len) \in Matches
      BY <3>2, DeclaredIs
    <3>4. Calm(Declared(k, side, w.len), match')
      BY <2>6, <3>1, <3>3, CalmTrans
    <3>5. NewBattle(w, match')
      BY <3>1, <3>4 DEF NewBattle
    <3> QED BY <3>5 DEF TimerShape, w
  <2> QED BY <2>3, <2>8, <2>9
<1>7. CASE t.step = "opponent_grudge"
  <2>1. match' = w \/ (w.pendingGrudge # None /\ match' = GrudgeChosen(w))
    BY <1>7 DEF Fires, Results, OpponentGrudge
  <2> HIDE DEF w
  <2> QED BY <1>1, <2>1, GrudgeChosenCalm, CalmSame DEF TimerShape, w
<1>8. CASE t.step = "opponent_jump"
  <2>1. \/ match' = w
        \/ LandsJump(w, "white") /\ \E n \in 0..1, goal \in BOOLEAN : match' = JumpLanded(w, n, goal)
    BY <1>8 DEF Fires, Results, OpponentJump
  <2> HIDE DEF w
  <2>2. LandsJump(w, "white") => w.pendingJump # None /\ w.activeBattleResolution # None
    BY DEF LandsJump, CurrentBattleResolution
  <2> QED BY <1>1, <2>1, <2>2, JumpLandedCalm, CalmSame DEF TimerShape, w
<1>9. CASE t.step = "opponent_extra"
  <2>1. PICK fights \in BOOLEAN :
          match' = w \/ (TakesExtraBattle(w, "white", 52) /\ match' = ExtraBattleTaken(w, fights))
    BY <1>9 DEF Fires, Results, OpponentExtra
  <2> HIDE DEF w
  <2>2. TakesExtraBattle(w, "white", 52) =>
          /\ w.pendingExtraBattle # None /\ w.activeBattleResolution # None
          /\ CurrentBattleResolution(w, w.pendingExtraBattle.spin, "applying")
          /\ Fits(w, Plan(w, w.pendingExtraBattle.spin, 1))
    BY DEF TakesExtraBattle, CurrentBattleResolution
  <2> QED BY <1>1, <2>1, <2>2, ExtraTakenShape, CalmSame DEF TimerShape, w
<1> QED BY <1>2, <1>3, <1>4, <1>5, <1>6, <1>7, <1>8, <1>9, <1>1 DEF Steps

LEMMA NextShape ==
  ASSUME match \in Matches, Next
  PROVE  Shape(match, match') \/ \E t \in match.timers : TimerShape(t)
<1>1. CASE \E side \in Clients : Plays(side)
  BY <1>1, PlaysShape DEF Clients
<1>2. CASE \E side \in Clients : Resign(side)
  <2>1. match' = Finish(Grow(match, 1))
    BY <1>2 DEF Resign
  <2>2. Calm(match, match')
    BY <2>1, GrowCalm, FinishCalm, CalmTrans DEF Calm
  <2> QED BY <2>2 DEF Shape
<1>3. CASE \E t \in match.timers : Fires(t)
  BY <1>3, FiresShape
<1>4. CASE Decide
  BY <1>4, FinishCalm DEF Decide, Shape
<1> QED BY <1>1, <1>2, <1>3, <1>4 DEF Next

LEMMA TypedInit == Init => Typed(match)
<1> SUFFICES ASSUME Init PROVE Typed(match)
  OBVIOUS
<1>1. PICK human \in BOOLEAN : match = [
        human |-> human, phase |-> "started", turn |-> "black", len |-> 0, done |-> 0, cut |-> 0,
        timers |-> {}, late |-> FALSE, resolving |-> FALSE,
        pendingBattles |-> "none", pendingTouch |-> FALSE, pendingPlate |-> "none",
        battleResolutionPending |-> FALSE, extraBattle |-> "none",
        activeBattleDeclaration |-> None, activeBattleResolution |-> None,
        pendingRespin |-> None, pendingJump |-> None, pendingExtraBattle |-> None,
        pendingSecondarySpins |-> None, pendingKnockouts |-> None, pendingGrudge |-> None]
  BY EngineAssumption DEF Init
<1>2. "started" \in Phases /\ "black" \in Sides /\ "none" \in Battles /\ "none" \in Plates /\ "none" \in Extras
  BY DEF Phases, Sides, Battles, Plates, Extras
<1>3. match \in Matches
  BY <1>1, <1>2 DEF Matches
<1>4. Linked(match)
  BY <1>1 DEF Linked
<1> QED BY <1>3, <1>4 DEF Typed
LEMMA NextTyped ==
  ASSUME Typed(match), Next
  PROVE  Typed(match')
<1>1. match \in Matches
  BY DEF Typed
<1>2. CASE Calm(match, match') \/ NewBattle(match, match')
  BY <1>2, CalmTyped, NewBattleTyped
<1>3. CASE Shape(match, match')
  <2>1. ASSUME NEW k \in Matches, NEW spin \in Nat, NEW o \in Outcomes, Calm(match, k),
               match' = FinishBattleSpin(k, spin, o)
        PROVE  Typed(match')
    BY <2>1, CalmTyped, FinishSpinTyped
  <2> QED BY <1>2, <1>3, <2>1 DEF Shape
<1>4. ASSUME NEW t \in match.timers, TimerShape(t)
      PROVE  Typed(match')
  <2> DEFINE w == Without(t)
  <2>1. t.at \in Nat /\ w.activeBattleDeclaration = match.activeBattleDeclaration
    BY <1>1, WithoutIs
  <2>2. t.step \in {"resolve", "spin"} => w.activeBattleDeclaration # None
    BY <2>1 DEF Typed, Linked
  <2>3. Typed(w)
    BY WithoutTyped
  <2>4. \/ \E d \in 0..2, o \in Outcomes : t.step = "resolve" /\ match' = ResolveBattle(w, t.at, d, o)
        \/ \E o \in Outcomes : t.step = "spin" /\ match' = PerformBattleSpin(w, t.at, o)
        \/ \E o \in Outcomes : match' = PerformPendingRespin(w, o)
        \/ Calm(w, match') \/ NewBattle(w, match')
    BY <1>4 DEF TimerShape
  <2> HIDE DEF w
  <2>5. CASE \E d \in 0..2, o \in Outcomes : t.step = "resolve" /\ match' = ResolveBattle(w, t.at, d, o)
    BY <2>1, <2>2, <2>3, <2>5, ResolveTyped
  <2>6. CASE \E o \in Outcomes : t.step = "spin" /\ match' = PerformBattleSpin(w, t.at, o)
    BY <2>2, <2>3, <2>6, PerformSpinTyped
  <2>7. CASE \E o \in Outcomes : match' = PerformPendingRespin(w, o)
    BY <2>3, <2>7, RespinTyped
  <2> QED BY <2>3, <2>4, <2>5, <2>6, <2>7, CalmTyped, NewBattleTyped
<1> QED BY <1>1, <1>2, <1>3, <1>4, NextShape DEF Shape

\* A wheel that was spun again leaves no further wheels: then every battle has
\* at most one outcome.
LEMMA NextOnce ==
  ASSUME Typed(match), Once(match), Next, WheelsAfterRespin = 0
  PROVE  Once(match')
<1>1. match \in Matches
  BY DEF Typed
<1>2. \A o \in Outcomes : o.wheels <= WheelsAfterRespin => o.wheels = 0
  BY OutcomeType
<1>3. CASE Calm(match, match') \/ NewBattle(match, match')
  BY <1>3, CalmOnce, NewBattleOnce
<1>4. CASE Shape(match, match')
  <2>1. ASSUME NEW k \in Matches, NEW spin \in Nat, NEW o \in Outcomes, match.pendingRespin # None,
               Calm(match, k), o.wheels <= WheelsAfterRespin, match' = FinishBattleSpin(k, spin, o)
        PROVE  Once(match')
    <3>1. Typed(k) /\ Once(k) /\ o.wheels = 0
      BY <1>2, <2>1, CalmTyped, CalmOnce
    <3>2. k.phase = "started" => Rolls(k) = {} /\ Begun(k)
      <4> SUFFICES ASSUME k.phase = "started" PROVE Rolls(k) = {} /\ Begun(k)
        OBVIOUS
      <4>1. match.phase = "started"
        BY <2>1 DEF Calm, Mild
      <4>2. Rolls(match) = {} /\ Begun(match)
        BY <2>1, <4>1 DEF Once
      <4> QED BY <2>1, <4>2 DEF Calm, Mild, Rolls, Begun
    <3> QED BY <2>1, <3>1, <3>2, FinishSpinOnce
  <2> QED BY <1>3, <1>4, <2>1 DEF Shape
<1>5. ASSUME NEW t \in match.timers, TimerShape(t)
      PROVE  Once(match')
  <2> DEFINE w == Without(t)
  <2>1. /\ t.at \in Nat /\ w.timers = match.timers \ {t}
        /\ w.activeBattleDeclaration = match.activeBattleDeclaration
        /\ w.pendingRespin = match.pendingRespin /\ w.phase = match.phase
    BY <1>1, WithoutIs
  <2>2. t.step \in {"resolve", "spin"} => w.activeBattleDeclaration # None
    BY <2>1 DEF Typed, Linked
  <2>3. Typed(w) /\ Once(w)
    BY WithoutTyped, WithoutOnce
  <2>4. \/ \E d \in 0..2, o \in Outcomes : t.step = "resolve" /\ match' = ResolveBattle(w, t.at, d, o)
        \/ \E o \in Outcomes : t.step = "spin" /\ match' = PerformBattleSpin(w, t.at, o)
        \/ \E o \in Outcomes : o.wheels = 0 /\ match' = PerformPendingRespin(w, o)
        \/ Calm(w, match') \/ NewBattle(w, match')
    BY <1>2, <1>5 DEF TimerShape
  <2> HIDE DEF w
  <2>5. CASE \E d \in 0..2, o \in Outcomes : t.step = "resolve" /\ match' = ResolveBattle(w, t.at, d, o)
    BY <2>1, <2>2, <2>3, <2>5, ResolveOnce
  <2>6. CASE \E o \in Outcomes : t.step = "spin" /\ match' = PerformBattleSpin(w, t.at, o)
    <3>1. ASSUME w.phase = "started", w.activeBattleDeclaration.at = t.at
          PROVE  Rolls(w) = {} /\ Begun(w) /\ w.pendingRespin = None
      <4>1. t \in Rolls(match)
        BY <2>1, <2>6, <3>1 DEF Rolls
      <4>2. Begun(match) /\ match.pendingRespin = None /\ \A u \in Rolls(match) : u = t
        BY <2>1, <3>1, <4>1 DEF Once
      <4> QED BY <2>1, <4>2 DEF Rolls, Begun
    <3> QED BY <2>2, <2>3, <2>6, <3>1, PerformSpinOnce
  <2>7. CASE \E o \in Outcomes : o.wheels = 0 /\ match' = PerformPendingRespin(w, o)
    BY <2>3, <2>7, RespinOnce
  <2> QED BY <2>3, <2>4, <2>5, <2>6, <2>7, CalmOnce, NewBattleOnce
<1> QED BY <1>1, <1>3, <1>4, <1>5, NextShape DEF Shape

-----------------------------------------------------------------------------
\* In every reachable state the match holds what custom-match-engine.mjs keeps
\* in it: nothing undefined is read by any continuation, whichever comes first.
THEOREM TypeCorrect == Spec => []TypeOK
<1>1. Init => Typed(match)
  BY TypedInit
<1>2. Typed(match) /\ [Next]_vars => Typed(match)'
  BY NextTyped DEF vars, Typed, Linked
<1>3. Typed(match) => TypeOK
  BY DEF Typed, TypeOK
<1> QED BY <1>1, <1>2, <1>3, PTL DEF Spec

IInv == Typed(match) /\ (WheelsAfterRespin = 0 => Once(match))
LEMMA Invariance == Spec => []IInv
<1>1. Init => IInv
  <2>1. Init => match.timers = {} /\ match.activeBattleDeclaration = None /\ match.pendingRespin = None
    BY DEF Init
  <2>2. Init => Once(match)
    BY <2>1 DEF Once, Rolls
  <2> QED BY <2>2, TypedInit DEF IInv
<1>2. IInv /\ [Next]_vars => IInv'
  <2>1. CASE Next
    BY <2>1, NextTyped, NextOnce DEF IInv, Typed, Linked, Once, Rolls, Begun
  <2>2. CASE UNCHANGED vars
    BY <2>2 DEF vars, IInv, Typed, Linked, Once, Rolls, Begun
  <2> QED BY <2>1, <2>2
<1> QED BY <1>1, <1>2, PTL DEF Spec

\* A declared battle changes the board once, however the delayed steps of the
\* engine and the choices of both sides follow each other, late calls of the
\* training opponent included, where no wheel is owed after a respin
\* (respin_twice shows what happens where one is).
THEOREM OneOutcome ==
  ASSUME WheelsAfterRespin = 0
  PROVE  Spec => []OneOutcomePerBattle
<1>1. IInv => OneOutcomePerBattle
  BY DEF IInv, Once, OneOutcomePerBattle
<1> QED BY <1>1, Invariance, PTL

\* Under the same condition the choice to keep a result is final: the outcome of
\* the battle is not applied while a respin can still be declared.
THEOREM RespinStands ==
  ASSUME WheelsAfterRespin = 0
  PROVE  Spec => RespinChoiceStands
<1> DEFINE A == match.pendingRespin # None /\ match'.pendingRespin # None
                  /\ ~match.pendingRespin.declared /\ match'.pendingRespin.declared
                => match.activeBattleDeclaration.outcomes = 0
<1>1. IInv => [A]_vars
  BY DEF IInv, Once
<1> QED BY <1>1, Invariance, PTL DEF RespinChoiceStands

-----------------------------------------------------------------------------
\* A match that is decided stays so, and so does what a late call has done; a
\* callback that is scheduled is not taken back.
Onward(m, n) == /\ n.phase = "started" => m.phase = "started"
                /\ m.late => n.late
                /\ m.timers \subseteq n.timers

LEMMA OnwardTrans ==
  ASSUME NEW m, NEW n, NEW o, Onward(m, n), Onward(n, o)
  PROVE  Onward(m, o)
BY DEF Onward

LEMMA CalmOnward ==
  ASSUME NEW m, NEW n, Calm(m, n)
  PROVE  Onward(m, n)
BY DEF Calm, Mild, Onward

LEMMA NewBattleOnward ==
  ASSUME NEW m \in Matches, NEW n, NewBattle(m, n)
  PROVE  Onward(m, n)
<1>1. PICK k \in Matches, side \in Sides : Calm(m, k) /\ Calm(Declared(k, side, m.len), n)
  BY DEF NewBattle
<1> DEFINE d == Declared(k, side, m.len)
<1>2. d.phase = k.phase /\ d.late = k.late /\ k.timers \subseteq d.timers
  <2>1. m.len \in Nat
    BY DEF Matches
  <2> QED BY <2>1, DeclaredIs
<1>3. Onward(k, d)
  BY <1>2 DEF Onward
<1> QED BY <1>1, <1>3, CalmOnward, OnwardTrans

LEMMA FinishSpinOnward ==
  ASSUME NEW m, Typed(m), NEW spin \in Nat, NEW o \in Outcomes
  PROVE  Onward(m, FinishBattleSpin(m, spin, o))
<1> DEFINE n == FinishBattleSpin(m, spin, o)
           a == Applied(m, Plan(m, spin, 0))
<1> SUFFICES ASSUME n # m PROVE Onward(m, n)
  BY DEF Onward
<1>1. m \in Matches /\ Calm(a, n)
  BY FinishSpinCalm DEF Typed
<1>2. a.phase = m.phase /\ a.late = m.late /\ a.timers = m.timers
  <2>1. m.activeBattleResolution # None /\ m.activeBattleDeclaration # None /\ Plan(m, spin, 0) \in Plans
    BY <1>1, FinishSpinIs DEF Typed, Linked
  <2> QED BY <1>1, <2>1, AppliedIs
<1> QED BY <1>1, <1>2, CalmOnward DEF Onward

LEMMA PerformSpinOnward ==
  ASSUME NEW m, Typed(m), m.activeBattleDeclaration # None, NEW at, NEW o \in Outcomes
  PROVE  Onward(m, PerformBattleSpin(m, at, o))
<1>1. m \in Matches /\ m.len \in Nat
  BY DEF Typed, Matches
<1>2. Typed(Spun(m)) /\ Onward(m, Spun(m)) /\ Onward(m, RespinOffered(m))
  BY <1>1, SpunIs, OfferedIs DEF Typed, Linked, Onward
<1>3. Onward(m, FinishBattleSpin(Spun(m), m.len, o))
  BY <1>1, <1>2, FinishSpinOnward, OnwardTrans
<1>4. Onward(m, m)
  BY DEF Onward
<1> QED BY <1>1, <1>2, <1>3, <1>4, PerformSpinIs

LEMMA ResolveOnward ==
  ASSUME NEW m, Typed(m), m.activeBattleDeclaration # None,
         NEW at \in Nat, NEW d \in Nat, NEW o \in Outcomes
  PROVE  Onward(m, ResolveBattle(m, at, d, o))
<1> DEFINE b == Started(m)
           w == Later(Grow(b, d), "spin", at)
<1>1. m \in Matches
  BY DEF Typed
<1>2. /\ Typed(b) /\ b.activeBattleDeclaration # None /\ b.phase = m.phase /\ b.late = m.late
      /\ b.timers = m.timers
  BY <1>1, StartedIs DEF Typed, Linked
<1> HIDE DEF b
<1>3. Onward(b, PerformBattleSpin(b, at, o))
  BY <1>2, PerformSpinOnward
<1>4. w.phase = b.phase /\ w.late = b.late /\ b.timers \subseteq w.timers
  BY <1>2, WheelLaterIs DEF Typed
<1> HIDE DEF w
<1>5. ResolveBattle(m, at, d, o) \in {m, PerformBattleSpin(b, at, o), w}
  BY <1>1, ResolveIs DEF b, w
<1> QED BY <1>2, <1>3, <1>4, <1>5 DEF Onward

LEMMA ShapeOnward ==
  ASSUME Typed(match), Shape(match, match')
  PROVE  Onward(match, match')
<1>1. match \in Matches
  BY DEF Typed
<1>2. ASSUME NEW k \in Matches, NEW spin \in Nat, NEW o \in Outcomes, Calm(match, k),
             match' = FinishBattleSpin(k, spin, o)
      PROVE  Onward(match, match')
  BY <1>2, CalmTyped, CalmOnward, FinishSpinOnward, OnwardTrans
<1> QED BY <1>1, <1>2, CalmOnward, NewBattleOnward DEF Shape

LEMMA TimerOnward ==
  ASSUME Typed(match), NEW t \in match.timers, TimerShape(t)
  PROVE  Onward(Without(t), match')
<1> DEFINE w == Without(t)
<1>1. t.at \in Nat /\ w.activeBattleDeclaration = match.activeBattleDeclaration
  BY WithoutIs DEF Typed
<1>2. t.step \in {"resolve", "spin"} => w.activeBattleDeclaration # None
  BY <1>1 DEF Typed, Linked
<1>3. Typed(w) /\ w \in Matches
  BY WithoutTyped DEF Typed
<1>4. \/ \E d \in 0..2, o \in Outcomes : t.step = "resolve" /\ match' = ResolveBattle(w, t.at, d, o)
      \/ \E o \in Outcomes : t.step = "spin" /\ match' = PerformBattleSpin(w, t.at, o)
      \/ \E o \in Outcomes : match' = PerformPendingRespin(w, o)
      \/ Calm(w, match') \/ NewBattle(w, match')
  BY DEF TimerShape
<1> SUFFICES Onward(w, match')
  OBVIOUS
<1> HIDE DEF w
<1>5. CASE \E d \in 0..2, o \in Outcomes : t.step = "resolve" /\ match' = ResolveBattle(w, t.at, d, o)
  BY <1>1, <1>2, <1>3, <1>5, ResolveOnward
<1>6. CASE \E o \in Outcomes : t.step = "spin" /\ match' = PerformBattleSpin(w, t.at, o)
  BY <1>2, <1>3, <1>6, PerformSpinOnward
<1>7. CASE \E o \in Outcomes : match' = PerformPendingRespin(w, o)
  <2>1. PICK o \in Outcomes : match' = PerformPendingRespin(w, o)
    BY <1>7
  <2>2. CASE match' = w
    BY <2>2 DEF Onward
  <2>3. CASE match' # w
    <3>1. w.len \in Nat /\ \E k : Calm(w, k) /\ match' = FinishBattleSpin(k, w.len, o)
      BY <1>3, <2>1, <2>3, RespinIs
    <3>2. PICK k : Calm(w, k) /\ match' = FinishBattleSpin(k, w.len, o)
      BY <3>1
    <3>3. Typed(k) /\ Onward(w, k) /\ Onward(k, match')
      BY <1>3, <3>1, <3>2, CalmTyped, CalmOnward, FinishSpinOnward
    <3> QED BY <3>3, OnwardTrans
  <2> QED BY <2>2, <2>3
<1> QED BY <1>3, <1>4, <1>5, <1>6, <1>7, CalmOnward, NewBattleOnward

-----------------------------------------------------------------------------
\* Which step of the server is owed, and what is pending while it is.
Undecided(m) == /\ m.pendingRespin = None /\ m.pendingGrudge = None
                /\ m.pendingJump = None /\ m.pendingExtraBattle = None
Continuing == {"resolve", "spin", "secondary", "knockouts"}
Awaits(m, step) ==
  /\ step \in Continuing => m.battleResolutionPending /\ Undecided(m)
  /\ step = "respin" => m.pendingRespin # None /\ m.pendingRespin.declared
  /\ step = "grudge" => m.pendingGrudge # None /\ m.pendingGrudge.declared
  /\ step = "opponent_grudge" =>
       /\ m.pendingGrudge # None /\ ~m.pendingGrudge.declared
       /\ Controlled(m, m.pendingGrudge.side)
  /\ step = "opponent_jump" => m.pendingJump # None /\ Controlled(m, m.pendingJump.side)
  /\ step = "opponent_extra" => m.pendingExtraBattle # None /\ Controlled(m, m.pendingExtraBattle.side)
  /\ step = "opponent" => NoChoicePending(m) /\ Controlled(m, m.turn)

\* Callbacks that have nothing left to do: calls of the training opponent from
\* former turns, or made while black is to move.
Spent(m, timers) ==
  \A t \in timers : /\ t.step = "opponent" /\ ~m.human /\ t.turns <= m.done
                    /\ m.turn = "white" => t.turns < m.done
\* One choice is pending at a time.
Single(m) ==
  /\ m.pendingGrudge # None => /\ m.pendingRespin = None /\ m.pendingJump = None
                               /\ m.pendingExtraBattle = None /\ ~m.battleResolutionPending
  /\ m.pendingRespin # None => m.pendingJump = None /\ m.pendingExtraBattle = None
  /\ m.pendingJump # None => m.pendingExtraBattle = None
\* At most one callback is owed, and it belongs to the turn.
Waiting(m) ==
  /\ Single(m)
  /\ \/ Spent(m, m.timers)
     \/ \E t \in m.timers : Spent(m, m.timers \ {t}) /\ t.turns = m.done /\ Awaits(m, t.step)
\* The callback has come and the battle is in the hands of the step it takes.
InHand(m) == /\ Spent(m, m.timers)
             /\ m.pendingGrudge = None /\ m.pendingJump = None /\ m.pendingExtraBattle = None

\* What a step that asks nothing and schedules nothing leaves alone.
Steady(m, n) ==
  /\ n.human = m.human /\ n.timers = m.timers /\ n.done = m.done /\ n.turn = m.turn
  /\ n.pendingRespin = m.pendingRespin /\ n.pendingGrudge = m.pendingGrudge
  /\ n.pendingJump = m.pendingJump /\ n.pendingExtraBattle = m.pendingExtraBattle
  /\ n.battleResolutionPending = m.battleResolutionPending

LEMMA SteadyTrans ==
  ASSUME NEW m, NEW n, NEW o, Steady(m, n), Steady(n, o)
  PROVE  Steady(m, o)
BY DEF Steady

LEMMA SteadySame ==
  ASSUME NEW m
  PROVE  Steady(m, m)
BY DEF Steady

LEMMA SteadyKeeps ==
  ASSUME NEW m, NEW n, Steady(m, n)
  PROVE  /\ Spent(n, n.timers) <=> Spent(m, m.timers)
         /\ InHand(n) <=> InHand(m)
         /\ Single(n) <=> Single(m)
         /\ Undecided(n) <=> Undecided(m)
         /\ NoChoicePending(n) <=> NoChoicePending(m)
<1>1. Spent(n, n.timers) <=> Spent(m, m.timers)
  BY DEF Steady, Spent
<1> QED BY <1>1 DEF Steady, InHand, Single, Undecided, NoChoicePending

LEMMA InHandWaits ==
  ASSUME NEW m, InHand(m)
  PROVE  Waiting(m)
BY DEF InHand, Waiting, Single

LEMMA GrowSteady ==
  ASSUME NEW m \in Matches, NEW k \in Nat
  PROVE  Steady(m, Grow(m, k))
BY DEF Steady, Grow, Matches

LEMMA GaugeSteady ==
  ASSUME NEW m \in Matches
  PROVE  Steady(m, Gauge(m))
BY GrowSteady, SteadySame DEF Gauge

\* A callback is scheduled while nothing else is owed.
LEMMA LaterWaits ==
  ASSUME NEW m \in Matches, NEW step \in Steps, NEW at \in Nat,
         Spent(m, m.timers), Single(m), Awaits(m, step)
  PROVE  Waiting(Later(m, step, at))
<1> DEFINE t == [step |-> step, at |-> at, turns |-> m.done]
           n == Later(m, step, at)
<1>1. /\ n.human = m.human /\ n.timers = m.timers \cup {t} /\ n.done = m.done /\ n.turn = m.turn
      /\ n.pendingRespin = m.pendingRespin /\ n.pendingGrudge = m.pendingGrudge
      /\ n.pendingJump = m.pendingJump /\ n.pendingExtraBattle = m.pendingExtraBattle
      /\ n.battleResolutionPending = m.battleResolutionPending
  BY DEF Later, Matches
<1>2. t.step = step /\ t.turns = m.done
  OBVIOUS
<1> HIDE DEF n, t
<1>3. t \in n.timers /\ n.timers \ {t} \subseteq m.timers
  BY <1>1
<1>4. Spent(n, n.timers \ {t})
  BY <1>1, <1>3 DEF Spent
<1>5. Single(n)
  BY <1>1 DEF Single
<1>6. Awaits(n, t.step)
  BY <1>1, <1>2 DEF Awaits, Undecided, NoChoicePending, Controlled
<1> QED BY <1>1, <1>2, <1>3, <1>4, <1>5, <1>6 DEF Waiting, n

LEMMA OpponentWaits ==
  ASSUME NEW m \in Matches, Spent(m, m.timers), NoChoicePending(m)
  PROVE  Waiting(OpponentLater(m))
<1>1. Single(m)
  BY DEF Single, NoChoicePending
<1>2. CASE m.human
  BY <1>1, <1>2 DEF OpponentLater, Waiting
<1>3. CASE ~m.human /\ m.turn = "white"
  <2>1. Awaits(m, "opponent") /\ m.len \in Nat /\ "opponent" \in Steps
    BY <1>3 DEF Awaits, Controlled, Matches, Steps, Continuing
  <2> QED BY <1>1, <1>3, <2>1, LaterWaits DEF OpponentLater
<1>4. CASE ~m.human /\ m.turn # "white"
  <2> DEFINE t == [step |-> "opponent", at |-> m.len, turns |-> m.done]
             n == OpponentLater(m)
  <2>1. /\ n.human = m.human /\ n.timers = m.timers \cup {t} /\ n.done = m.done /\ n.turn = m.turn
        /\ n.pendingRespin = m.pendingRespin /\ n.pendingGrudge = m.pendingGrudge
        /\ n.pendingJump = m.pendingJump /\ n.pendingExtraBattle = m.pendingExtraBattle
        /\ n.battleResolutionPending = m.battleResolutionPending
    BY <1>4 DEF OpponentLater, Later, Matches
  <2>2. t.step = "opponent" /\ t.turns = m.done /\ m.done \in Nat
    BY DEF Matches
  <2> HIDE DEF n, t
  <2>3. Spent(n, n.timers)
    BY <1>4, <2>1, <2>2 DEF Spent
  <2>4. Single(n)
    BY <1>1, <2>1 DEF Single
  <2> QED BY <2>3, <2>4 DEF Waiting, n
<1> QED BY <1>2, <1>3, <1>4

LEMMA SteadyWaits ==
  ASSUME NEW m, NEW n, Steady(m, n), Waiting(m)
  PROVE  Waiting(n)
<1>1. /\ n.human = m.human /\ n.timers = m.timers /\ n.done = m.done /\ n.turn = m.turn
      /\ n.pendingRespin = m.pendingRespin /\ n.pendingGrudge = m.pendingGrudge
      /\ n.pendingJump = m.pendingJump /\ n.pendingExtraBattle = m.pendingExtraBattle
      /\ n.battleResolutionPending = m.battleResolutionPending
  BY DEF Steady
<1>2. Single(n)
  BY SteadyKeeps DEF Waiting
<1>3. CASE Spent(m, m.timers)
  BY <1>2, <1>3, SteadyKeeps DEF Waiting
<1>4. ASSUME NEW t \in m.timers, Spent(m, m.timers \ {t}), t.turns = m.done, Awaits(m, t.step)
      PROVE  Waiting(n)
  <2>1. Spent(n, n.timers \ {t})
    BY <1>1, <1>4 DEF Spent
  <2>2. Awaits(n, t.step)
    BY <1>1, <1>4 DEF Awaits, Undecided, NoChoicePending, Controlled
  <2> QED BY <1>1, <1>2, <1>4, <2>1, <2>2 DEF Waiting
<1> QED BY <1>3, <1>4 DEF Waiting

LEMMA FreeWaits ==
  ASSUME NEW m, Spent(m, m.timers), NoChoicePending(m)
  PROVE  Waiting(m) /\ Single(m)
BY DEF Waiting, Single, NoChoicePending

\* The end of a turn leaves nothing pending, and every callback behind.
LEMMA CleanupClears ==
  ASSUME NEW m \in Matches, NEW side \in Sides
  PROVE  LET c == CompleteTurnCleanup(m, side)
         IN /\ c \in Matches /\ NoChoicePending(c)
            /\ c.human = m.human /\ c.timers = m.timers /\ c.done = m.done
<1> DEFINE n1 == [m EXCEPT !.turn = Other(side), !.pendingBattles = "none", !.pendingTouch = FALSE]
           n2 == [n1 EXCEPT !.pendingPlate = "none", !.battleResolutionPending = FALSE, !.extraBattle = "none"]
           n3 == [n2 EXCEPT !.pendingRespin = None, !.pendingGrudge = None, !.pendingKnockouts = None]
           n4 == [n3 EXCEPT !.pendingSecondarySpins = None, !.pendingJump = None, !.pendingExtraBattle = None]
<1>1. Other(side) \in Sides
  BY DEF Other, Sides
<1>2. CompleteTurnCleanup(m, side) = n4
  BY DEF CompleteTurnCleanup
<1>3. n1 \in Matches
  BY <1>1, CleanTurn DEF Calm
<1>4. n1.human = m.human /\ n1.timers = m.timers /\ n1.done = m.done
  BY DEF Matches
<1> HIDE DEF n1
<1>5. n2 \in Matches
  BY <1>3, CleanPlate DEF Calm
<1>6. n2.human = n1.human /\ n2.timers = n1.timers /\ n2.done = n1.done /\ ~n2.battleResolutionPending
  BY <1>3 DEF Matches
<1> HIDE DEF n2
<1>7. n3 \in Matches
  BY <1>5, CleanChoices DEF Calm
<1>8. /\ n3.human = n2.human /\ n3.timers = n2.timers /\ n3.done = n2.done
      /\ n3.battleResolutionPending = n2.battleResolutionPending
      /\ n3.pendingRespin = None /\ n3.pendingGrudge = None
  BY <1>5 DEF Matches
<1> HIDE DEF n3
<1>9. n4 \in Matches
  BY <1>7, CleanSteps DEF Calm
<1>10. /\ n4.human = n3.human /\ n4.timers = n3.timers /\ n4.done = n3.done
       /\ n4.battleResolutionPending = n3.battleResolutionPending
       /\ n4.pendingRespin = n3.pendingRespin /\ n4.pendingGrudge = n3.pendingGrudge
       /\ n4.pendingJump = None /\ n4.pendingExtraBattle = None
  BY <1>7 DEF Matches
<1> HIDE DEF n4
<1>11. NoChoicePending(n4)
  BY <1>6, <1>8, <1>10 DEF NoChoicePending
<1> QED BY <1>2, <1>4, <1>6, <1>8, <1>9, <1>10, <1>11

LEMMA TurnIsOver ==
  ASSUME NEW m \in Matches, NEW side \in Sides, NEW plan \in Plans,
         m.phase = "started", m.turn = side, Fits(m, plan), Spent(m, m.timers)
  PROVE  LET n == CompleteTurn(m, side, plan)
         IN n \in Matches /\ Spent(n, n.timers) /\ NoChoicePending(n)
<1> DEFINE c == CompleteTurnCleanup(m, side)
           n == [c EXCEPT !.done = @ + 1, !.cut = plan.count]
<1>1. c \in Matches /\ NoChoicePending(c) /\ c.human = m.human /\ c.timers = m.timers /\ c.done = m.done
  BY CleanupClears
<1>2. CompleteTurn(m, side, plan) = Gauge(n)
  BY DEF CompleteTurn
<1> HIDE DEF c
<1>3. n \in Matches
  BY <1>1, BindTurn DEF Calm
<1>4. /\ n.human = c.human /\ n.timers = c.timers /\ n.done = c.done + 1
      /\ n.pendingRespin = c.pendingRespin /\ n.pendingGrudge = c.pendingGrudge
      /\ n.pendingJump = c.pendingJump /\ n.pendingExtraBattle = c.pendingExtraBattle
      /\ n.battleResolutionPending = c.battleResolutionPending
  BY <1>1 DEF Matches
<1> HIDE DEF n
<1>5. NoChoicePending(n)
  BY <1>1, <1>4 DEF NoChoicePending
<1>6. Spent(n, n.timers)
  <2>1. m.done \in Nat /\ \A t \in m.timers : t.turns \in Nat
    BY DEF Matches, Timers
  <2>2. \A t \in m.timers : t.step = "opponent" /\ ~m.human /\ t.turns <= m.done
    BY DEF Spent
  <2>3. \A t \in m.timers : t.turns <= n.done /\ t.turns < n.done
    BY <1>1, <1>4, <2>1, <2>2
  <2> QED BY <1>1, <1>4, <2>2, <2>3 DEF Spent
<1>7. Gauge(n) \in Matches /\ Steady(n, Gauge(n))
  BY <1>3, GaugeCalm, GaugeSteady DEF Calm
<1> QED BY <1>2, <1>5, <1>6, <1>7, SteadyKeeps

\* completeTurn where nothing is pending, whether it is accepted or not.
LEMMA TurnWaits ==
  ASSUME NEW m \in Matches, NEW side \in Sides, NEW plan \in Plans,
         Spent(m, m.timers), NoChoicePending(m)
  PROVE  /\ Waiting(CompleteTurn(m, side, plan))
         /\ Waiting(OpponentLater(CompleteTurn(m, side, plan)))
<1> DEFINE n == CompleteTurn(m, side, plan)
<1>1. n \in Matches /\ Spent(n, n.timers) /\ NoChoicePending(n)
  <2>1. CASE m.phase = "started" /\ m.turn = side /\ Fits(m, plan)
    BY <2>1, TurnIsOver
  <2>2. CASE ~(m.phase = "started" /\ m.turn = side /\ Fits(m, plan))
    <3>1. n = m
      BY <2>2 DEF CompleteTurn
    <3> QED BY <3>1
  <2> QED BY <2>1, <2>2
<1> HIDE DEF n
<1>2. Waiting(n) /\ Waiting(OpponentLater(n))
  BY <1>1, FreeWaits, OpponentWaits
<1> QED BY <1>2 DEF n

\* completeBattleResolution ends the turn, or finds another battle in hand.
LEMMA BattleIsOver ==
  ASSUME NEW m \in Matches, NEW spin, CurrentBattleResolution(m, spin, "applying"),
         Fits(m, m.activeBattleResolution.plan), Spent(m, m.timers)
  PROVE  Waiting(CompleteBattleResolution(m, spin, TRUE))
<1> DEFINE settled == [m EXCEPT !.activeBattleResolution.phase = "completed"]
           plan == m.activeBattleResolution.plan
           gauged == Gauge(settled)
           ended == CompleteTurn(gauged, m.turn, plan)
           after == IF ended.turn = "white" THEN OpponentLater(ended) ELSE ended
           over == [after EXCEPT !.resolving = FALSE]
<1>1. m.activeBattleResolution # None /\ plan \in Plans /\ m.turn \in Sides
  BY CurrentIs DEF CurrentBattleResolution, Matches
<1>2. CompleteBattleResolution(m, spin, TRUE) = over
  BY DEF CompleteBattleResolution
<1>3. settled \in Matches
  BY <1>1, SettleCalm DEF Calm
<1>4. settled.phase = "started" /\ settled.turn = m.turn /\ settled.done = m.done /\ settled.cut = m.cut
  BY DEF CurrentBattleResolution, Matches
<1>5. Fits(settled, plan)
  BY <1>4 DEF Fits
<1>6. Steady(m, settled)
  BY DEF Steady, Matches
<1> HIDE DEF plan, settled
<1>7. gauged \in Matches /\ Steady(settled, gauged)
  BY <1>3, GaugeCalm, GaugeSteady DEF Calm
<1>8. gauged.phase = "started" /\ gauged.turn = m.turn /\ gauged.done = settled.done /\ gauged.cut = settled.cut
  BY <1>3, <1>4 DEF Gauge, Grow, Matches
<1>9. Fits(gauged, plan)
  BY <1>5, <1>8 DEF Fits
<1>10. Spent(gauged, gauged.timers)
  BY <1>6, <1>7, SteadyKeeps
<1> HIDE DEF gauged
<1>11. ended \in Matches /\ Spent(ended, ended.timers) /\ NoChoicePending(ended)
  BY <1>1, <1>7, <1>8, <1>9, <1>10, TurnIsOver
<1> HIDE DEF ended
<1>12. after \in Matches /\ Waiting(after)
  BY <1>11, FreeWaits, OpponentWaits, OpponentLaterCalm DEF Calm
<1> HIDE DEF after
<1>13. Steady(after, over)
  BY <1>12 DEF Steady, Matches
<1> QED BY <1>2, <1>12, <1>13, SteadyWaits

LEMMA BattleWaits ==
  ASSUME NEW m \in Matches, NEW spin, InHand(m)
  PROVE  Waiting(CompleteBattleResolution(m, spin, TRUE))
<1>1. CASE CurrentBattleResolution(m, spin, "applying") /\ Fits(m, m.activeBattleResolution.plan)
  BY <1>1, BattleIsOver DEF InHand
<1>2. CASE ~(CurrentBattleResolution(m, spin, "applying") /\ Fits(m, m.activeBattleResolution.plan))
  BY <1>2, InHandWaits DEF CompleteBattleResolution
<1> QED BY <1>1, <1>2

LEMMA BatchWaits ==
  ASSUME NEW m \in Matches, NEW spin, NEW n \in Nat, InHand(m)
  PROVE  /\ Waiting(CompleteKnockoutBatch(m, spin, n, TRUE))
         /\ Steady(m, CompleteKnockoutBatch(m, spin, n, FALSE))
<1>1. Grow(m, n) \in Matches /\ Steady(m, Grow(m, n))
  BY GrowCalm, GrowSteady DEF Calm
<1>2. InHand(Grow(m, n))
  BY <1>1, SteadyKeeps
<1>3. Waiting(CompleteBattleResolution(Grow(m, n), spin, TRUE))
  BY <1>1, <1>2, BattleWaits
<1> QED BY <1>1, <1>3, InHandWaits, SteadySame DEF CompleteKnockoutBatch

LEMMA StageKnockoutsWaits ==
  ASSUME NEW m \in Matches, NEW spin \in Nat, NEW left \in Nat, InHand(m)
  PROVE  Waiting(StagePendingKnockouts(m, spin, left))
<1> DEFINE p == [at |-> m.len, spin |-> spin, left |-> left, shifts |-> 0]
           n == [m EXCEPT !.pendingKnockouts = p, !.pendingRespin = None, !.battleResolutionPending = TRUE]
<1>1. p \in PendingKnockouts /\ m.len \in Nat
  BY DEF PendingKnockouts, Matches
<1>2. StagePendingKnockouts(m, spin, left) = Later(n, "knockouts", m.len)
  BY DEF StagePendingKnockouts
<1> HIDE DEF p
<1>3. n \in Matches
  BY <1>1 DEF Matches
<1>4. /\ n.human = m.human /\ n.timers = m.timers /\ n.done = m.done /\ n.turn = m.turn
      /\ n.pendingRespin = None /\ n.pendingGrudge = m.pendingGrudge
      /\ n.pendingJump = m.pendingJump /\ n.pendingExtraBattle = m.pendingExtraBattle
      /\ n.battleResolutionPending
  BY DEF Matches
<1> HIDE DEF n
<1>5. Spent(n, n.timers) /\ Single(n)
  BY <1>4 DEF InHand, Spent, Single
<1>6. Awaits(n, "knockouts")
  BY <1>4 DEF InHand, Awaits, Undecided
<1>7. "knockouts" \in Steps
  BY DEF Steps
<1> QED BY <1>1, <1>2, <1>3, <1>5, <1>6, <1>7, LaterWaits

LEMMA KnockoutsWait ==
  ASSUME NEW m \in Matches, NEW spin \in Nat, NEW n \in Nat, InHand(m)
  PROVE  Waiting(Knockouts(m, spin, n))
<1>1. Waiting(CompleteBattleResolution(m, spin, TRUE))
  BY BattleWaits
<1>2. Waiting(CompleteKnockoutBatch(m, spin, 1, TRUE))
  BY BatchWaits
<1>3. Waiting(StagePendingKnockouts(m, spin, n))
  BY StageKnockoutsWaits
<1> QED BY <1>1, <1>2, <1>3 DEF Knockouts

LEMMA StageJumpWaits ==
  ASSUME NEW m \in Matches, NEW spin \in Nat, NEW o \in Outcomes, o.jumper \in Sides, InHand(m)
  PROVE  Waiting(StagePendingJump(m, spin, o))
<1> DEFINE p == [at |-> m.len, spin |-> spin, side |-> o.jumper, landing |-> o.landing, extra |-> o.extra]
           n == [m EXCEPT !.pendingJump = p, !.pendingRespin = None, !.pendingBattles = "none",
                   !.battleResolutionPending = TRUE, !.resolving = FALSE]
<1>1. p \in Jumps /\ m.len \in Nat /\ p # None /\ p.side = o.jumper
  BY OutcomeType, NoneAssumption DEF Jumps, Matches
<1>2. StagePendingJump(m, spin, o) =
        IF Controlled(m, o.jumper) /\ o.landing THEN Later(n, "opponent_jump", m.len) ELSE n
  BY DEF StagePendingJump
<1> HIDE DEF p
<1>3. n \in Matches
  <2>1. "none" \in Battles
    BY DEF Battles
  <2> QED BY <1>1, <2>1 DEF Matches
<1>4. /\ n.human = m.human /\ n.timers = m.timers /\ n.done = m.done /\ n.turn = m.turn
      /\ n.pendingRespin = None /\ n.pendingGrudge = m.pendingGrudge
      /\ n.pendingJump = p /\ n.pendingExtraBattle = m.pendingExtraBattle
  BY DEF Matches
<1> HIDE DEF n
<1>5. Spent(n, n.timers) /\ Single(n)
  BY <1>4 DEF InHand, Spent, Single
<1>6. Controlled(m, o.jumper) => Awaits(n, "opponent_jump")
  BY <1>1, <1>4 DEF Awaits, Controlled, Continuing
<1>7. "opponent_jump" \in Steps
  BY DEF Steps
<1>8. Controlled(m, o.jumper) => Waiting(Later(n, "opponent_jump", m.len))
  BY <1>1, <1>3, <1>5, <1>6, <1>7, LaterWaits
<1> QED BY <1>2, <1>5, <1>8 DEF Waiting

LEMMA StageSpinsWaits ==
  ASSUME NEW m \in Matches, NEW spin \in Nat, NEW left \in Nat, NEW kos \in Nat,
         Spent(m, m.timers), Undecided(m), m.battleResolutionPending
  PROVE  Waiting(StageSecondarySpins(m, spin, left, kos))
<1> DEFINE p == [at |-> m.len, spin |-> spin, left |-> left, kos |-> kos]
           n == [m EXCEPT !.pendingSecondarySpins = p]
<1>1. p \in SecondarySpins /\ m.len \in Nat
  BY DEF SecondarySpins, Matches
<1>2. StageSecondarySpins(m, spin, left, kos) = Later(n, "secondary", m.len)
  BY DEF StageSecondarySpins
<1> HIDE DEF p
<1>3. n \in Matches
  BY <1>1 DEF Matches
<1>4. Steady(m, n)
  BY DEF Steady, Matches
<1> HIDE DEF n
<1>5. Spent(n, n.timers) /\ Undecided(n) /\ n.battleResolutionPending
  BY <1>4, SteadyKeeps DEF Steady
<1>6. Single(n) /\ Awaits(n, "secondary")
  BY <1>5 DEF Single, Awaits, Undecided
<1>7. "secondary" \in Steps
  BY DEF Steps
<1> QED BY <1>1, <1>2, <1>3, <1>5, <1>6, <1>7, LaterWaits

LEMMA AppliedSteady ==
  ASSUME NEW m \in Matches, NEW plan
  PROVE  Steady(m, Applied(m, plan))
BY DEF Applied, Steady, Matches

\* finishBattleSpin: a battle in hand has an outcome, and no wheel is owed where
\* a respin was offered.
LEMMA FinishSpinWaits ==
  ASSUME NEW m, Typed(m), InHand(m), NEW spin \in Nat, NEW o \in Outcomes,
         m.pendingRespin = None => m.battleResolutionPending,
         m.pendingRespin # None => o.wheels = 0
  PROVE  Waiting(FinishBattleSpin(m, spin, o))
<1> DEFINE n == FinishBattleSpin(m, spin, o)
           a == Applied(m, Plan(m, spin, 0))
<1> SUFFICES ASSUME n # m PROVE Waiting(n)
  BY InHandWaits
<1>1. m \in Matches
  BY DEF Typed
<1>2. /\ m.activeBattleResolution # None /\ Plan(m, spin, 0) \in Plans
      /\ \/ o.jumper \in Sides /\ n = StagePendingJump(a, spin, o)
         \/ o.wheels > 0 /\ n = StageSecondarySpins(a, spin, o.wheels, o.faint)
         \/ n = Knockouts(a, spin, o.faint)
  BY <1>1, FinishSpinIs
<1>3. m.activeBattleDeclaration # None
  BY <1>2 DEF Typed, Linked
<1>4. a \in Matches /\ Steady(m, a)
  BY <1>1, <1>2, <1>3, AppliedIs, AppliedSteady
<1> HIDE DEF a, n
<1>5. InHand(a)
  BY <1>4, SteadyKeeps
<1>6. o.wheels \in Nat /\ o.faint \in Nat
  BY OutcomeType
<1>7. CASE o.jumper \in Sides /\ n = StagePendingJump(a, spin, o)
  BY <1>4, <1>5, <1>7, StageJumpWaits
<1>8. CASE o.wheels > 0 /\ n = StageSecondarySpins(a, spin, o.wheels, o.faint)
  <2>1. m.pendingRespin = None /\ m.battleResolutionPending
    BY <1>6, <1>8
  <2>2. Spent(a, a.timers) /\ Undecided(a) /\ a.battleResolutionPending
    BY <1>4, <1>5, <2>1 DEF InHand, Undecided, Steady
  <2> QED BY <1>4, <1>6, <1>8, <2>2, StageSpinsWaits
<1>9. CASE n = Knockouts(a, spin, o.faint)
  BY <1>4, <1>5, <1>6, <1>9, KnockoutsWait
<1> QED BY <1>2, <1>7, <1>8, <1>9

LEMMA SpunSteady ==
  ASSUME NEW m \in Matches
  PROVE  Steady(m, Spun(m))
<1> DEFINE r == [spin |-> m.len, turnSide |-> m.turn, phase |-> "pending", plan |-> None]
           g == Grow(m, 1)
<1>1. g \in Matches /\ Steady(m, g)
  BY GrowCalm, GrowSteady DEF Calm
<1>2. Spun(m) = [g EXCEPT !.activeBattleResolution = r]
  BY DEF Spun
<1> HIDE DEF g, r
<1>3. Steady(g, [g EXCEPT !.activeBattleResolution = r])
  BY <1>1 DEF Steady, Matches
<1> QED BY <1>1, <1>2, <1>3, SteadyTrans

\* performBattleSpin offers a respin, or has an outcome.
LEMMA PerformSpinWaits ==
  ASSUME NEW m, Typed(m), m.activeBattleDeclaration # None, NEW at, NEW o \in Outcomes,
         Spent(m, m.timers), Undecided(m), m.battleResolutionPending
  PROVE  Waiting(PerformBattleSpin(m, at, o))
<1> DEFINE p == [spin |-> m.len, side |-> m.turn, declared |-> FALSE]
           s == Spun(m)
           n == [s EXCEPT !.pendingRespin = p, !.resolving = FALSE]
<1>1. m \in Matches /\ m.len \in Nat /\ InHand(m)
  BY DEF Typed, Matches, InHand, Undecided
<1>2. Typed(s) /\ s \in Matches /\ Steady(m, s)
  BY <1>1, SpunIs, SpunSteady DEF Typed, Linked
<1>3. RespinOffered(m) = n /\ p # None
  <2>1. p \in Respins
    BY <1>1 DEF Respins, Matches
  <2> QED BY <2>1, NoneAssumption DEF RespinOffered
<1> HIDE DEF p, s
<1>4. InHand(s) /\ Undecided(s) /\ s.battleResolutionPending
  BY <1>1, <1>2, SteadyKeeps DEF Steady
<1>5. Waiting(FinishBattleSpin(s, m.len, o))
  BY <1>1, <1>2, <1>4, FinishSpinWaits DEF Undecided
<1>6. Waiting(n)
  <2>1. /\ n.human = s.human /\ n.timers = s.timers /\ n.done = s.done /\ n.turn = s.turn
        /\ n.pendingGrudge = s.pendingGrudge
        /\ n.pendingJump = s.pendingJump /\ n.pendingExtraBattle = s.pendingExtraBattle
    BY <1>2 DEF Matches
  <2> HIDE DEF n
  <2>2. InHand(n)
    BY <1>4, <2>1 DEF InHand, Spent
  <2> QED BY <2>2, InHandWaits
<1> HIDE DEF n
<1>7. PerformBattleSpin(m, at, o) \in {m, n, FinishBattleSpin(s, m.len, o)}
  BY <1>1, <1>3, PerformSpinIs DEF s
<1> QED BY <1>1, <1>5, <1>6, <1>7, InHandWaits

LEMMA ResolveWaits ==
  ASSUME NEW m, Typed(m), m.activeBattleDeclaration # None,
         NEW at \in Nat, NEW d \in Nat, NEW o \in Outcomes,
         Spent(m, m.timers), Undecided(m), m.battleResolutionPending
  PROVE  Waiting(ResolveBattle(m, at, d, o))
<1> DEFINE b == Started(m)
           g == Grow(b, d)
           w == Later(g, "spin", at)
<1>1. m \in Matches
  BY DEF Typed
<1>2. Typed(b) /\ b \in Matches /\ b.activeBattleDeclaration # None
  BY <1>1, StartedIs DEF Typed, Linked
<1>3. Steady(m, b)
  BY <1>1 DEF Started, Steady, Matches
<1>4. ResolveBattle(m, at, d, o) \in {m, PerformBattleSpin(b, at, o), w}
  BY <1>1, ResolveIs
<1> HIDE DEF b
<1>5. Spent(b, b.timers) /\ Undecided(b) /\ b.battleResolutionPending
  BY <1>3, SteadyKeeps DEF Steady
<1>6. Waiting(PerformBattleSpin(b, at, o))
  BY <1>2, <1>5, PerformSpinWaits
<1>7. g \in Matches /\ Steady(b, g)
  BY <1>2, GrowCalm, GrowSteady DEF Calm
<1> HIDE DEF g
<1>8. Spent(g, g.timers) /\ Undecided(g) /\ g.battleResolutionPending
  BY <1>5, <1>7, SteadyKeeps DEF Steady
<1>9. Single(g) /\ Awaits(g, "spin") /\ "spin" \in Steps
  BY <1>8 DEF Single, Undecided, Awaits, Steps
<1>10. Waiting(w)
  BY <1>7, <1>8, <1>9, LaterWaits
<1>11. Waiting(m)
  BY InHandWaits DEF InHand, Undecided
<1> QED BY <1>4, <1>6, <1>10, <1>11

LEMMA RespinWaits ==
  ASSUME NEW m, Typed(m), NEW o \in Outcomes, o.wheels = 0, InHand(m)
  PROVE  Waiting(PerformPendingRespin(m, o))
<1> SUFFICES ASSUME PerformPendingRespin(m, o) # m PROVE Waiting(PerformPendingRespin(m, o))
  BY InHandWaits
<1>1. m.len \in Nat
  BY RespinIs
<1>2. PICK k : /\ Calm(m, k) /\ PerformPendingRespin(m, o) = FinishBattleSpin(k, m.len, o)
               /\ k.pendingRespin # None
               /\ k.human = m.human /\ k.timers = m.timers /\ k.done = m.done /\ k.turn = m.turn
               /\ k.pendingGrudge = m.pendingGrudge /\ k.pendingJump = m.pendingJump
               /\ k.pendingExtraBattle = m.pendingExtraBattle
  BY RespinIs
<1>3. Typed(k)
  BY <1>2, CalmTyped
<1>4. InHand(k)
  BY <1>2 DEF InHand, Spent
<1> QED BY <1>1, <1>2, <1>3, <1>4, FinishSpinWaits

LEMMA SecondaryWaits ==
  ASSUME NEW m \in Matches, NEW at, Spent(m, m.timers), Undecided(m), m.battleResolutionPending
  PROVE  Waiting(PerformSecondarySpins(m, at))
<1> DEFINE p == m.pendingSecondarySpins
           plan == Plan(m, m.len, 1)
           r == [m.activeBattleResolution EXCEPT !.spin = m.len, !.plan = plan]
           grown == Grow(m, 1)
           n == [grown EXCEPT !.activeBattleResolution = r]
           spun == [n EXCEPT !.pendingSecondarySpins = None]
<1>1. InHand(m)
  BY DEF InHand, Undecided
<1> SUFFICES ASSUME p # None, CurrentBattleResolution(m, p.spin, "applying")
             PROVE  Waiting(PerformSecondarySpins(m, at))
  BY <1>1, InHandWaits DEF PerformSecondarySpins
<1>2. p \in SecondarySpins /\ m.len \in Nat
  BY DEF Matches
<1>3. p.left \in Nat /\ p.kos \in Nat /\ (p.left > 1 => p.left - 1 \in Nat)
  BY <1>2 DEF SecondarySpins
<1>4. plan \in Plans
  BY <1>2, PlanType
<1>5. m.activeBattleResolution # None /\ r \in Resolutions
  <2>1. m.activeBattleResolution \in Resolutions
    BY CurrentIs
  <2> HIDE DEF plan
  <2>2. r \in Resolutions
    BY <1>2, <1>4, <2>1 DEF Resolutions
  <2> QED BY <2>1, <2>2, NoneAssumption
<1>6. \/ PerformSecondarySpins(m, at) \in {m, Knockouts(spun, m.len, p.kos)}
      \/ p.left > 1 /\ PerformSecondarySpins(m, at) = StageSecondarySpins(spun, m.len, p.left - 1, p.kos)
  <2>1. [grown EXCEPT !.activeBattleResolution.spin = m.len, !.activeBattleResolution.plan = plan,
                      !.pendingSecondarySpins = None] = spun
    BY DEF Grow, Matches
  <2> QED BY <2>1 DEF PerformSecondarySpins
<1>7. grown \in Matches /\ Steady(m, grown)
  BY GrowCalm, GrowSteady DEF Calm
<1> HIDE DEF r, grown
<1>8. n \in Matches /\ Steady(grown, n)
  <2>1. n \in Matches
    BY <1>5, <1>7 DEF Matches
  <2>2. Steady(grown, n)
    BY <1>7 DEF Steady, Matches
  <2> QED BY <2>1, <2>2
<1> HIDE DEF n
<1>9. spun \in Matches /\ Steady(n, spun)
  BY <1>8 DEF Steady, Matches
<1> HIDE DEF spun
<1>10. Steady(m, spun)
  BY <1>7, <1>8, <1>9, SteadyTrans
<1>11. InHand(spun) /\ Spent(spun, spun.timers) /\ Undecided(spun) /\ spun.battleResolutionPending
  BY <1>1, <1>10, SteadyKeeps DEF Steady
<1>12. p.left > 1 => Waiting(StageSecondarySpins(spun, m.len, p.left - 1, p.kos))
  BY <1>2, <1>3, <1>9, <1>11, StageSpinsWaits
<1>13. Waiting(Knockouts(spun, m.len, p.kos))
  BY <1>2, <1>3, <1>9, <1>11, KnockoutsWait
<1> QED BY <1>1, <1>6, <1>12, <1>13, InHandWaits

LEMMA PerformKnockoutsWaits ==
  ASSUME NEW m \in Matches, NEW at, NEW shift \in BOOLEAN, InHand(m)
  PROVE  Waiting(PerformPendingKnockouts(m, at, shift))
<1> DEFINE p == m.pendingKnockouts
           plan == Plan(m, p.spin, 1)
           grown == Grow(m, 1)
           n == [grown EXCEPT !.activeBattleResolution.plan = plan]
           moved == [n EXCEPT !.pendingKnockouts = None]
           again == StagePendingKnockouts(moved, p.spin, p.left)
           shifted == [again EXCEPT !.pendingKnockouts.shifts = p.shifts + 1]
           fallen == CompleteKnockoutBatch(moved, p.spin, 1, FALSE)
           next == StagePendingKnockouts(fallen, p.spin, p.left - 1)
           last == CompleteKnockoutBatch(moved, p.spin, p.left, TRUE)
<1> SUFFICES ASSUME p # None, CurrentBattleResolution(m, p.spin, "applying")
             PROVE  Waiting(PerformPendingKnockouts(m, at, shift))
  BY InHandWaits DEF PerformPendingKnockouts
<1>1. p \in PendingKnockouts /\ m.len \in Nat
  BY DEF Matches
<1>2. p.spin \in Nat /\ p.left \in Nat /\ (p.left > 2 => p.left - 1 \in Nat)
  BY <1>1 DEF PendingKnockouts
<1>3. plan \in Plans
  BY <1>1, <1>2, PlanType
<1>4. PerformPendingKnockouts(m, at, shift) \in {m, shifted, last} \/
        (p.left > 2 /\ PerformPendingKnockouts(m, at, shift) = next)
  BY DEF PerformPendingKnockouts
<1>5. /\ Calm(m, grown) /\ grown \in Matches /\ grown.activeBattleResolution # None
      /\ Steady(m, grown)
  BY GrowCalm, GrowSteady DEF Calm, Mild, CurrentBattleResolution
<1> HIDE DEF plan, grown
<1>6. n \in Matches
  BY <1>3, <1>5, RebindCalm DEF Calm
<1>7. Steady(grown, n)
  BY <1>5 DEF Steady, Matches
<1> HIDE DEF n
<1>8. moved \in Matches /\ Steady(n, moved)
  BY <1>6 DEF Steady, Matches
<1> HIDE DEF moved
<1>9. InHand(moved)
  BY <1>5, <1>7, <1>8, SteadyTrans, SteadyKeeps
<1>10. again \in Matches /\ Waiting(again)
  BY <1>2, <1>8, <1>9, StageKnockoutsCalm, StageKnockoutsWaits DEF Calm
<1> HIDE DEF again
<1>11. Waiting(shifted)
  <2>1. Steady(again, shifted)
    BY <1>10 DEF Steady, Matches
  <2> QED BY <1>10, <2>1, SteadyWaits
<1>12. fallen \in Matches /\ InHand(fallen) /\ Waiting(last)
  BY <1>2, <1>8, <1>9, BatchCalm, BatchWaits, SteadyKeeps DEF Calm
<1> HIDE DEF fallen, shifted, last
<1>13. p.left > 2 => Waiting(next)
  BY <1>2, <1>12, StageKnockoutsWaits
<1> QED BY <1>4, <1>11, <1>12, <1>13, InHandWaits

\* A declared battle is owed its resolution.
LEMMA DeclaredWaits ==
  ASSUME NEW m \in Matches, NEW side \in Sides, NEW at \in Nat, Spent(m, m.timers), Undecided(m)
  PROVE  Waiting(Declared(m, side, at))
<1> DEFINE d == [at |-> at, started |-> FALSE, turnSide |-> side, outcomes |-> 0]
           n == [m EXCEPT !.battleResolutionPending = TRUE, !.activeBattleDeclaration = d]
<1>1. d \in Declarations
  BY DEF Declarations
<1>2. Declared(m, side, at) = Later(n, "resolve", at)
  BY DEF Declared
<1> HIDE DEF d
<1>3. n \in Matches
  BY <1>1 DEF Matches
<1>4. /\ n.human = m.human /\ n.timers = m.timers /\ n.done = m.done /\ n.turn = m.turn
      /\ n.pendingRespin = m.pendingRespin /\ n.pendingGrudge = m.pendingGrudge
      /\ n.pendingJump = m.pendingJump /\ n.pendingExtraBattle = m.pendingExtraBattle
      /\ n.battleResolutionPending
  BY DEF Matches
<1> HIDE DEF n
<1>5. Spent(n, n.timers) /\ Single(n) /\ Awaits(n, "resolve")
  BY <1>4 DEF Spent, Undecided, Single, Awaits
<1>6. "resolve" \in Steps
  BY DEF Steps
<1> QED BY <1>2, <1>3, <1>5, <1>6, LaterWaits

LEMMA OpenExtra ==
  ASSUME NEW m \in Matches, NEW p \in ExtraBattles, NEW opens \in Battles, NEW extra \in Extras
  PROVE  [m EXCEPT !.pendingExtraBattle = p, !.pendingBattles = opens, !.extraBattle = extra] \in Matches
BY DEF Matches

LEMMA StageExtraWaits ==
  ASSUME NEW m \in Matches, NEW jump \in Jumps, InHand(m), m.pendingRespin = None
  PROVE  Waiting(StagePendingExtraBattle(m, jump))
<1> DEFINE p == [at |-> m.len, spin |-> jump.spin, side |-> jump.side, choices |-> m.extraBattle # "used"]
           opens == IF m.extraBattle # "used" THEN "may" ELSE "none"
           extra == IF m.extraBattle = "none" THEN "open" ELSE m.extraBattle
           a == [m EXCEPT !.pendingExtraBattle = p, !.pendingBattles = opens, !.extraBattle = extra]
           b == [a EXCEPT !.battleResolutionPending = TRUE, !.resolving = FALSE]
<1>1. p \in ExtraBattles /\ m.len \in Nat
  BY DEF ExtraBattles, Matches, Jumps
<1>0. p.side = jump.side /\ p # None
  BY <1>1, NoneAssumption
<1>2. opens \in Battles /\ extra \in Extras
  BY DEF Battles, Extras, Matches
<1>3. StagePendingExtraBattle(m, jump) \in {b, Later(b, "opponent_extra", m.len)}
      /\ (~Controlled(m, jump.side) => StagePendingExtraBattle(m, jump) = b)
  <2>1. [m EXCEPT !.pendingExtraBattle = p, !.pendingBattles = opens,
                  !.extraBattle = IF @ = "none" THEN "open" ELSE @,
                  !.battleResolutionPending = TRUE, !.resolving = FALSE] = b
    BY DEF Matches
  <2> QED BY <2>1 DEF StagePendingExtraBattle
<1> HIDE DEF p, opens, extra
<1>4. a \in Matches
  BY <1>1, <1>2, OpenExtra
<1>5. /\ a.human = m.human /\ a.timers = m.timers /\ a.done = m.done /\ a.turn = m.turn
      /\ a.pendingRespin = m.pendingRespin /\ a.pendingGrudge = m.pendingGrudge
      /\ a.pendingJump = m.pendingJump /\ a.pendingExtraBattle = p
  BY DEF Matches
<1> HIDE DEF a
<1>6. b \in Matches
  BY <1>4, AskSide DEF Calm
<1>7. /\ b.human = a.human /\ b.timers = a.timers /\ b.done = a.done /\ b.turn = a.turn
      /\ b.pendingRespin = a.pendingRespin /\ b.pendingGrudge = a.pendingGrudge
      /\ b.pendingJump = a.pendingJump /\ b.pendingExtraBattle = a.pendingExtraBattle
  BY <1>4 DEF Matches
<1> HIDE DEF b
<1>8. Spent(b, b.timers)
  BY <1>5, <1>7 DEF InHand, Spent
<1>9. Single(b)
  BY <1>5, <1>7 DEF InHand, Single
<1>10. Controlled(m, jump.side) => Awaits(b, "opponent_extra")
  BY <1>0, <1>5, <1>7 DEF Awaits, Controlled, Continuing
<1>11. "opponent_extra" \in Steps
  BY DEF Steps
<1>12. Controlled(m, jump.side) => Waiting(Later(b, "opponent_extra", m.len))
  BY <1>1, <1>6, <1>8, <1>9, <1>10, <1>11, LaterWaits
<1>13. Waiting(b)
  BY <1>8, <1>9 DEF Waiting
<1> QED BY <1>3, <1>12, <1>13

LEMMA StageGrudgeWaits ==
  ASSUME NEW m \in Matches, NEW side \in Sides, NEW type \in Enders, NEW index \in Nat,
         Spent(m, m.timers), NoChoicePending(m)
  PROVE  Waiting(StagePendingGrudge(m, side, type, index))
<1> DEFINE p == [at |-> index, bound |-> m.len, side |-> side, type |-> type, declared |-> FALSE]
           n == [m EXCEPT !.pendingGrudge = p, !.pendingBattles = "none"]
<1>1. p \in Grudges /\ "none" \in Battles /\ p.side = side /\ ~p.declared /\ p # None
  <2>1. p \in Grudges
    BY DEF Grudges, Matches
  <2> QED BY <2>1, NoneAssumption DEF Battles
<1>2. StagePendingGrudge(m, side, type, index) =
        IF Controlled(m, side) THEN Later(n, "opponent_grudge", index) ELSE n
  BY DEF StagePendingGrudge
<1> HIDE DEF p
<1>3. n \in Matches
  BY <1>1 DEF Matches
<1>4. /\ n.human = m.human /\ n.timers = m.timers /\ n.done = m.done /\ n.turn = m.turn
      /\ n.pendingRespin = m.pendingRespin /\ n.pendingGrudge = p
      /\ n.pendingJump = m.pendingJump /\ n.pendingExtraBattle = m.pendingExtraBattle
      /\ n.battleResolutionPending = m.battleResolutionPending
  BY DEF Matches
<1> HIDE DEF n
<1>5. Spent(n, n.timers) /\ Single(n)
  BY <1>4 DEF NoChoicePending, Spent, Single
<1>6. Controlled(m, side) => Awaits(n, "opponent_grudge")
  BY <1>1, <1>4 DEF Awaits, Controlled, Continuing
<1>7. "opponent_grudge" \in Steps
  BY DEF Steps
<1>8. Controlled(m, side) => Waiting(Later(n, "opponent_grudge", index))
  BY <1>3, <1>5, <1>6, <1>7, LaterWaits
<1> QED BY <1>2, <1>5, <1>8 DEF Waiting

LEMMA GrudgeWaits ==
  ASSUME NEW m \in Matches, NEW at, NEW b \in MoveOpenings,
         Spent(m, m.timers), Single(m), m.pendingGrudge # None
  PROVE  Waiting(PerformPendingGrudge(m, at, b))
<1> DEFINE p == m.pendingGrudge
           a == [m EXCEPT !.pendingGrudge = None, !.pendingBattles = b.battles,
                          !.pendingTouch = b.touch, !.resolving = FALSE]
           spun == Grow(a, 1)
           plan == Plan(m, p.at, 1)
           ended == CompleteTurn(spun, p.side, plan)
<1>1. p \in Grudges /\ b.battles \in Battles /\ b.touch \in BOOLEAN
  BY DEF Matches, MoveOpenings, Openings
<1>2. p.side \in Sides /\ p.at \in Nat
  BY <1>1 DEF Grudges
<1>3. plan \in Plans
  BY <1>2, PlanType
<1>4. PerformPendingGrudge(m, at, b) \in {m, OpponentLater(spun), spun, OpponentLater(ended)}
  BY DEF PerformPendingGrudge
<1>5. a \in Matches
  BY <1>1 DEF Matches
<1>6. /\ a.human = m.human /\ a.timers = m.timers /\ a.done = m.done /\ a.turn = m.turn
      /\ a.pendingRespin = m.pendingRespin /\ a.pendingGrudge = None
      /\ a.pendingJump = m.pendingJump /\ a.pendingExtraBattle = m.pendingExtraBattle
      /\ a.battleResolutionPending = m.battleResolutionPending
  BY DEF Matches
<1> HIDE DEF a
<1>7. Spent(a, a.timers) /\ NoChoicePending(a)
  BY <1>6 DEF Spent, Single, NoChoicePending
<1>8. spun \in Matches /\ Steady(a, spun)
  BY <1>5, GrowCalm, GrowSteady DEF Calm
<1> HIDE DEF spun
<1>9. Spent(spun, spun.timers) /\ NoChoicePending(spun)
  BY <1>7, <1>8, SteadyKeeps
<1>10. Waiting(spun) /\ Waiting(OpponentLater(spun)) /\ Waiting(OpponentLater(ended))
  BY <1>2, <1>3, <1>8, <1>9, FreeWaits, OpponentWaits, TurnWaits
<1>11. Waiting(m)
  BY DEF Waiting
<1> QED BY <1>4, <1>10, <1>11

LEMMA OwingSteady ==
  ASSUME NEW m \in Matches
  PROVE  Steady(m, Owing(m))
BY DEF Owing, Steady, Matches

LEMMA GrudgeChosenWaits ==
  ASSUME NEW m \in Matches, Spent(m, m.timers), Single(m), m.pendingGrudge # None
  PROVE  Waiting(GrudgeChosen(m))
<1> DEFINE g == Grow(m, 1)
           p == [m.pendingGrudge EXCEPT !.declared = TRUE, !.bound = m.len + 1]
           n == [g EXCEPT !.pendingGrudge = p]
           at == m.pendingGrudge.at
           last == Later(n, "grudge", at)
<1>1. m.pendingGrudge \in Grudges /\ m.len \in Nat
  BY DEF Matches
<1>2. p \in Grudges /\ p.declared /\ p # None /\ at \in Nat
  <2>1. p \in Grudges /\ at \in Nat
    <3> DEFINE bound == m.len + 1
    <3>1. bound \in Nat
      BY <1>1
    <3> HIDE DEF bound
    <3>2. \A q \in Grudges : [q EXCEPT !.declared = TRUE, !.bound = bound] \in Grudges /\ q.at \in Nat
      BY <3>1 DEF Grudges
    <3> QED BY <1>1, <3>2 DEF bound
  <2>2. p.declared
    BY <1>1 DEF Grudges
  <2> QED BY <2>1, <2>2, NoneAssumption
<1>3. GrudgeChosen(m) = Owing(last)
  <2>1. [g EXCEPT !.pendingGrudge.declared = TRUE, !.pendingGrudge.bound = m.len + 1] = n
    BY DEF Grow, Matches
  <2> QED BY <2>1 DEF GrudgeChosen
<1>4. g \in Matches /\ Steady(m, g)
  BY GrowCalm, GrowSteady DEF Calm
<1> HIDE DEF g, p, at
<1>5. n \in Matches
  BY <1>2, <1>4 DEF Matches
<1>6. /\ n.human = g.human /\ n.timers = g.timers /\ n.done = g.done /\ n.turn = g.turn
      /\ n.pendingRespin = g.pendingRespin /\ n.pendingGrudge = p
      /\ n.pendingJump = g.pendingJump /\ n.pendingExtraBattle = g.pendingExtraBattle
      /\ n.battleResolutionPending = g.battleResolutionPending
  BY <1>4 DEF Matches
<1> HIDE DEF n
<1>7. Spent(n, n.timers)
  BY <1>4, <1>6 DEF Steady, Spent
<1>8. Single(n)
  BY <1>4, <1>6 DEF Steady, Single
<1>9. Awaits(n, "grudge") /\ "grudge" \in Steps
  BY <1>2, <1>6 DEF Awaits, Continuing, Steps
<1>10. Waiting(last) /\ last \in Matches
  BY <1>2, <1>5, <1>7, <1>8, <1>9, LaterWaits, LaterType
<1> HIDE DEF last
<1> QED BY <1>3, <1>10, OwingSteady, SteadyWaits

\* acceptPendingJump: the match is won, or another battle may follow, or the
\* turn is over.
LEMMA JumpLandedWaits ==
  ASSUME NEW m \in Matches, NEW n \in Nat, NEW goal \in BOOLEAN, Spent(m, m.timers), Single(m),
         m.pendingJump # None, m.pendingGrudge = None, m.activeBattleResolution # None
  PROVE  Waiting(JumpLanded(m, n, goal))
<1> DEFINE p == m.pendingJump
           plan == Plan(m, p.spin, 1)
           grown == Grow(m, 1)
           landed == [grown EXCEPT !.activeBattleResolution.plan = plan]
           batch == CompleteKnockoutBatch(landed, p.spin, n, FALSE)
           fallen == [batch EXCEPT !.pendingJump = None]
           won == Finish(landed)
<1>1. p \in Jumps /\ p.spin \in Nat
  BY DEF Matches, Jumps
<1>2. plan \in Plans
  BY <1>1, PlanType
<1>3. JumpLanded(m, n, goal) \in {won, StagePendingExtraBattle(fallen, p),
                                 CompleteBattleResolution(fallen, p.spin, TRUE)}
  BY DEF JumpLanded
<1>4. grown \in Matches /\ grown.activeBattleResolution # None /\ Steady(m, grown)
  BY GrowCalm, GrowSteady DEF Calm, Mild
<1> HIDE DEF plan, grown
<1>5. landed \in Matches
  BY <1>2, <1>4, RebindCalm DEF Calm
<1>6. Steady(grown, landed)
  BY <1>4 DEF Steady, Matches
<1> HIDE DEF landed
<1>7. Steady(landed, won)
  BY <1>5 DEF Finish, Steady, Matches
<1>8. Waiting(won)
  <2>1. Waiting(m)
    BY DEF Waiting
  <2> QED BY <1>4, <1>6, <1>7, <2>1, SteadyWaits
<1> HIDE DEF won
<1>9. batch \in Matches
  BY <1>5, BatchCalm DEF Calm
<1>10. Steady(landed, batch)
  <2>1. Grow(landed, n) \in Matches /\ Steady(landed, Grow(landed, n))
    BY <1>5, GrowCalm, GrowSteady DEF Calm
  <2> QED BY <2>1, SteadySame DEF CompleteKnockoutBatch
<1> HIDE DEF batch
<1>11. Steady(m, batch)
  BY <1>4, <1>6, <1>10, SteadyTrans
<1>12. fallen \in Matches
  BY <1>9 DEF Matches
<1>13. /\ fallen.human = batch.human /\ fallen.timers = batch.timers /\ fallen.done = batch.done
       /\ fallen.turn = batch.turn
       /\ fallen.pendingRespin = batch.pendingRespin /\ fallen.pendingGrudge = batch.pendingGrudge
       /\ fallen.pendingJump = None /\ fallen.pendingExtraBattle = batch.pendingExtraBattle
  BY <1>9 DEF Matches
<1> HIDE DEF fallen
<1>14. m.pendingRespin = None /\ m.pendingExtraBattle = None
  BY DEF Single
<1>15. InHand(fallen) /\ fallen.pendingRespin = None
  BY <1>11, <1>13, <1>14 DEF Steady, InHand, Spent
<1>16. Waiting(StagePendingExtraBattle(fallen, p))
  BY <1>1, <1>12, <1>15, StageExtraWaits
<1>17. Waiting(CompleteBattleResolution(fallen, p.spin, TRUE))
  BY <1>12, <1>15, BattleWaits
<1> QED BY <1>3, <1>8, <1>16, <1>17

\* completeBattleResolution with another battle to come.
LEMMA ContinueClears ==
  ASSUME NEW m \in Matches, NEW spin, CurrentBattleResolution(m, spin, "applying"),
         Fits(m, m.activeBattleResolution.plan)
  PROVE  LET n == CompleteBattleResolution(m, spin, FALSE)
         IN /\ n \in Matches /\ n.human = m.human /\ n.timers = m.timers /\ n.done = m.done
            /\ n.turn = m.turn /\ n.pendingGrudge = m.pendingGrudge
            /\ n.pendingRespin = None /\ n.pendingJump = None /\ n.pendingExtraBattle = None
<1> DEFINE settled == [m EXCEPT !.activeBattleResolution.phase = "completed"]
           cleared == [settled EXCEPT !.pendingRespin = None, !.pendingJump = None,
                                      !.pendingExtraBattle = None]
           going == [cleared EXCEPT !.pendingPlate = "none", !.pendingBattles = "none",
                                    !.battleResolutionPending = FALSE]
<1>1. CompleteBattleResolution(m, spin, FALSE) = going
  BY DEF CompleteBattleResolution
<1>2. settled \in Matches
  BY SettleCalm DEF Calm, CurrentBattleResolution
<1>3. /\ settled.human = m.human /\ settled.timers = m.timers /\ settled.done = m.done
      /\ settled.turn = m.turn /\ settled.pendingGrudge = m.pendingGrudge
  BY DEF Matches
<1> HIDE DEF settled
<1>4. cleared \in Matches
  BY <1>2 DEF Matches
<1>5. /\ cleared.human = settled.human /\ cleared.timers = settled.timers
      /\ cleared.done = settled.done /\ cleared.turn = settled.turn
      /\ cleared.pendingGrudge = settled.pendingGrudge
      /\ cleared.pendingRespin = None /\ cleared.pendingJump = None /\ cleared.pendingExtraBattle = None
  BY <1>2 DEF Matches
<1> HIDE DEF cleared
<1>6. going \in Matches
  BY <1>4, DropPlate DEF Calm
<1>7. /\ going.human = cleared.human /\ going.timers = cleared.timers /\ going.done = cleared.done
      /\ going.turn = cleared.turn /\ going.pendingGrudge = cleared.pendingGrudge
      /\ going.pendingRespin = cleared.pendingRespin /\ going.pendingJump = cleared.pendingJump
      /\ going.pendingExtraBattle = cleared.pendingExtraBattle
  BY <1>4 DEF Matches
<1> HIDE DEF going
<1> QED BY <1>1, <1>3, <1>5, <1>6, <1>7

\* acceptPendingExtraBattle: a second battle is declared, or the turn is over.
LEMMA ExtraTakenWaits ==
  ASSUME NEW m \in Matches, NEW fights \in BOOLEAN, Spent(m, m.timers),
         m.pendingExtraBattle # None, m.pendingGrudge = None,
         CurrentBattleResolution(m, m.pendingExtraBattle.spin, "applying"),
         Fits(m, Plan(m, m.pendingExtraBattle.spin, 1))
  PROVE  Waiting(ExtraBattleTaken(m, fights))
<1> DEFINE p == m.pendingExtraBattle
           plan == Plan(m, p.spin, 1)
           grown == Grow(m, 1)
           taken == [grown EXCEPT !.activeBattleResolution.plan = plan]
           over == CompleteBattleResolution(taken, p.spin, TRUE)
           on == CompleteBattleResolution(taken, p.spin, FALSE)
           k == [on EXCEPT !.extraBattle = "used"]
           d == Declared(k, m.turn, m.len)
<1>1. p \in ExtraBattles /\ p.spin \in Nat /\ m.len \in Nat /\ m.turn \in Sides
  BY DEF Matches, ExtraBattles
<1>2. plan \in Plans /\ Fits(m, plan)
  BY <1>1, PlanType
<1>3. ExtraBattleTaken(m, fights) = IF fights THEN Owing(d) ELSE over
  BY DEF ExtraBattleTaken
<1>4. /\ grown \in Matches /\ Steady(m, grown) /\ grown.phase = m.phase /\ grown.cut = m.cut
      /\ grown.activeBattleResolution = m.activeBattleResolution
  <2>1. grown.phase = m.phase /\ grown.cut = m.cut /\ grown.activeBattleResolution = m.activeBattleResolution
    BY DEF Grow, Matches
  <2> QED BY <2>1, GrowCalm, GrowSteady DEF Calm
<1>5. m.activeBattleResolution # None
  BY DEF CurrentBattleResolution
<1> HIDE DEF plan, grown
<1>6. taken \in Matches
  BY <1>2, <1>4, <1>5, RebindCalm DEF Calm
<1>7. /\ taken.phase = grown.phase /\ taken.cut = grown.cut
      /\ taken.activeBattleResolution = [grown.activeBattleResolution EXCEPT !.plan = plan]
  BY <1>4 DEF Matches
<1>8. Steady(grown, taken)
  BY <1>4 DEF Steady, Matches
<1> HIDE DEF taken
<1>9. m.activeBattleResolution \in Resolutions
  BY <1>5 DEF Matches
<1>10. /\ taken.activeBattleResolution.plan = plan
       /\ taken.activeBattleResolution.phase = m.activeBattleResolution.phase
       /\ taken.activeBattleResolution.spin = m.activeBattleResolution.spin
       /\ taken.activeBattleResolution.turnSide = m.activeBattleResolution.turnSide
  BY <1>4, <1>7, <1>9 DEF Resolutions
<1>11. taken.activeBattleResolution # None
  <2>1. Calm(grown, taken)
    BY <1>2, <1>4, <1>5, RebindCalm DEF taken
  <2> QED BY <1>4, <1>5, <2>1 DEF Calm, Mild
<1>12. Steady(m, taken)
  BY <1>4, <1>8, SteadyTrans
<1>13. CurrentBattleResolution(taken, p.spin, "applying") /\ Fits(taken, taken.activeBattleResolution.plan)
  BY <1>2, <1>4, <1>7, <1>10, <1>11, <1>12 DEF CurrentBattleResolution, Fits, Steady
<1>14. Spent(taken, taken.timers)
  BY <1>12, SteadyKeeps
<1>15. Waiting(over)
  BY <1>6, <1>13, <1>14, BattleIsOver
<1>16. /\ on \in Matches /\ on.human = taken.human /\ on.timers = taken.timers /\ on.done = taken.done
       /\ on.turn = taken.turn /\ on.pendingGrudge = taken.pendingGrudge
       /\ on.pendingRespin = None /\ on.pendingJump = None /\ on.pendingExtraBattle = None
  BY <1>6, <1>13, ContinueClears
<1> HIDE DEF over, on
<1>17. Spent(on, on.timers) /\ Undecided(on)
  BY <1>12, <1>14, <1>16 DEF Spent, Undecided, Steady
<1>18. k \in Matches /\ Steady(on, k)
  <2>1. k \in Matches
    BY <1>16, UseExtra DEF Calm
  <2>2. Steady(on, k)
    BY <1>16 DEF Steady, Matches
  <2> QED BY <2>1, <2>2
<1> HIDE DEF k
<1>19. Spent(k, k.timers) /\ Undecided(k)
  BY <1>17, <1>18, SteadyKeeps
<1>20. d \in Matches /\ Waiting(d)
  BY <1>1, <1>18, <1>19, DeclaredIs, DeclaredWaits
<1> HIDE DEF d
<1>21. Waiting(Owing(d))
  BY <1>20, OwingSteady, SteadyWaits
<1> QED BY <1>3, <1>15, <1>21

-----------------------------------------------------------------------------
\* Nothing more is owed to a match that is decided.
Owed(m) == m.phase = "started" => Waiting(m)

LEMMA EndedWaits ==
  ASSUME NEW m \in Matches, NEW side \in Sides, Spent(m, m.timers), NoChoicePending(m)
  PROVE  Waiting(OpponentLater(CompleteTurn(Grow(m, 1), side, Plan(m, m.len, 1))))
<1> DEFINE grown == Grow(m, 1)
           plan == Plan(m, m.len, 1)
<1>1. plan \in Plans
  BY PlanType DEF Matches
<1>2. grown \in Matches /\ Steady(m, grown)
  BY GrowCalm, GrowSteady DEF Calm
<1> HIDE DEF grown, plan
<1>3. Spent(grown, grown.timers) /\ NoChoicePending(grown)
  BY <1>2, SteadyKeeps
<1>4. Waiting(OpponentLater(CompleteTurn(grown, side, plan)))
  BY <1>1, <1>2, <1>3, TurnWaits
<1> QED BY <1>4 DEF grown, plan

LEMMA MovedWaits ==
  ASSUME NEW m \in Matches, NEW side \in Sides, NEW type \in Enders, NEW b \in MoveOpenings,
         Spent(m, m.timers), NoChoicePending(m)
  PROVE  Waiting(Moved(m, side, type, b))
<1> DEFINE plate == IF type = "mp_move" /\ ~b.plate THEN "none" ELSE m.pendingPlate
           grown == Grow(m, 1)
           moved == [grown EXCEPT !.pendingPlate = plate]
           won == Finish(moved)
           opened == [moved EXCEPT !.pendingBattles = b.battles, !.pendingTouch = b.touch]
           plan == Plan(m, m.len, 1)
<1>1. b.battles \in Battles /\ b.touch \in BOOLEAN /\ m.len \in Nat /\ plan \in Plans
  BY PlanType DEF MoveOpenings, Openings, Matches
<1>2. Moved(m, side, type, b) \in
        {won, StagePendingGrudge(moved, side, type, m.len), opened,
         OpponentLater(CompleteTurn(moved, side, plan))}
  <2>1. moved = [grown EXCEPT !.pendingPlate = IF type = "mp_move" /\ ~b.plate THEN "none" ELSE @]
    BY DEF Grow, Matches
  <2> HIDE DEF moved
  <2> QED BY <2>1 DEF Moved
<1>3. plate \in Plates
  BY DEF Matches, Plates
<1>4. grown \in Matches /\ Steady(m, grown)
  BY GrowCalm, GrowSteady DEF Calm
<1> HIDE DEF plate, grown, plan
<1>5. moved \in Matches
  BY <1>3, <1>4 DEF Matches
<1>6. Steady(grown, moved)
  BY <1>4 DEF Steady, Matches
<1> HIDE DEF moved
<1>7. Spent(moved, moved.timers) /\ NoChoicePending(moved)
  BY <1>4, <1>6, SteadyTrans, SteadyKeeps
<1>8. Waiting(moved)
  BY <1>7, FreeWaits
<1>9. Steady(moved, won)
  BY <1>5 DEF Finish, Steady, Matches
<1>10. Steady(moved, opened)
  BY <1>5 DEF Steady, Matches
<1>11. Waiting(won) /\ Waiting(opened)
  BY <1>8, <1>9, <1>10, SteadyWaits
<1> HIDE DEF won, opened
<1>12. Waiting(StagePendingGrudge(moved, side, type, m.len))
  BY <1>1, <1>5, <1>7, StageGrudgeWaits
<1>13. Waiting(OpponentLater(CompleteTurn(moved, side, plan)))
  BY <1>1, <1>5, <1>7, TurnWaits
<1> QED BY <1>2, <1>11, <1>12, <1>13

LEMMA PlayOpponentWaits ==
  ASSUME NEW m \in Matches, NEW choice, NEW b \in MoveOpenings, Spent(m, m.timers), NoChoicePending(m)
  PROVE  Waiting(PlayOpponentTurn(m, choice, b))
<1> DEFINE n == PlayOpponentTurn(m, choice, b)
           g == Grow(m, 1)
           plan == Plan(m, m.len, 1)
           ended == CompleteTurn(g, "white", plan)
           opened == [g EXCEPT !.pendingBattles = b.battles, !.pendingTouch = b.touch]
           staged == StagePendingGrudge(g, "white", "mp_move", m.len)
           d == Declared(g, "white", m.len)
           lost == Finish(m)
           won == Finish(g)
<1>1. /\ g \in Matches /\ Steady(m, g) /\ m.len \in Nat
      /\ "white" \in Sides /\ "mp_move" \in Enders
  BY GrowCalm, GrowSteady DEF Calm, Matches, Sides, Enders
<1>2. plan \in Plans /\ b.battles \in Battles /\ b.touch \in BOOLEAN
  BY <1>1, PlanType DEF MoveOpenings, Openings
<1>3. n \in {m, OpponentLater(ended), lost, ended, won, staged, OpponentLater(opened), d}
  BY DEF PlayOpponentTurn
<1> HIDE DEF n, g, plan
<1>4. Spent(g, g.timers) /\ NoChoicePending(g)
  BY <1>1, SteadyKeeps
<1>5. Waiting(ended) /\ Waiting(OpponentLater(ended))
  BY <1>1, <1>2, <1>4, TurnWaits
<1>6. Waiting(staged)
  BY <1>1, <1>4, StageGrudgeWaits
<1>7. Waiting(d)
  <2>1. Undecided(g)
    BY <1>4 DEF NoChoicePending, Undecided
  <2> QED BY <1>1, <1>4, <2>1, DeclaredWaits
<1> HIDE DEF ended, staged, d
<1>8. opened \in Matches
  BY <1>1, <1>2, OpenMove DEF Calm
<1>9. Steady(g, opened)
  BY <1>1 DEF Steady, Matches
<1> HIDE DEF opened
<1>10. Waiting(OpponentLater(opened))
  BY <1>4, <1>8, <1>9, SteadyKeeps, OpponentWaits
<1>11. Steady(m, lost)
  BY DEF Finish, Steady, Matches
<1>12. Steady(g, won)
  BY <1>1 DEF Finish, Steady, Matches
<1> HIDE DEF lost, won
<1>13. Waiting(m) /\ Waiting(lost) /\ Waiting(won)
  BY <1>4, <1>11, <1>12, FreeWaits, SteadyWaits
<1>14. Waiting(n)
  BY <1>3, <1>5, <1>6, <1>7, <1>10, <1>13
<1> QED BY <1>14 DEF n

\* A client that is asked to choose has nothing to wait for.
LEMMA AdmitsNoStep ==
  ASSUME NEW m \in Matches, Single(m), NEW side \in Sides, NEW reserve, Admits(m, side, reserve),
         ~Controlled(m, side), m.battleResolutionPending => ~Undecided(m),
         NEW t \in m.timers
  PROVE  ~Awaits(m, t.step)
<1> SUFFICES ASSUME Awaits(m, t.step)
             PROVE  FALSE
  OBVIOUS
<1>1. SelectionSide(m) = side /\ (m.pendingRespin # None => ~m.pendingRespin.declared)
  BY DEF Admits
<1>2. t.step \in Steps
  BY DEF Matches, Timers
<1>3. t.step \notin Continuing
  BY DEF Awaits
<1>4. t.step # "respin"
  BY <1>1 DEF Awaits
<1>5. m.pendingGrudge # None => side = IF m.pendingGrudge.declared THEN "both" ELSE m.pendingGrudge.side
  BY <1>1 DEF SelectionSide
<1>6. t.step # "grudge" /\ t.step # "opponent_grudge"
  BY <1>5 DEF Awaits, Sides
<1>7. t.step # "opponent_jump"
  <2> SUFFICES ASSUME m.pendingJump # None, Controlled(m, m.pendingJump.side) PROVE FALSE
    BY DEF Awaits
  <2>1. m.pendingGrudge = None /\ m.pendingRespin = None
    BY DEF Single
  <2>2. side = m.pendingJump.side
    BY <1>1, <2>1 DEF SelectionSide
  <2> QED BY <2>2
<1>8. t.step # "opponent_extra"
  <2> SUFFICES ASSUME m.pendingExtraBattle # None, Controlled(m, m.pendingExtraBattle.side) PROVE FALSE
    BY DEF Awaits
  <2>1. m.pendingGrudge = None /\ m.pendingRespin = None /\ m.pendingJump = None
    BY DEF Single
  <2>2. side = m.pendingExtraBattle.side
    BY <1>1, <2>1 DEF SelectionSide
  <2> QED BY <2>2
<1>9. t.step # "opponent"
  <2> SUFFICES ASSUME NoChoicePending(m), Controlled(m, m.turn) PROVE FALSE
    BY DEF Awaits
  <2>1. side = m.turn
    BY <1>1 DEF SelectionSide, NoChoicePending
  <2> QED BY <2>1
<1> QED BY <1>2, <1>3, <1>4, <1>6, <1>7, <1>8, <1>9 DEF Steps, Continuing

LEMMA AdmitsSpent ==
  ASSUME NEW m \in Matches, Waiting(m), NEW side \in Sides, NEW reserve, Admits(m, side, reserve),
         ~Controlled(m, side), m.battleResolutionPending => ~Undecided(m)
  PROVE  Spent(m, m.timers) /\ Single(m)
BY AdmitsNoStep DEF Waiting

\* The clock stopped the handler, or what follows owes what it should.
LEMMA AcceptedOwed ==
  ASSUME match \in Matches, NEW pause \in Pauses, NEW n, Accepted(pause, n),
         Onward(Paused(match, pause), n), Paused(match, pause) = match => Waiting(n)
  PROVE  Owed(match')
<1>1. CASE pause = "out"
  <2>1. match' = Finish(match)
    BY <1>1 DEF Accepted
  <2>2. Finish(match).phase = "decided"
    BY DEF Finish, Matches
  <2> QED BY <2>1, <2>2 DEF Owed
<1>2. CASE pause # "out"
  <2>1. match' = n
    BY <1>2 DEF Accepted
  <2> QED BY <2>1, PausedIs DEF Owed, Onward
<1> QED BY <1>1, <1>2

LEMMA MoveOwed ==
  ASSUME match \in Matches, Waiting(match), NEW side \in Sides, ~Controlled(match, side),
         NEW type \in Enders, NEW b \in MoveOpenings, NEW pause \in Pauses, Move(side, type, b, pause)
  PROVE  Owed(match')
<1> DEFINE m == Paused(match, pause)
<1>1. Accepted(pause, Moved(m, side, type, b)) /\ NoChoicePending(match)
  BY DEF Move, MayMove, NoContinuation
<1>2. PICK reserve : Admits(match, side, reserve)
  BY DEF Move, MayMove
<1>3. Spent(match, match.timers)
  BY <1>1, <1>2, AdmitsSpent DEF NoChoicePending
<1>4. m \in Matches
  BY PausedIs
<1> HIDE DEF m
<1>5. Onward(m, Moved(m, side, type, b))
  BY <1>4, MovedCalm, CalmOnward
<1>6. m = match => Waiting(Moved(m, side, type, b))
  BY <1>1, <1>3, MovedWaits
<1> QED BY <1>1, <1>5, <1>6, AcceptedOwed DEF m

LEMMA PlateOwed ==
  ASSUME match \in Matches, Waiting(match), NEW side, NEW plate \in {"select", "respin"},
         NEW pause \in Pauses, SelectByPlate(side, plate, pause)
  PROVE  Owed(match')
<1> DEFINE m == Paused(match, pause)
           g == Grow(m, 1)
           n == [g EXCEPT !.pendingPlate = plate]
<1>1. Accepted(pause, n)
  BY DEF SelectByPlate
<1>2. m \in Matches
  BY PausedIs
<1> HIDE DEF m
<1>3. g \in Matches /\ Steady(m, g) /\ Onward(m, g)
  BY <1>2, GrowCalm, GrowSteady, CalmOnward DEF Calm
<1> HIDE DEF g
<1>4. Steady(g, n)
  BY <1>3 DEF Steady, Matches
<1>5. Onward(g, n)
  BY <1>3 DEF Onward, Matches
<1> HIDE DEF n
<1>6. Onward(m, n)
  BY <1>3, <1>5, OnwardTrans
<1>7. m = match => Waiting(n)
  BY <1>3, <1>4, SteadyWaits
<1> QED BY <1>1, <1>6, <1>7, AcceptedOwed DEF m

LEMMA BattleDeclared ==
  ASSUME NEW m \in Matches, NEW side \in Sides
  PROVE  LET n == Owing(Declared([Grow(m, 1) EXCEPT !.pendingTouch = FALSE], side, m.len))
         IN Onward(m, n) /\ (Spent(m, m.timers) /\ NoChoicePending(m) => Waiting(n))
<1> DEFINE g == Grow(m, 1)
           k == [g EXCEPT !.pendingTouch = FALSE]
           d == Declared(k, side, m.len)
           n == Owing(d)
<1>1. g \in Matches /\ Steady(m, g) /\ Calm(m, g) /\ m.len \in Nat
  BY GrowCalm, GrowSteady DEF Calm, Matches
<1> HIDE DEF g
<1>2. k \in Matches /\ Calm(g, k)
  BY <1>1, ClearTouch DEF Calm
<1>3. Steady(g, k)
  BY <1>1 DEF Steady, Matches
<1> HIDE DEF k
<1>4. d \in Matches /\ d.phase = k.phase /\ d.late = k.late /\ k.timers \subseteq d.timers
  <2> DEFINE at == m.len
  <2>1. at \in Nat
    BY <1>1
  <2> HIDE DEF at
  <2>2. LET e == Declared(k, side, at)
        IN e \in Matches /\ e.phase = k.phase /\ e.late = k.late /\ k.timers \subseteq e.timers
    BY <1>2, <2>1, DeclaredIs
  <2> QED BY <2>2 DEF at
<1>5. Spent(m, m.timers) /\ NoChoicePending(m) => Waiting(d)
  <2> SUFFICES ASSUME Spent(m, m.timers), NoChoicePending(m) PROVE Waiting(d)
    OBVIOUS
  <2>1. Spent(k, k.timers) /\ NoChoicePending(k)
    BY <1>1, <1>3, SteadyTrans, SteadyKeeps
  <2>2. Undecided(k)
    BY <2>1 DEF NoChoicePending, Undecided
  <2> QED BY <1>1, <1>2, <2>1, <2>2, DeclaredWaits
<1> HIDE DEF d
<1>6. Onward(k, d)
  BY <1>4 DEF Onward
<1>7. Calm(d, n) /\ Steady(d, n)
  BY <1>4, OwingCalm, OwingSteady
<1> HIDE DEF n
<1>8. Onward(m, n)
  BY <1>1, <1>2, <1>6, <1>7, CalmOnward, OnwardTrans
<1>9. Spent(m, m.timers) /\ NoChoicePending(m) => Waiting(n)
  BY <1>5, <1>7, SteadyWaits
<1> QED BY <1>8, <1>9 DEF n, d, k, g

LEMMA DeclareOwed ==
  ASSUME match \in Matches, Waiting(match), NEW side \in Sides, ~Controlled(match, side),
         NEW cancelled \in BOOLEAN, NEW pause \in Pauses, DeclareBattle(side, cancelled, pause)
  PROVE  Owed(match')
<1> DEFINE m == Paused(match, pause)
           declared == Owing(Declared([Grow(m, 1) EXCEPT !.pendingTouch = FALSE], side, m.len))
           ended == OpponentLater(CompleteTurn(Grow(m, 1), side, Plan(m, m.len, 1)))
<1>1. /\ Accepted(pause, IF cancelled THEN ended ELSE declared)
      /\ NoChoicePending(match) /\ Admits(match, side, 52)
  BY DEF DeclareBattle, MayDeclare
<1>2. Spent(match, match.timers)
  BY <1>1, AdmitsSpent DEF NoChoicePending
<1>3. m \in Matches
  BY PausedIs
<1> HIDE DEF m
<1>4. Onward(m, ended) /\ (m = match => Waiting(ended))
  BY <1>1, <1>2, <1>3, EndedCalm, CalmOnward, EndedWaits
<1>5. Onward(m, declared) /\ (m = match => Waiting(declared))
  BY <1>1, <1>2, <1>3, BattleDeclared
<1> HIDE DEF ended, declared
<1> QED BY <1>1, <1>4, <1>5, AcceptedOwed DEF m

LEMMA EndOwed ==
  ASSUME match \in Matches, Waiting(match), NEW side \in Sides, ~Controlled(match, side),
         NEW pause \in Pauses, MayEndTurn(match, side), EndsTurn(side, pause)
  PROVE  Owed(match')
<1> DEFINE m == Paused(match, pause)
           ended == OpponentLater(CompleteTurn(Grow(m, 1), side, Plan(m, m.len, 1)))
<1>1. Accepted(pause, ended) /\ NoChoicePending(match) /\ Admits(match, side, 64)
  BY DEF EndsTurn, MayEndTurn
<1>2. Spent(match, match.timers)
  BY <1>1, AdmitsSpent DEF NoChoicePending
<1>3. m \in Matches
  BY PausedIs
<1> HIDE DEF m
<1>4. Onward(m, ended) /\ (m = match => Waiting(ended))
  BY <1>1, <1>2, <1>3, EndedCalm, CalmOnward, EndedWaits
<1> QED BY <1>1, <1>4, AcceptedOwed DEF m

LEMMA RespinDeclared ==
  ASSUME NEW m \in Matches, m.pendingRespin # None
  PROVE  LET n == Owing(Later([Grow(m, 1) EXCEPT !.pendingRespin.declared = TRUE], "respin", 0))
         IN Onward(m, n) /\ (Spent(m, m.timers) /\ Single(m) => Waiting(n))
<1> DEFINE g == Grow(m, 1)
           p == [m.pendingRespin EXCEPT !.declared = TRUE]
           k == [g EXCEPT !.pendingRespin = p]
           o == Later(k, "respin", 0)
           n == Owing(o)
<1>1. g \in Matches /\ Steady(m, g) /\ Onward(m, g)
  BY GrowCalm, GrowSteady, CalmOnward DEF Calm
<1>2. [g EXCEPT !.pendingRespin.declared = TRUE] = k
  BY DEF Grow, Matches
<1>3. p \in Respins /\ p # None
  <2>1. m.pendingRespin \in Respins
    BY DEF Matches
  <2>2. p \in Respins
    BY <2>1 DEF Respins
  <2> QED BY <2>2, NoneAssumption
<1>4. p.declared
  <2>1. m.pendingRespin \in Respins
    BY DEF Matches
  <2> QED BY <2>1 DEF Respins
<1> HIDE DEF g, p
<1>5. k \in Matches
  BY <1>1, <1>3 DEF Matches
<1>6. Onward(g, k)
  BY <1>1 DEF Onward, Matches
<1>7. /\ k.human = g.human /\ k.timers = g.timers /\ k.done = g.done /\ k.turn = g.turn
      /\ k.pendingRespin = p /\ k.pendingGrudge = g.pendingGrudge
      /\ k.pendingJump = g.pendingJump /\ k.pendingExtraBattle = g.pendingExtraBattle
      /\ k.battleResolutionPending = g.battleResolutionPending
  BY <1>1 DEF Matches
<1> HIDE DEF k
<1>8. o \in Matches /\ Onward(k, o) /\ "respin" \in Steps
  BY <1>5, LaterCalm, CalmOnward DEF Calm, Steps
<1>9. Spent(m, m.timers) /\ Single(m) => Waiting(o)
  <2> SUFFICES ASSUME Spent(m, m.timers), Single(m) PROVE Waiting(o)
    OBVIOUS
  <2>1. Spent(k, k.timers)
    BY <1>1, <1>7 DEF Steady, Spent
  <2>2. Single(k)
    BY <1>1, <1>7 DEF Steady, Single
  <2>3. Awaits(k, "respin")
    BY <1>3, <1>4, <1>7 DEF Awaits, Continuing
  <2> QED BY <1>5, <1>8, <2>1, <2>2, <2>3, LaterWaits
<1> HIDE DEF o
<1>10. Onward(o, n) /\ Steady(o, n)
  BY <1>8, OwingCalm, OwingSteady, CalmOnward
<1> HIDE DEF n
<1>11. Onward(m, n)
  <2>1. Onward(m, k)
    BY <1>1, <1>6, OnwardTrans
  <2>2. Onward(m, o)
    BY <1>8, <2>1, OnwardTrans
  <2> QED BY <1>10, <2>2, OnwardTrans
<1>12. Spent(m, m.timers) /\ Single(m) => Waiting(n)
  <2> SUFFICES ASSUME Waiting(o) PROVE Waiting(n)
    BY <1>9
  <2> QED BY <1>10, SteadyWaits
<1> QED BY <1>2, <1>11, <1>12 DEF n, o, g

LEMMA DeclareRespinOwed ==
  ASSUME match \in Matches, Waiting(match), NEW side \in Sides, ~Controlled(match, side),
         NEW pause \in Pauses, DeclareRespin(side, pause)
  PROVE  Owed(match')
<1> DEFINE m == Paused(match, pause)
           n == Owing(Later([Grow(m, 1) EXCEPT !.pendingRespin.declared = TRUE], "respin", 0))
<1>1. Accepted(pause, n) /\ match.pendingRespin # None /\ Admits(match, side, 40)
  BY DEF DeclareRespin, ChoosesRespin
<1>2. Spent(match, match.timers) /\ Single(match)
  BY <1>1, AdmitsSpent DEF Undecided
<1>3. m \in Matches /\ m.pendingRespin = match.pendingRespin
  BY PausedIs
<1> HIDE DEF m
<1>4. Onward(m, n) /\ (m = match => Waiting(n))
  BY <1>1, <1>2, <1>3, RespinDeclared
<1> QED BY <1>1, <1>4, AcceptedOwed DEF m

LEMMA DeclineRespinOwed ==
  ASSUME Typed(match), Waiting(match), NEW side \in Sides, ~Controlled(match, side),
         WheelsAfterRespin = 0, NEW o \in Outcomes, NEW pause \in Pauses, DeclineRespin(side, o, pause)
  PROVE  Owed(match')
<1> DEFINE m == Paused(match, pause)
           k == Grow(m, 1)
           spin == match.pendingRespin.spin
           n == FinishBattleSpin(k, spin, o)
<1>0. match \in Matches
  BY DEF Typed
<1>1. /\ Accepted(pause, n) /\ match.pendingRespin # None /\ Admits(match, side, 39)
      /\ o.wheels <= WheelsAfterRespin
  BY DEF DeclineRespin, ChoosesRespin
<1>2. o.wheels = 0
  BY <1>1, OutcomeType
<1>3. Spent(match, match.timers) /\ Single(match)
  BY <1>0, <1>1, AdmitsSpent DEF Undecided
<1>4. InHand(match)
  BY <1>1, <1>3 DEF InHand, Single
<1>5. Calm(match, m) /\ m \in Matches /\ m.pendingRespin = match.pendingRespin
  BY <1>0, PausedIs
<1>6. spin \in Nat
  BY <1>0, <1>1 DEF Matches, Respins
<1> HIDE DEF m, spin
<1>7. Calm(m, k) /\ Steady(m, k)
  BY <1>5, GrowCalm, GrowSteady
<1> HIDE DEF k
<1>8. Typed(k)
  BY <1>5, <1>7, CalmTyped
<1>9. Onward(m, n)
  BY <1>2, <1>6, <1>7, <1>8, CalmOnward, FinishSpinOnward, OnwardTrans
<1>10. m = match => Waiting(n)
  <2> SUFFICES ASSUME m = match PROVE Waiting(n)
    OBVIOUS
  <2>1. InHand(k) /\ k.pendingRespin # None
    BY <1>1, <1>4, <1>7, SteadyKeeps DEF Steady
  <2> QED BY <1>2, <1>6, <1>8, <2>1, FinishSpinWaits
<1> HIDE DEF n
<1> QED BY <1>0, <1>1, <1>9, <1>10, AcceptedOwed DEF m

LEMMA GrudgeOwed ==
  ASSUME match \in Matches, Waiting(match), NEW side \in Sides, ~Controlled(match, side),
         NEW pause \in Pauses, ChooseGrudge(side, pause)
  PROVE  Owed(match')
<1> DEFINE m == Paused(match, pause)
<1>1. Accepted(pause, GrudgeChosen(m)) /\ match.pendingGrudge # None /\ Admits(match, side, 64)
  BY DEF ChooseGrudge, ChoosesGrudge
<1>2. Spent(match, match.timers) /\ Single(match)
  BY <1>1, AdmitsSpent DEF Undecided
<1>3. m \in Matches /\ m.pendingGrudge = match.pendingGrudge
  BY PausedIs
<1> HIDE DEF m
<1>4. Onward(m, GrudgeChosen(m))
  BY <1>1, <1>3, GrudgeChosenCalm, CalmOnward
<1>5. m = match => Waiting(GrudgeChosen(m))
  BY <1>1, <1>2, GrudgeChosenWaits
<1> QED BY <1>1, <1>4, <1>5, AcceptedOwed DEF m

LEMMA JumpOwed ==
  ASSUME match \in Matches, Waiting(match), NEW side \in Sides, ~Controlled(match, side),
         NEW n \in 0..1, NEW goal \in BOOLEAN, NEW pause \in Pauses, LandJump(side, n, goal, pause)
  PROVE  Owed(match')
<1> DEFINE m == Paused(match, pause)
<1>1. /\ Accepted(pause, JumpLanded(m, n, goal)) /\ Admits(match, side, 64)
      /\ match.pendingJump # None /\ match.pendingGrudge = None /\ match.activeBattleResolution # None
  BY DEF LandJump, LandsJump, CurrentBattleResolution
<1>2. Spent(match, match.timers) /\ Single(match)
  BY <1>1, AdmitsSpent DEF Undecided
<1>3. /\ m \in Matches /\ m.pendingJump = match.pendingJump
      /\ m.activeBattleResolution = match.activeBattleResolution
  BY PausedIs
<1> HIDE DEF m
<1>0. n \in Nat
  OBVIOUS
<1>4. Onward(m, JumpLanded(m, n, goal))
  BY <1>0, <1>1, <1>3, JumpLandedCalm, CalmOnward
<1>5. m = match => Waiting(JumpLanded(m, n, goal))
  BY <1>0, <1>1, <1>2, JumpLandedWaits
<1> QED BY <1>1, <1>4, <1>5, AcceptedOwed DEF m

LEMMA ExtraOwed ==
  ASSUME match \in Matches, Waiting(match), NEW side \in Sides, ~Controlled(match, side),
         NEW reserve, NEW fights \in BOOLEAN, NEW pause \in Pauses, TakesExtraBattle(match, side, reserve),
         Accepted(pause, ExtraBattleTaken(Paused(match, pause), fights))
  PROVE  Owed(match')
<1> DEFINE m == Paused(match, pause)
<1>1. /\ match.pendingExtraBattle # None /\ match.pendingGrudge = None
      /\ match.activeBattleResolution # None /\ Admits(match, side, reserve)
      /\ CurrentBattleResolution(match, match.pendingExtraBattle.spin, "applying")
      /\ Fits(match, Plan(match, match.pendingExtraBattle.spin, 1))
  BY DEF TakesExtraBattle, CurrentBattleResolution
<1>2. Spent(match, match.timers)
  BY <1>1, AdmitsSpent DEF Undecided
<1>3. /\ m \in Matches /\ m.pendingExtraBattle = match.pendingExtraBattle
      /\ m.activeBattleResolution = match.activeBattleResolution
      /\ m.phase = "started" => m = match
  BY PausedIs
<1>4. Accepted(pause, ExtraBattleTaken(m, fights))
  OBVIOUS
<1> HIDE DEF m
<1>5. Onward(m, ExtraBattleTaken(m, fights))
  <2>1. Calm(m, ExtraBattleTaken(m, fights)) \/ NewBattle(m, ExtraBattleTaken(m, fights))
    BY <1>1, <1>3, ExtraTakenShape
  <2> QED BY <1>3, <2>1, CalmOnward, NewBattleOnward
<1>6. m = match => Waiting(ExtraBattleTaken(m, fights))
  BY <1>1, <1>2, ExtraTakenWaits
<1> QED BY <1>4, <1>5, <1>6, AcceptedOwed DEF m

\* What a client does leaves at most one callback to wait for.
LEMMA PlaysOwed ==
  ASSUME Typed(match), Waiting(match), WheelsAfterRespin = 0,
         NEW side \in Sides, ~Controlled(match, side), Plays(side)
  PROVE  Owed(match')
<1>0. match \in Matches
  BY DEF Typed
<1>1. PICK pause \in Pauses :
        \/ \E type \in Enders, b \in MoveOpenings : Move(side, type, b, pause)
        \/ \E plate \in {"select", "respin"} : SelectByPlate(side, plate, pause)
        \/ \E cancelled \in BOOLEAN : DeclareBattle(side, cancelled, pause)
        \/ MayEndTurn(match, side) /\ EndsTurn(side, pause)
        \/ DeclareRespin(side, pause)
        \/ \E o \in Outcomes : DeclineRespin(side, o, pause)
        \/ ChooseGrudge(side, pause)
        \/ \E n \in 0..1, goal \in BOOLEAN : LandJump(side, n, goal, pause)
        \/ \E fights \in BOOLEAN, reserve \in {52, 64} : /\ TakesExtraBattle(match, side, reserve)
                                           /\ Accepted(pause, ExtraBattleTaken(Paused(match, pause), fights))
  BY PlaysAre
<1>2. CASE \E type \in Enders, b \in MoveOpenings : Move(side, type, b, pause)
  BY <1>0, <1>2, MoveOwed
<1>3. CASE \E plate \in {"select", "respin"} : SelectByPlate(side, plate, pause)
  BY <1>0, <1>3, PlateOwed
<1>4. CASE \E cancelled \in BOOLEAN : DeclareBattle(side, cancelled, pause)
  BY <1>0, <1>4, DeclareOwed
<1>5. CASE MayEndTurn(match, side) /\ EndsTurn(side, pause)
  BY <1>0, <1>5, EndOwed
<1>6. CASE DeclareRespin(side, pause)
  BY <1>0, <1>6, DeclareRespinOwed
<1>7. CASE \E o \in Outcomes : DeclineRespin(side, o, pause)
  BY <1>7, DeclineRespinOwed
<1>8. CASE ChooseGrudge(side, pause)
  BY <1>0, <1>8, GrudgeOwed
<1>9. CASE \E n \in 0..1, goal \in BOOLEAN : LandJump(side, n, goal, pause)
  BY <1>0, <1>9, JumpOwed
<1>10. CASE \E fights \in BOOLEAN, reserve \in {52, 64} : /\ TakesExtraBattle(match, side, reserve)
                                            /\ Accepted(pause, ExtraBattleTaken(Paused(match, pause), fights))
  BY <1>0, <1>10, ExtraOwed
<1> QED BY <1>1, <1>2, <1>3, <1>4, <1>5, <1>6, <1>7, <1>8, <1>9, <1>10

-----------------------------------------------------------------------------
LEMMA WithoutKeeps ==
  ASSUME match \in Matches, NEW t \in match.timers
  PROVE  LET w == Without(t)
         IN /\ w.timers = match.timers \ {t} /\ w.human = match.human /\ w.done = match.done
            /\ w.turn = match.turn /\ w.phase = match.phase
            /\ w.pendingRespin = match.pendingRespin /\ w.pendingGrudge = match.pendingGrudge
            /\ w.pendingJump = match.pendingJump /\ w.pendingExtraBattle = match.pendingExtraBattle
            /\ w.battleResolutionPending = match.battleResolutionPending
BY DEF Without, Matches

\* The callback that is called is the one that is owed, or has nothing to do.
LEMMA Due ==
  ASSUME match \in Matches, Waiting(match), NEW t \in match.timers
  PROVE  LET w == Without(t)
         IN \/ /\ t.step = "opponent" /\ Waiting(w)
               /\ w.turn = "white" => t.turns < match.done
            \/ Spent(w, w.timers) /\ Single(w) /\ Awaits(w, t.step) /\ t.turns = match.done
<1> DEFINE w == Without(t)
<1>1. /\ w.timers = match.timers \ {t} /\ w.human = match.human /\ w.done = match.done
      /\ w.turn = match.turn
      /\ w.pendingRespin = match.pendingRespin /\ w.pendingGrudge = match.pendingGrudge
      /\ w.pendingJump = match.pendingJump /\ w.pendingExtraBattle = match.pendingExtraBattle
      /\ w.battleResolutionPending = match.battleResolutionPending
  BY WithoutKeeps
<1> SUFFICES \/ /\ t.step = "opponent" /\ Waiting(w)
                /\ w.turn = "white" => t.turns < match.done
             \/ Spent(w, w.timers) /\ Single(w) /\ Awaits(w, t.step) /\ t.turns = match.done
  OBVIOUS
<1> HIDE DEF w
<1>2. Single(w)
  BY <1>1 DEF Waiting, Single
<1>3. CASE Spent(match, match.timers)
  <2>1. Spent(w, w.timers)
    BY <1>1, <1>3 DEF Spent
  <2>2. t.step = "opponent" /\ (w.turn = "white" => t.turns < match.done)
    BY <1>1, <1>3 DEF Spent
  <2> QED BY <1>2, <2>1, <2>2 DEF Waiting
<1>4. ASSUME NEW u \in match.timers, Spent(match, match.timers \ {u}), u.turns = match.done,
             Awaits(match, u.step)
      PROVE  \/ /\ t.step = "opponent" /\ Waiting(w)
                /\ w.turn = "white" => t.turns < match.done
             \/ Spent(w, w.timers) /\ Awaits(w, t.step) /\ t.turns = match.done
  <2>1. Awaits(w, u.step)
    BY <1>1, <1>4 DEF Awaits, Undecided, NoChoicePending, Controlled
  <2>2. CASE t = u
    <3>1. Spent(w, w.timers)
      BY <1>1, <1>4, <2>2 DEF Spent
    <3> QED BY <1>4, <2>1, <2>2, <3>1
  <2>3. CASE t # u
    <3>1. t.step = "opponent" /\ (w.turn = "white" => t.turns < match.done)
      BY <1>1, <1>4, <2>3 DEF Spent
    <3>2. Spent(w, w.timers \ {u}) /\ u \in w.timers
      BY <1>1, <1>4, <2>3 DEF Spent
    <3> QED BY <1>1, <1>2, <1>4, <2>1, <3>1, <3>2 DEF Waiting
  <2> QED BY <2>2, <2>3
<1> QED BY <1>2, <1>3, <1>4 DEF Waiting

\* The opponent's call of a turn that is over does nothing while black is to
\* move; where white is, it plays and is remembered as late.
LEMMA SpentCall ==
  ASSUME match \in Matches, NEW t \in match.timers, t.step = "opponent", Fires(t),
         Waiting(Without(t)),
         Without(t).turn = "white" => t.turns < match.done
  PROVE  ~match'.late => Waiting(match')
<1> DEFINE w == Without(t)
<1>1. w \in Matches /\ w.turn = match.turn /\ t \in Timers
  BY WithoutIs, WithoutKeeps
<1>2. PICK choice \in {"move", "spot_move", "cancelled"}, b \in MoveOpenings :
        LET played == PlayOpponentTurn(w, choice, b)
        IN match' = [played EXCEPT !.late = @ \/ (Late(t) /\ played # w)]
  BY DEF Fires, Results, Opponent
<1> DEFINE played == PlayOpponentTurn(w, choice, b)
           late == played.late \/ (Late(t) /\ played # w)
<1>3. played \in Matches
  BY <1>1, PlayOpponentShape
<1>4. w.turn # "white" => played = w
  BY DEF PlayOpponentTurn
<1>5. w.turn = "white" => Late(t)
  <2>1. t.step = "opponent" /\ t.turns \in Nat /\ match.done \in Nat
    BY <1>1 DEF Timers, Matches
  <2> QED BY <1>1, <2>1 DEF Late
<1>6. Waiting(w)
  OBVIOUS
<1> HIDE DEF w
<1>7. match' = [played EXCEPT !.late = late]
  BY <1>2, <1>3 DEF Matches
<1>8. played # w => late
  BY <1>4, <1>5
<1> HIDE DEF played, late
<1>9. match'.late = late /\ Steady(played, match')
  <2>1. [played EXCEPT !.late = late].late = late
    BY <1>3 DEF Matches
  <2>2. Steady(played, [played EXCEPT !.late = late])
    BY <1>3 DEF Steady, Matches
  <2> QED BY <1>7, <2>1, <2>2
<1> QED BY <1>6, <1>8, <1>9, SteadyWaits

\* So does what a callback does.
LEMMA FiresOwed ==
  ASSUME Typed(match), Waiting(match), WheelsAfterRespin = 0, NEW t \in match.timers, Fires(t)
  PROVE  ~match'.late => Waiting(match')
<1> DEFINE w == Without(t)
<1>0. match \in Matches
  BY DEF Typed
<1>1. w \in Matches /\ Typed(w) /\ t.at \in Nat /\ t.step \in Steps
  BY <1>0, WithoutIs, WithoutTyped
<1>2. \/ t.step = "opponent" /\ Waiting(w) /\ (w.turn = "white" => t.turns < match.done)
      \/ Spent(w, w.timers) /\ Single(w) /\ Awaits(w, t.step)
  BY <1>0, Due
<1>3. t.step \in {"resolve", "spin"} => w.activeBattleDeclaration # None
  BY <1>0, WithoutIs DEF Typed, Linked
<1>4. CASE t.step = "opponent" /\ Waiting(w) /\ (w.turn = "white" => t.turns < match.done)
  BY <1>0, <1>4, SpentCall
<1>5. ASSUME Spent(w, w.timers), Single(w), Awaits(w, t.step)
      PROVE  ~match'.late => Waiting(match')
  <2>1. t.step \in Continuing => Undecided(w) /\ w.battleResolutionPending /\ InHand(w)
    BY <1>5 DEF Awaits, Undecided, InHand
  <2>2. CASE t.step = "resolve"
    <3>1. PICK d \in 0..2, o \in Outcomes : match' = ResolveBattle(w, t.at, d, o)
      BY <2>2 DEF Fires, Results, Resolve
    <3>2. d \in Nat
      OBVIOUS
    <3> HIDE DEF w
    <3> QED BY <1>1, <1>3, <1>5, <2>1, <2>2, <3>1, <3>2, ResolveWaits DEF Continuing
  <2>3. CASE t.step = "spin"
    <3>1. PICK o \in Outcomes : match' = PerformBattleSpin(w, t.at, o)
      BY <2>3 DEF Fires, Results, Spin
    <3> HIDE DEF w
    <3> QED BY <1>1, <1>3, <1>5, <2>1, <3>1, <2>3, PerformSpinWaits DEF Continuing
  <2>4. CASE t.step = "respin"
    <3>1. PICK o \in Outcomes : o.wheels <= WheelsAfterRespin /\ match' = PerformPendingRespin(w, o)
      BY <2>4 DEF Fires, Results, Respin
    <3>2. o.wheels = 0
      BY <3>1, OutcomeType
    <3> HIDE DEF w
    <3>3. InHand(w)
      BY <1>5, <2>4 DEF Awaits, Single, InHand
    <3> QED BY <1>1, <3>1, <3>2, <3>3, RespinWaits
  <2>5. CASE t.step = "secondary"
    <3>1. match' = PerformSecondarySpins(w, t.at)
      BY <2>5 DEF Fires, Results, Secondary
    <3> HIDE DEF w
    <3> QED BY <1>1, <1>5, <2>1, <2>5, <3>1, SecondaryWaits DEF Continuing
  <2>6. CASE t.step = "knockouts"
    <3>1. PICK shift \in BOOLEAN : match' = PerformPendingKnockouts(w, t.at, shift)
      BY <2>6 DEF Fires, Results, Knockout
    <3> HIDE DEF w
    <3> QED BY <1>1, <2>1, <3>1, <2>6, PerformKnockoutsWaits DEF Continuing
  <2>7. CASE t.step = "grudge"
    <3>1. PICK b \in MoveOpenings : match' = PerformPendingGrudge(w, t.at, b)
      BY <2>7 DEF Fires, Results, Grudge
    <3> HIDE DEF w
    <3>3. w.pendingGrudge # None
      BY <1>5, <2>7 DEF Awaits
    <3> QED BY <1>1, <1>5, <3>1, <3>3, GrudgeWaits
  <2>8. CASE t.step = "opponent"
    <3>1. PICK choice \in {"move", "spot_move", "cancelled"}, b \in MoveOpenings :
            LET played == PlayOpponentTurn(w, choice, b)
            IN match' = [played EXCEPT !.late = @ \/ (Late(t) /\ played # w)]
      BY <2>8 DEF Fires, Results, Opponent
    <3> DEFINE played == PlayOpponentTurn(w, choice, b)
    <3> HIDE DEF w
    <3>3. NoChoicePending(w)
      BY <1>5, <2>8 DEF Awaits
    <3>4. played \in Matches /\ Waiting(played)
      BY <1>1, <1>5, <3>3, PlayOpponentShape, PlayOpponentWaits
    <3>5. PICK late : match' = [played EXCEPT !.late = late]
      BY <3>1, <3>4 DEF Matches
    <3> HIDE DEF played
    <3>6. Steady(played, match')
      BY <3>4, <3>5 DEF Steady, Matches
    <3> QED BY <3>4, <3>6, SteadyWaits
  <2>9. Waiting(w)
    BY <1>5 DEF Waiting
  <2>10. CASE t.step = "opponent_grudge"
    <3>1. match' = w \/ (w.pendingGrudge # None /\ match' = GrudgeChosen(w))
      BY <2>10 DEF Fires, Results, OpponentGrudge
    <3> HIDE DEF w
    <3> QED BY <1>1, <1>5, <2>9, <3>1, GrudgeChosenWaits
  <2>11. CASE t.step = "opponent_jump"
    <3>1. \/ match' = w
          \/ LandsJump(w, "white") /\ \E n \in 0..1, goal \in BOOLEAN : match' = JumpLanded(w, n, goal)
      BY <2>11 DEF Fires, Results, OpponentJump
    <3> HIDE DEF w
    <3>2. 0..1 \subseteq Nat
      OBVIOUS
    <3>3. LandsJump(w, "white") =>
            w.pendingJump # None /\ w.pendingGrudge = None /\ w.activeBattleResolution # None
      BY DEF LandsJump, CurrentBattleResolution
    <3> QED BY <1>1, <1>5, <2>9, <3>1, <3>2, <3>3, JumpLandedWaits
  <2>12. CASE t.step = "opponent_extra"
    <3>1. PICK fights \in BOOLEAN :
            match' = w \/ (TakesExtraBattle(w, "white", 52) /\ match' = ExtraBattleTaken(w, fights))
      BY <2>12 DEF Fires, Results, OpponentExtra
    <3> HIDE DEF w
    <3>2. TakesExtraBattle(w, "white", 52) =>
            /\ w.pendingExtraBattle # None /\ w.pendingGrudge = None
            /\ CurrentBattleResolution(w, w.pendingExtraBattle.spin, "applying")
            /\ Fits(w, Plan(w, w.pendingExtraBattle.spin, 1))
      BY DEF TakesExtraBattle
    <3> QED BY <1>1, <1>5, <2>9, <3>1, <3>2, ExtraTakenWaits
  <2> QED BY <2>2, <2>3, <2>4, <2>5, <2>6, <2>7, <2>8, <2>10, <2>11, <2>12, <1>1 DEF Steps
<1> QED BY <1>2, <1>4, <1>5

\* A decided match is left alone by every callback that is still to come.
LEMMA DecidedRests ==
  ASSUME match \in Matches, match.phase # "started", NEW t \in match.timers, Fires(t)
  PROVE  match' = Without(t)
<1> DEFINE w == Without(t)
<1>1. w \in Matches /\ w.phase # "started" /\ t.step \in Steps
  BY WithoutIs
<1> SUFFICES match' = w
  OBVIOUS
<1>2. CASE t.step \in {"resolve", "spin", "respin"}
  <2>1. \A at, d, o : /\ ResolveBattle(w, at, d, o) = w
                      /\ PerformBattleSpin(w, at, o) = w
                      /\ PerformPendingRespin(w, o) = w
    BY <1>1 DEF ResolveBattle, PerformBattleSpin, PerformPendingRespin
  <2> QED BY <1>2, <2>1 DEF Fires, Results, Resolve, Spin, Respin
<1>3. CASE t.step \in {"secondary", "knockouts", "grudge"}
  <2>1. \A at, shift, b : /\ PerformSecondarySpins(w, at) = w
                          /\ PerformPendingKnockouts(w, at, shift) = w
                          /\ PerformPendingGrudge(w, at, b) = w
    BY <1>1 DEF PerformSecondarySpins, PerformPendingKnockouts, PerformPendingGrudge, CurrentBattleResolution
  <2> QED BY <1>3, <2>1 DEF Fires, Results, Secondary, Knockout, Grudge
<1>4. CASE t.step = "opponent"
  <2>1. \A choice, b : PlayOpponentTurn(w, choice, b) = w
    BY <1>1 DEF PlayOpponentTurn
  <2>2. match' = [w EXCEPT !.late = @ \/ (Late(t) /\ w # w)]
    BY <1>4, <2>1 DEF Fires, Results, Opponent
  <2> HIDE DEF w
  <2> QED BY <1>1, <2>2 DEF Matches
<1>5. CASE t.step \in {"opponent_grudge", "opponent_jump", "opponent_extra"}
  <2>1. ~ChoosesGrudge(w, "white") /\ ~LandsJump(w, "white") /\ ~TakesExtraBattle(w, "white", 52)
    BY <1>1 DEF ChoosesGrudge, LandsJump, TakesExtraBattle, Admits
  <2> QED BY <1>5, <2>1 DEF Fires, Results, OpponentGrudge, OpponentJump, OpponentExtra
<1> QED BY <1>1, <1>2, <1>3, <1>4, <1>5 DEF Steps

-----------------------------------------------------------------------------
Paced == match.phase = "started" /\ ~match.late => Waiting(match)

LEMMA NextPaced ==
  ASSUME Typed(match), Paced, Next, WheelsAfterRespin = 0
  PROVE  Paced'
<1> SUFFICES ASSUME match'.phase = "started", ~match'.late
             PROVE  Waiting(match')
  BY DEF Paced, Waiting, Single, Spent, Awaits, Undecided, NoChoicePending, Controlled
<1>1. match \in Matches
  BY DEF Typed
<1>2. CASE \E side \in Clients : Plays(side)
  <2>1. PICK side \in Clients : Plays(side)
    BY <1>2
  <2>2. side \in Sides /\ ~Controlled(match, side)
    BY DEF Clients
  <2>3. Onward(match, match')
    BY <1>1, <2>1, <2>2, PlaysShape, ShapeOnward
  <2>4. Waiting(match)
    BY <2>3 DEF Paced, Onward
  <2> QED BY <2>1, <2>2, <2>4, PlaysOwed DEF Owed
<1>3. CASE \E side \in Clients : Resign(side)
  <2>1. match' = Finish(Grow(match, 1))
    BY <1>3 DEF Resign
  <2>2. Grow(match, 1) \in Matches
    BY <1>1, GrowCalm DEF Calm
  <2>3. Finish(Grow(match, 1)).phase = "decided"
    BY <2>2 DEF Finish, Matches
  <2> QED BY <2>1, <2>3
<1>4. CASE Decide
  <2>1. match' = Finish(match)
    BY <1>4 DEF Decide
  <2>2. Finish(match).phase = "decided"
    BY <1>1 DEF Finish, Matches
  <2> QED BY <2>1, <2>2
<1>5. CASE \E t \in match.timers : Fires(t)
  <2>1. PICK t \in match.timers : Fires(t)
    BY <1>5
  <2>2. Onward(Without(t), match')
    BY <1>1, <2>1, FiresShape, TimerOnward
  <2>3. Without(t).phase = match.phase /\ Without(t).late = match.late
    BY <1>1, WithoutIs
  <2>4. Waiting(match)
    BY <2>2, <2>3 DEF Paced, Onward
  <2> QED BY <2>1, <2>4, FiresOwed
<1> QED BY <1>2, <1>3, <1>4, <1>5 DEF Next

LEMMA OnlyTheCalled ==
  ASSUME Typed(match), Next, NEW t \in match.timers \ match'.timers
  PROVE  Fires(t)
<1>1. match \in Matches
  BY DEF Typed
<1>2. CASE \E side \in Clients : Plays(side)
  <2>1. Onward(match, match')
    BY <1>1, <1>2, PlaysShape, ShapeOnward DEF Clients
  <2> QED BY <2>1 DEF Onward
<1>3. CASE (\E side \in Clients : Resign(side)) \/ Decide
  <2>1. match' \in {Finish(Grow(match, 1)), Finish(match)}
    BY <1>3 DEF Resign, Decide
  <2>2. Calm(match, match')
    BY <1>1, <2>1, GrowCalm, FinishCalm, CalmTrans DEF Calm
  <2> QED BY <2>2 DEF Calm, Mild
<1>4. CASE \E u \in match.timers : Fires(u)
  <2>1. PICK u \in match.timers : Fires(u)
    BY <1>4
  <2>2. Onward(Without(u), match')
    BY <1>1, <2>1, FiresShape, TimerOnward
  <2>3. t = u
    BY <1>1, <2>2, WithoutIs DEF Onward
  <2> QED BY <2>1, <2>3
<1> QED BY <1>2, <1>3, <1>4 DEF Next

LEMMA PacedAlways ==
  ASSUME WheelsAfterRespin = 0
  PROVE  Spec => [](IInv /\ Paced)
<1>1. Init => Paced
  <2> SUFFICES ASSUME Init PROVE Waiting(match)
    BY DEF Paced
  <2>1. /\ match.timers = {} /\ match.pendingGrudge = None /\ match.pendingRespin = None
        /\ match.pendingJump = None
    BY DEF Init
  <2> QED BY <2>1 DEF Waiting, Single, Spent
<1>2. IInv /\ Paced /\ [Next]_vars => Paced'
  <2>1. CASE Next
    BY <2>1, NextPaced DEF IInv
  <2>2. CASE UNCHANGED vars
    BY <2>2 DEF vars, Paced, Waiting, Single, Spent, Awaits, Undecided, NoChoicePending, Controlled
  <2> QED BY <2>1, <2>2
<1> QED BY <1>1, <1>2, Invariance, PTL DEF Spec

\* A callback whose turn is over, and any callback of a decided match, continues
\* nothing, however many are left behind: at most one callback is ever owed, and
\* it is of the turn.  As above, no wheel is owed after a respin; the training
\* opponent's own call, which looks at the side to move only, is excepted.
THEOREM StaleStepsRest ==
  ASSUME WheelsAfterRespin = 0
  PROVE  Spec => StaleStepsChangeNothing
<1> DEFINE A == \A t \in match.timers \ match'.timers :
                  (t.turns # match.done /\ t.step # "opponent" /\ ~match.late) \/ match.phase # "started"
                    => match' = Without(t)
<1>1. IInv /\ Paced /\ [Next]_vars => [A]_vars
  <2> SUFFICES ASSUME IInv, Paced, Next PROVE A
    OBVIOUS
  <2> SUFFICES ASSUME NEW t \in match.timers \ match'.timers,
                      (t.turns # match.done /\ t.step # "opponent" /\ ~match.late) \/ match.phase # "started"
               PROVE  match' = Without(t)
    OBVIOUS
  <2>1. Typed(match) /\ match \in Matches /\ Fires(t)
    BY OnlyTheCalled DEF IInv, Typed
  <2>2. CASE match.phase # "started"
    BY <2>1, <2>2, DecidedRests
  <2>3. CASE match.phase = "started"
    <3>1. Waiting(match) /\ t.turns # match.done /\ t.step # "opponent"
      BY <2>3 DEF Paced
    <3> QED BY <2>1, <3>1, Due
  <2> QED BY <2>2, <2>3
<1> QED BY <1>1, PacedAlways, PTL DEF Spec, StaleStepsChangeNothing

\* A client that can move or choose meets no callback that is to continue: all
\* that are left are spent, and what a spent one leaves behind is nothing new.
LEMMA MayPlayAdmitted ==
  ASSUME NEW side, MayPlay(side)
  PROVE  \E reserve : Admits(match, side, reserve) /\ (NoChoicePending(match) \/ ~Undecided(match))
<1>1. CASE \E type \in Enders : MayMove(match, side, type)
  BY <1>1 DEF MayMove, NoContinuation
<1>2. CASE MaySelect(match, side)
  BY <1>2 DEF MaySelect, NoContinuation
<1>3. CASE \E cancelled \in BOOLEAN : MayDeclare(match, side, cancelled)
  BY <1>3 DEF MayDeclare
<1>4. CASE MayDecline(match, side) \/ MayDeclareTurnEnd(match, side) \/ MayTouch(match, side)
  BY <1>4 DEF MayDecline, MayDeclareTurnEnd, MayTouch, MayEndTurn
<1>5. CASE \E reserve \in {39, 40} : ChoosesRespin(match, side, reserve)
  BY <1>5 DEF ChoosesRespin, Undecided
<1>6. CASE ChoosesGrudge(match, side)
  BY <1>6 DEF ChoosesGrudge, Undecided
<1>7. CASE LandsJump(match, side)
  BY <1>7 DEF LandsJump, Undecided
<1>8. CASE \E reserve \in {52, 64} : TakesExtraBattle(match, side, reserve)
  BY <1>8 DEF TakesExtraBattle, Undecided
<1> QED BY <1>1, <1>2, <1>3, <1>4, <1>5, <1>6, <1>7, <1>8 DEF MayPlay

LEMMA SpentRests ==
  ASSUME match \in Matches, NEW t \in match.timers, t.step = "opponent", match.turn # "white",
         NEW n \in Results(t)
  PROVE  n = Without(t)
<1> DEFINE w == Without(t)
<1>1. w \in Matches /\ w.turn # "white"
  BY WithoutIs, WithoutKeeps
<1>2. \A choice, b : PlayOpponentTurn(w, choice, b) = w
  BY <1>1 DEF PlayOpponentTurn
<1>3. n = [w EXCEPT !.late = @ \/ (Late(t) /\ w # w)]
  BY <1>2 DEF Results, Opponent
<1> SUFFICES n = w
  OBVIOUS
<1> HIDE DEF w
<1> QED BY <1>1, <1>3 DEF Matches

\* In both variants and whatever the record holds, a client's input and a step
\* the server owes never compete: the input is refused until the step is done.
\* As above, no wheel is owed after a respin.
THEOREM InputWaits ==
  ASSUME WheelsAfterRespin = 0
  PROVE  Spec => []InputIsLocked
<1>1. IInv /\ Paced => InputIsLocked
  <2> SUFFICES ASSUME IInv, Paced, ~match.late, NEW t \in match.timers, ~Late(t),
                      NEW n \in Results(t), n # Without(t), NEW side \in Clients, MayPlay(side)
               PROVE  FALSE
    BY DEF InputIsLocked, OwedStep
  <2>1. match \in Matches
    BY DEF IInv, Typed
  <2>2. PICK reserve : Admits(match, side, reserve) /\ (NoChoicePending(match) \/ ~Undecided(match))
    BY MayPlayAdmitted
  <2>3. Waiting(match)
    BY <2>2 DEF Paced, Admits
  <2>4. side \in Sides /\ ~Controlled(match, side)
    BY DEF Clients
  <2>5. Spent(match, match.timers)
    BY <2>1, <2>2, <2>3, <2>4, AdmitsSpent DEF NoChoicePending
  <2>6. t.step = "opponent" /\ (match.turn = "white" => t.turns < match.done)
    BY <2>5 DEF Spent
  <2>7. t.turns \in Nat /\ match.done \in Nat
    BY <2>1 DEF Matches, Timers
  <2>8. match.turn # "white"
    BY <2>6, <2>7 DEF Late
  <2> QED BY <2>1, <2>6, <2>8, SpentRests
<1> QED BY <1>1, PacedAlways, PTL

-----------------------------------------------------------------------------
\* Nothing is being resolved, or something is: InTurn is the room the ledger
\* has for the completion that is to come.
InTurn(m) == m.phase = "started" /\ m.done < MaxCompletions /\ m.cut <= m.len
Settled(m) == m.activeBattleResolution # None => m.activeBattleResolution.phase = "completed"
Spinning(m, spin) == /\ CurrentBattleResolution(m, spin, "pending")
                     /\ InTurn(m) /\ spin >= m.cut
Applying(m, spin) == /\ CurrentBattleResolution(m, spin, "applying")
                     /\ InTurn(m) /\ spin >= m.cut
                     /\ Fits(m, m.activeBattleResolution.plan)
                     /\ m.activeBattleResolution.plan.count <= m.len

\* What is pending is what its answer will look for.
GrudgeIsAsked(m) == LET p == m.pendingGrudge
                    IN /\ p # None /\ p.bound = m.len /\ p.side = m.turn /\ p.at >= m.cut
                       /\ InTurn(m) /\ Settled(m)
RespinIsAsked(m) == LET p == m.pendingRespin
                    IN /\ p # None /\ p.side = m.turn /\ ~Controlled(m, p.side)
                       /\ Spinning(m, p.spin) /\ m.pendingGrudge = None
JumpIsAsked(m) == LET p == m.pendingJump
                  IN p # None /\ p.at = m.len /\ Applying(m, p.spin) /\ m.pendingGrudge = None
ExtraIsAsked(m) == LET p == m.pendingExtraBattle
                   IN p # None /\ p.at = m.len /\ Applying(m, p.spin) /\ m.pendingGrudge = None
BattleIsDeclared(m, at) == LET p == m.activeBattleDeclaration
                           IN /\ p # None /\ p.at = at /\ p.turnSide = m.turn
                              /\ InTurn(m) /\ Settled(m)
WheelsAreOwed(m, at) == LET p == m.pendingSecondarySpins
                        IN /\ p # None /\ p.at = at /\ p.at = m.len /\ p.left >= 1
                           /\ Applying(m, p.spin)
                           /\ Room(m, 39 + p.left) /\ Room(m, p.left + 4 * p.kos + 4)
KnockoutsAreOwed(m, at) == LET p == m.pendingKnockouts
                           IN /\ p # None /\ p.at = at /\ p.at = m.len
                              /\ p.left >= 2 /\ p.shifts <= 2
                              /\ Applying(m, p.spin)
                              /\ m.len + 4 * p.left + 4 <= Capacity + p.shifts
\* The callback finds what it is to continue, and the room for it.
Ready(m, step, at) ==
  /\ step # "knockouts" => m.pendingKnockouts = None
  /\ step = "resolve" => BattleIsDeclared(m, at) /\ ~m.activeBattleDeclaration.started /\ Room(m, 52)
  /\ step = "spin" => BattleIsDeclared(m, at) /\ Room(m, 50)
  /\ step = "respin" => RespinIsAsked(m) /\ Room(m, 48)
  /\ step = "secondary" => WheelsAreOwed(m, at)
  /\ step = "knockouts" => KnockoutsAreOwed(m, at)
  /\ step = "grudge" => GrudgeIsAsked(m) /\ m.pendingGrudge.at = at /\ Room(m, 16)
  /\ step = "opponent" => m.cut <= m.len /\ Settled(m)
  /\ step = "opponent_grudge" => GrudgeIsAsked(m) /\ m.pendingGrudge.at = at
  /\ step = "opponent_jump" => JumpIsAsked(m) /\ m.pendingJump.at = at /\ m.pendingJump.landing
  /\ step = "opponent_extra" => ExtraIsAsked(m) /\ m.pendingExtraBattle.at = at /\ m.pendingExtraBattle.choices
\* A client is to choose; or the choice is left open, or the training opponent
\* has found no room for it.
NoRoom(m) == m.done >= MaxCompletions \/ ~Room(m, 65)
Asks(m, side) == Controlled(m, side) => NoRoom(m)
Open(m) ==
  /\ ~m.resolving /\ m.pendingKnockouts = None
  /\ m.battleResolutionPending => ~Undecided(m)
  /\ NoChoicePending(m) => Asks(m, m.turn) /\ m.cut <= m.len /\ Settled(m)
  /\ m.pendingGrudge # None =>
       GrudgeIsAsked(m) /\ ~m.pendingGrudge.declared /\ Asks(m, m.pendingGrudge.side)
  /\ m.pendingRespin # None => RespinIsAsked(m) /\ ~m.pendingRespin.declared /\ Room(m, 49)
  /\ m.pendingJump # None =>
       JumpIsAsked(m) /\ (m.pendingJump.landing => Asks(m, m.pendingJump.side))
  /\ m.pendingExtraBattle # None =>
       ExtraIsAsked(m) /\ (m.pendingExtraBattle.choices => Asks(m, m.pendingExtraBattle.side))
\* Input is locked in the human variant only, and plates are the clients'.
Sane(m) == /\ ~m.human => ~m.resolving
           /\ m.pendingPlate # "none" => ~Controlled(m, m.turn)
Going(m) ==
  /\ Single(m) /\ Sane(m)
  /\ \/ Spent(m, m.timers) /\ Open(m)
     \/ \E t \in m.timers : /\ Spent(m, m.timers \ {t}) /\ t.turns = m.done
                            /\ Awaits(m, t.step) /\ Ready(m, t.step, t.at)

Live(n) == n.phase = "started" /\ ~n.late => Going(n)

\* What does not matter for going on: the callbacks that are left, the calls
\* that came late and what the side to move may do with its turn.
Same(m, n) ==
  /\ n.human = m.human /\ n.phase = m.phase /\ n.turn = m.turn
  /\ n.len = m.len /\ n.done = m.done /\ n.cut = m.cut /\ n.pendingPlate = m.pendingPlate
  /\ n.battleResolutionPending = m.battleResolutionPending
  /\ n.activeBattleDeclaration = m.activeBattleDeclaration
  /\ n.activeBattleResolution = m.activeBattleResolution
  /\ n.pendingRespin = m.pendingRespin /\ n.pendingGrudge = m.pendingGrudge
  /\ n.pendingJump = m.pendingJump /\ n.pendingExtraBattle = m.pendingExtraBattle
  /\ n.pendingSecondarySpins = m.pendingSecondarySpins /\ n.pendingKnockouts = m.pendingKnockouts
Alike(m, n) == Same(m, n) /\ n.resolving = m.resolving

LEMMA SameBattle ==
  ASSUME NEW m, NEW n, Same(m, n)
  PROVE  /\ InTurn(n) <=> InTurn(m)
         /\ Settled(n) <=> Settled(m)
         /\ \A reserve : Room(n, reserve) <=> Room(m, reserve)
         /\ \A side : Controlled(n, side) <=> Controlled(m, side)
         /\ \A side : Asks(n, side) <=> Asks(m, side)
         /\ \A spin : Spinning(n, spin) <=> Spinning(m, spin)
         /\ \A spin : Applying(n, spin) <=> Applying(m, spin)
<1>1. (InTurn(n) <=> InTurn(m)) /\ (Settled(n) <=> Settled(m))
  BY DEF Same, InTurn, Settled
<1>2. \A reserve : Room(n, reserve) <=> Room(m, reserve)
  BY DEF Same, Room
<1>3. \A side : (Controlled(n, side) <=> Controlled(m, side)) /\ (Asks(n, side) <=> Asks(m, side))
  BY <1>2 DEF Same, Controlled, Asks, NoRoom
<1>4. \A spin, phase : CurrentBattleResolution(n, spin, phase) <=> CurrentBattleResolution(m, spin, phase)
  BY DEF Same, CurrentBattleResolution
<1>5. \A plan : Fits(n, plan) <=> Fits(m, plan)
  BY DEF Same, Fits
<1>6. n.cut = m.cut /\ n.len = m.len /\ n.activeBattleResolution = m.activeBattleResolution
  BY DEF Same
<1> QED BY <1>1, <1>2, <1>3, <1>4, <1>5, <1>6 DEF Spinning, Applying

LEMMA SameGoes ==
  ASSUME NEW m, NEW n, Same(m, n)
  PROVE  /\ Single(n) <=> Single(m)
         /\ NoChoicePending(n) <=> NoChoicePending(m)
         /\ Undecided(n) <=> Undecided(m)
         /\ GrudgeIsAsked(n) <=> GrudgeIsAsked(m)
         /\ RespinIsAsked(n) <=> RespinIsAsked(m)
         /\ JumpIsAsked(n) <=> JumpIsAsked(m)
         /\ ExtraIsAsked(n) <=> ExtraIsAsked(m)
         /\ \A step : Awaits(n, step) <=> Awaits(m, step)
         /\ \A step, at : Ready(n, step, at) <=> Ready(m, step, at)
<1>1. /\ InTurn(n) <=> InTurn(m)
      /\ Settled(n) <=> Settled(m)
      /\ \A reserve : Room(n, reserve) <=> Room(m, reserve)
      /\ \A side : Controlled(n, side) <=> Controlled(m, side)
      /\ \A spin : Spinning(n, spin) <=> Spinning(m, spin)
      /\ \A spin : Applying(n, spin) <=> Applying(m, spin)
  BY SameBattle
<1>2. Single(n) <=> Single(m)
  BY DEF Same, Single
<1>3. (NoChoicePending(n) <=> NoChoicePending(m)) /\ (Undecided(n) <=> Undecided(m))
  BY DEF Same, NoChoicePending, Undecided
<1>4. \A step : Awaits(n, step) <=> Awaits(m, step)
  BY <1>1, <1>3 DEF Same, Awaits
<1>5. /\ GrudgeIsAsked(n) <=> GrudgeIsAsked(m)
      /\ RespinIsAsked(n) <=> RespinIsAsked(m)
      /\ JumpIsAsked(n) <=> JumpIsAsked(m)
      /\ ExtraIsAsked(n) <=> ExtraIsAsked(m)
  BY <1>1 DEF Same, GrudgeIsAsked, RespinIsAsked, JumpIsAsked, ExtraIsAsked
<1>6. \A at : /\ BattleIsDeclared(n, at) <=> BattleIsDeclared(m, at)
              /\ WheelsAreOwed(n, at) <=> WheelsAreOwed(m, at)
              /\ KnockoutsAreOwed(n, at) <=> KnockoutsAreOwed(m, at)
  BY <1>1 DEF Same, BattleIsDeclared, WheelsAreOwed, KnockoutsAreOwed
<1>7. \A step, at : Ready(n, step, at) <=> Ready(m, step, at)
  BY <1>1, <1>5, <1>6 DEF Same, Ready
<1> QED BY <1>2, <1>3, <1>4, <1>5, <1>7

LEMMA AlikeGoes ==
  ASSUME NEW m, NEW n, Alike(m, n)
  PROVE  /\ Sane(n) <=> Sane(m)
         /\ Single(n) <=> Single(m)
         /\ NoChoicePending(n) <=> NoChoicePending(m)
         /\ \A step : Awaits(n, step) <=> Awaits(m, step)
         /\ \A step, at : Ready(n, step, at) <=> Ready(m, step, at)
         /\ Open(n) <=> Open(m)
<1>1. Same(m, n) /\ n.resolving = m.resolving
  BY DEF Alike
<1>2. /\ Settled(n) <=> Settled(m)
      /\ \A reserve : Room(n, reserve) <=> Room(m, reserve)
      /\ \A side : (Controlled(n, side) <=> Controlled(m, side)) /\ (Asks(n, side) <=> Asks(m, side))
  BY <1>1, SameBattle
<1>3. /\ NoChoicePending(n) <=> NoChoicePending(m)
      /\ Undecided(n) <=> Undecided(m)
      /\ GrudgeIsAsked(n) <=> GrudgeIsAsked(m)
      /\ RespinIsAsked(n) <=> RespinIsAsked(m)
      /\ JumpIsAsked(n) <=> JumpIsAsked(m)
      /\ ExtraIsAsked(n) <=> ExtraIsAsked(m)
  BY <1>1, SameGoes
<1>4. Sane(n) <=> Sane(m)
  BY <1>1, <1>2 DEF Same, Sane
<1>5. Open(n) <=> Open(m)
  BY <1>1, <1>2, <1>3 DEF Same, Open
<1> QED BY <1>1, <1>4, <1>5, SameGoes

LEMMA AlikeKeeps ==
  ASSUME NEW m, NEW n, Alike(m, n), n.timers = m.timers
  PROVE  /\ Going(n) <=> Going(m)
         /\ Spent(n, n.timers) <=> Spent(m, m.timers)
<1>1. n.human = m.human /\ n.done = m.done /\ n.turn = m.turn
  BY DEF Alike, Same
<1>2. \A timers : Spent(n, timers) <=> Spent(m, timers)
  BY <1>1 DEF Spent
<1> QED BY <1>1, <1>2, AlikeGoes DEF Going

LEMMA LaterGoes ==
  ASSUME NEW m \in Matches, NEW step \in Steps, NEW at \in Nat,
         Spent(m, m.timers), Single(m), Sane(m), Awaits(m, step), Ready(m, step, at)
  PROVE  Going(Later(m, step, at))
<1> DEFINE t == [step |-> step, at |-> at, turns |-> m.done]
           n == Later(m, step, at)
<1>1. Alike(m, n) /\ n.timers = m.timers \cup {t}
  BY DEF Later, Alike, Same, Matches
<1>2. t.step = step /\ t.at = at /\ t.turns = m.done
  OBVIOUS
<1> HIDE DEF n, t
<1>3. n.human = m.human /\ n.done = m.done /\ n.turn = m.turn
  BY <1>1 DEF Alike, Same
<1>4. t \in n.timers /\ Spent(n, n.timers \ {t})
  BY <1>1, <1>3 DEF Spent
<1>5. Single(n) /\ Sane(n) /\ Awaits(n, t.step) /\ Ready(n, t.step, t.at)
  BY <1>1, <1>2, AlikeGoes
<1>6. Going(n)
  BY <1>2, <1>3, <1>4, <1>5 DEF Going
<1> QED BY <1>6 DEF n

\* Between two turns, or in one that has just begun.
AtRest(m) == /\ Spent(m, m.timers) /\ NoChoicePending(m)
             /\ ~m.resolving /\ m.pendingKnockouts = None
             /\ m.cut <= m.len /\ Settled(m) /\ Sane(m)

LEMMA AlikeRests ==
  ASSUME NEW m, NEW n, Alike(m, n), n.timers = m.timers, AtRest(m)
  PROVE  AtRest(n)
<1>1. /\ n.resolving = m.resolving /\ n.pendingKnockouts = m.pendingKnockouts
      /\ n.cut = m.cut /\ n.len = m.len
  BY DEF Alike, Same
<1> QED BY <1>1, AlikeKeeps, AlikeGoes, SameBattle DEF AtRest, Alike

LEMMA RestGoes ==
  ASSUME NEW m \in Matches, AtRest(m)
  PROVE  /\ Single(m)
         /\ Asks(m, m.turn) => Going(m)
         /\ Going(OpponentLater(m))
<1>1. Single(m)
  BY DEF AtRest, Single, NoChoicePending
<1>2. Asks(m, m.turn) => Going(m)
  BY <1>1 DEF AtRest, Going, Open, NoChoicePending, Undecided
<1>3. CASE m.human
  BY <1>1, <1>2, <1>3 DEF OpponentLater, Asks, Controlled
<1>4. CASE ~m.human /\ m.turn = "white"
  <2>1. Awaits(m, "opponent") /\ m.len \in Nat /\ "opponent" \in Steps
    BY <1>4 DEF AtRest, Awaits, Controlled, Matches, Steps, Continuing
  <2>2. Ready(m, "opponent", m.len)
    BY DEF AtRest, Ready
  <2> QED BY <1>1, <1>2, <1>4, <2>1, <2>2, LaterGoes DEF OpponentLater, AtRest
<1>5. CASE ~m.human /\ m.turn # "white"
  <2> DEFINE t == [step |-> "opponent", at |-> m.len, turns |-> m.done]
             n == OpponentLater(m)
  <2>1. Alike(m, n) /\ n.timers = m.timers \cup {t}
    BY <1>5 DEF OpponentLater, Later, Alike, Same, Matches
  <2>2. t.step = "opponent" /\ t.turns = m.done /\ m.done \in Nat
    BY DEF Matches
  <2> HIDE DEF n, t
  <2>3. n.human = m.human /\ n.done = m.done /\ n.turn = m.turn
    BY <2>1 DEF Alike, Same
  <2>4. Spent(n, n.timers)
    BY <1>5, <2>1, <2>2, <2>3 DEF Spent, AtRest
  <2>5. Asks(m, m.turn)
    BY <1>5 DEF Asks, Controlled
  <2>6. Open(m) /\ Sane(m)
    BY <1>1, <2>5 DEF AtRest, Open, NoChoicePending, Undecided
  <2>7. Going(n)
    BY <1>1, <2>1, <2>4, <2>6, AlikeGoes DEF Going
  <2> QED BY <1>1, <1>2, <2>7 DEF n
<1> QED BY <1>1, <1>2, <1>3, <1>4, <1>5

\* Owing, of the step that was scheduled last: the input is locked, in the human
\* variant, until the step is done.
LEMMA OwedGoes ==
  ASSUME NEW m \in Matches, NEW step \in Steps, NEW at \in Nat, m.phase = "started",
         Spent(m, m.timers), Single(m), Sane(m), Awaits(m, step), Ready(m, step, at)
  PROVE  Going(Owing(Later(m, step, at)))
<1> DEFINE n == [m EXCEPT !.resolving = m.human]
<1>1. m.human \in BOOLEAN
  BY DEF Matches
<1>2. n \in Matches
  BY <1>1 DEF Matches
<1>3. Same(m, n) /\ n.timers = m.timers /\ n.resolving = m.human
  BY DEF Same, Matches
<1>4. Owing(Later(m, step, at)) = Later(n, step, at)
  BY DEF Owing, Later, Matches
<1> HIDE DEF n
<1>5. n.human = m.human /\ n.done = m.done /\ n.turn = m.turn /\ n.pendingPlate = m.pendingPlate
  BY <1>3 DEF Same
<1>6. Spent(n, n.timers) /\ Sane(n)
  BY <1>3, <1>5 DEF Spent, Sane, Controlled
<1>7. Single(n) /\ Awaits(n, step) /\ Ready(n, step, at)
  BY <1>3, SameGoes
<1> QED BY <1>2, <1>4, <1>6, <1>7, LaterGoes

\* The record has grown by k entries, and nothing else has happened.
Grown(m, n, k) ==
  /\ n.human = m.human /\ n.phase = m.phase /\ n.turn = m.turn
  /\ n.len = m.len + k /\ n.done = m.done /\ n.cut = m.cut
  /\ n.resolving = m.resolving /\ n.pendingPlate = m.pendingPlate
  /\ n.battleResolutionPending = m.battleResolutionPending
  /\ n.activeBattleDeclaration = m.activeBattleDeclaration
  /\ n.activeBattleResolution = m.activeBattleResolution
  /\ n.pendingRespin = m.pendingRespin /\ n.pendingGrudge = m.pendingGrudge
  /\ n.pendingJump = m.pendingJump /\ n.pendingExtraBattle = m.pendingExtraBattle
  /\ n.pendingSecondarySpins = m.pendingSecondarySpins /\ n.pendingKnockouts = m.pendingKnockouts
  /\ n.timers = m.timers

LEMMA GrowGrown ==
  ASSUME NEW m \in Matches, NEW k \in Nat
  PROVE  Grow(m, k) \in Matches /\ Grown(m, Grow(m, k), k)
<1>1. Grow(m, k) \in Matches
  BY GrowCalm DEF Calm
<1>2. Grown(m, Grow(m, k), k)
  BY DEF Grown, Grow, Matches
<1> QED BY <1>1, <1>2

LEMMA GrownKeeps ==
  ASSUME NEW m, NEW n, NEW k, Grown(m, n, k)
  PROVE  /\ Steady(m, n)
         /\ Sane(n) <=> Sane(m)
         /\ Settled(n) <=> Settled(m)
         /\ \A side : Controlled(n, side) <=> Controlled(m, side)
<1>1. Steady(m, n) /\ (Settled(n) <=> Settled(m))
  BY DEF Grown, Steady, Settled
<1>2. (Sane(n) <=> Sane(m)) /\ \A side : Controlled(n, side) <=> Controlled(m, side)
  BY DEF Grown, Sane, Controlled
<1> QED BY <1>1, <1>2

LEMMA GrownRoom ==
  ASSUME NEW m \in Matches, NEW n, NEW k \in Nat, Grown(m, n, k)
  PROVE  /\ InTurn(m) => InTurn(n)
         /\ \A reserve \in Nat : Room(m, k + reserve) => Room(n, reserve)
         /\ \A spin : Spinning(m, spin) => Spinning(n, spin)
         /\ \A spin : Applying(m, spin) => Applying(n, spin)
<1>1. m.len \in Nat /\ m.cut \in Nat /\ Capacity \in Nat
  BY EngineAssumption DEF Matches
<1>2. n.len = m.len + k /\ n.cut = m.cut /\ n.done = m.done /\ n.phase = m.phase
  BY DEF Grown
<1>3. InTurn(m) => InTurn(n)
  BY <1>1, <1>2 DEF InTurn
<1>4. \A reserve \in Nat : Room(m, k + reserve) => Room(n, reserve)
  BY <1>1, <1>2 DEF Room
<1>5. \A spin, phase : CurrentBattleResolution(n, spin, phase) <=> CurrentBattleResolution(m, spin, phase)
  BY DEF Grown, CurrentBattleResolution
<1>6. \A spin : Spinning(m, spin) => Spinning(n, spin)
  BY <1>2, <1>3, <1>5 DEF Spinning
<1>7. ASSUME NEW spin, Applying(m, spin) PROVE Applying(n, spin)
  <2> DEFINE plan == m.activeBattleResolution.plan
  <2>1. n.activeBattleResolution.plan = plan
    BY DEF Grown
  <2>2. Fits(n, plan)
    BY <1>2, <1>7 DEF Fits, Applying
  <2>3. plan \in Plans
    BY <1>7, CurrentIs DEF Applying
  <2>4. plan.count \in Nat /\ plan.count <= m.len
    BY <1>7, <2>3 DEF Plans, Applying
  <2>5. plan.count <= n.len
    BY <1>1, <1>2, <2>4
  <2> QED BY <1>2, <1>3, <1>5, <1>7, <2>1, <2>2, <2>5 DEF Applying
<1> QED BY <1>3, <1>4, <1>6, <1>7

LEMMA GrownRests ==
  ASSUME NEW m \in Matches, NEW n, NEW k \in Nat, Grown(m, n, k), AtRest(m)
  PROVE  AtRest(n)
<1>1. /\ n.resolving = m.resolving /\ n.pendingKnockouts = m.pendingKnockouts
      /\ n.cut = m.cut /\ n.len = m.len + k
  BY DEF Grown
<1>2. m.len \in Nat /\ m.cut \in Nat
  BY DEF Matches
<1>3. n.cut <= n.len
  BY <1>1, <1>2 DEF AtRest
<1> QED BY <1>1, <1>3, GrownKeeps, SteadyKeeps DEF AtRest

LEMMA GaugeGrown ==
  ASSUME NEW m \in Matches, m.phase = "started"
  PROVE  Gauge(m) \in Matches /\ Grown(m, Gauge(m), 1)
BY GrowGrown DEF Gauge

-----------------------------------------------------------------------------
\* What is pending when a turn is over: nothing; and the record is not shorter
\* than the completion that was bound.
LEMMA CleanupLeaves ==
  ASSUME NEW m \in Matches, NEW side \in Sides
  PROVE  LET c == CompleteTurnCleanup(m, side)
         IN /\ c.turn = Other(side) /\ c.pendingPlate = "none" /\ c.pendingKnockouts = None
            /\ c.phase = m.phase /\ c.len = m.len /\ c.resolving = m.resolving
            /\ c.activeBattleResolution = m.activeBattleResolution
<1> DEFINE n1 == [m EXCEPT !.turn = Other(side), !.pendingBattles = "none", !.pendingTouch = FALSE]
           n2 == [n1 EXCEPT !.pendingPlate = "none", !.battleResolutionPending = FALSE, !.extraBattle = "none"]
           n3 == [n2 EXCEPT !.pendingRespin = None, !.pendingGrudge = None, !.pendingKnockouts = None]
           n4 == [n3 EXCEPT !.pendingSecondarySpins = None, !.pendingJump = None, !.pendingExtraBattle = None]
<1>1. Other(side) \in Sides
  BY DEF Other, Sides
<1>2. CompleteTurnCleanup(m, side) = n4
  BY DEF CompleteTurnCleanup
<1>3. n1 \in Matches
  BY <1>1, CleanTurn DEF Calm
<1>4. /\ n1.turn = Other(side) /\ n1.phase = m.phase /\ n1.len = m.len /\ n1.resolving = m.resolving
      /\ n1.activeBattleResolution = m.activeBattleResolution
  BY DEF Matches
<1> HIDE DEF n1
<1>5. n2 \in Matches
  BY <1>3, CleanPlate DEF Calm
<1>6. /\ n2.turn = n1.turn /\ n2.phase = n1.phase /\ n2.len = n1.len /\ n2.resolving = n1.resolving
      /\ n2.activeBattleResolution = n1.activeBattleResolution /\ n2.pendingPlate = "none"
  BY <1>3 DEF Matches
<1> HIDE DEF n2
<1>7. n3 \in Matches
  BY <1>5, CleanChoices DEF Calm
<1>8. /\ n3.turn = n2.turn /\ n3.phase = n2.phase /\ n3.len = n2.len /\ n3.resolving = n2.resolving
      /\ n3.activeBattleResolution = n2.activeBattleResolution /\ n3.pendingPlate = n2.pendingPlate
      /\ n3.pendingKnockouts = None
  BY <1>5 DEF Matches
<1> HIDE DEF n3
<1>9. /\ n4.turn = n3.turn /\ n4.phase = n3.phase /\ n4.len = n3.len /\ n4.resolving = n3.resolving
      /\ n4.activeBattleResolution = n3.activeBattleResolution /\ n4.pendingPlate = n3.pendingPlate
      /\ n4.pendingKnockouts = n3.pendingKnockouts
  BY <1>7 DEF Matches
<1> HIDE DEF n4
<1> QED BY <1>2, <1>4, <1>6, <1>8, <1>9

\* The end of a turn, before the input is unlocked.
Rested(m) == /\ Spent(m, m.timers) /\ NoChoicePending(m)
             /\ m.pendingKnockouts = None /\ m.pendingPlate = "none"
             /\ m.cut <= m.len /\ Settled(m)

LEMMA TurnRests ==
  ASSUME NEW m \in Matches, NEW side \in Sides, NEW plan \in Plans,
         m.phase = "started", m.turn = side, Fits(m, plan), plan.count <= m.len,
         Spent(m, m.timers), Settled(m)
  PROVE  LET n == CompleteTurn(m, side, plan)
         IN n \in Matches /\ Rested(n) /\ n.turn = Other(side) /\ n.resolving = m.resolving
<1> DEFINE c == CompleteTurnCleanup(m, side)
           k == [c EXCEPT !.done = @ + 1, !.cut = plan.count]
           n == Gauge(k)
<1>1. CompleteTurn(m, side, plan) = n
  BY DEF CompleteTurn
<1>2. /\ c \in Matches
      /\ c.turn = Other(side) /\ c.pendingPlate = "none" /\ c.pendingKnockouts = None
      /\ c.phase = m.phase /\ c.len = m.len /\ c.resolving = m.resolving
      /\ c.activeBattleResolution = m.activeBattleResolution
  BY CleanupClears, CleanupLeaves
<1>3. n \in Matches /\ Spent(n, n.timers) /\ NoChoicePending(n)
  BY <1>1, TurnIsOver
<1> HIDE DEF c
<1>4. k \in Matches
  BY <1>2, BindTurn DEF Calm
<1>5. /\ k.turn = c.turn /\ k.pendingPlate = c.pendingPlate /\ k.pendingKnockouts = c.pendingKnockouts
      /\ k.phase = c.phase /\ k.len = c.len /\ k.resolving = c.resolving /\ k.cut = plan.count
      /\ k.activeBattleResolution = c.activeBattleResolution
  BY <1>2 DEF Matches
<1> HIDE DEF k
<1>6. Grown(k, n, 1)
  BY <1>2, <1>4, <1>5, GaugeGrown
<1> HIDE DEF n
<1>7. /\ n.turn = Other(side) /\ n.pendingPlate = "none" /\ n.pendingKnockouts = None
      /\ n.resolving = m.resolving /\ n.cut = plan.count /\ n.len = m.len + 1
      /\ n.activeBattleResolution = m.activeBattleResolution
  BY <1>2, <1>5, <1>6 DEF Grown
<1>8. n.cut <= n.len
  <2>1. m.len \in Nat /\ plan.count \in Nat
    BY DEF Matches, Plans
  <2> QED BY <1>7, <2>1
<1>9. Settled(n)
  BY <1>7 DEF Settled
<1> QED BY <1>1, <1>3, <1>7, <1>8, <1>9 DEF Rested

LEMMA RestedRests ==
  ASSUME NEW m, Rested(m), ~m.resolving
  PROVE  AtRest(m)
BY DEF Rested, AtRest, Sane

\* A turn that ends where nothing is pending: the next is its side's, at once
\* or by the call of the training opponent.
LEMMA EndedGoes ==
  ASSUME NEW m \in Matches, NEW side \in Sides, NEW index \in Nat, AtRest(m), m.phase = "started",
         m.turn = side, Fits(m, Plan(m, index, 1)), NEW g \in Matches, Grown(m, g, 1)
  PROVE  LET n == CompleteTurn(g, side, Plan(m, index, 1))
         IN AtRest(n) /\ n \in Matches /\ n.turn = Other(side) /\ Going(OpponentLater(n))
<1> DEFINE plan == Plan(m, index, 1)
           n == CompleteTurn(g, side, plan)
<1>1. plan \in Plans /\ plan.count = m.len + 1 /\ m.len \in Nat
  BY PlanType DEF Plan, Matches
<1>2. g.phase = m.phase /\ g.turn = m.turn /\ g.done = m.done /\ g.cut = m.cut /\ g.len = m.len + 1
      /\ g.resolving = m.resolving
  BY DEF Grown
<1>3. Fits(m, plan)
  OBVIOUS
<1> HIDE DEF plan
<1>4. Fits(g, plan)
  BY <1>2, <1>3 DEF Fits
<1>5. AtRest(g)
  BY GrownRests
<1>6. n \in Matches /\ Rested(n) /\ n.turn = Other(side) /\ n.resolving = g.resolving
  <2>1. plan.count <= g.len
    BY <1>1, <1>2
  <2> QED BY <1>1, <1>2, <1>4, <1>5, <2>1, TurnRests DEF AtRest
<1>7. ~n.resolving
  BY <1>2, <1>6 DEF AtRest
<1> HIDE DEF n
<1>8. AtRest(n) /\ Going(OpponentLater(n))
  BY <1>6, <1>7, RestedRests, RestGoes
<1> QED BY <1>6, <1>8 DEF n, plan

-----------------------------------------------------------------------------
\* completeBattleResolution with the turn: the plan that was bound fits.
LEMMA SettledIs ==
  ASSUME NEW m \in Matches, m.activeBattleResolution # None
  PROVE  LET n == [m EXCEPT !.activeBattleResolution.phase = "completed"]
         IN n \in Matches /\ Settled(n)
<1> DEFINE r == [m.activeBattleResolution EXCEPT !.phase = "completed"]
           n == [m EXCEPT !.activeBattleResolution = r]
<1>1. m.activeBattleResolution \in Resolutions
  BY DEF Matches
<1>2. r.phase = "completed"
  BY <1>1 DEF Resolutions
<1>3. [m EXCEPT !.activeBattleResolution.phase = "completed"] = n
  BY DEF Matches
<1> HIDE DEF r
<1>4. n.activeBattleResolution = r
  BY DEF Matches
<1>5. Settled(n)
  BY <1>2, <1>4 DEF Settled
<1> QED BY <1>3, <1>5, SettleCalm DEF Calm

LEMMA UnlockLater ==
  ASSUME NEW m \in Matches
  PROVE  [OpponentLater(m) EXCEPT !.resolving = FALSE] = OpponentLater([m EXCEPT !.resolving = FALSE])
BY DEF OpponentLater, Later, Matches

LEMMA UnlockRests ==
  ASSUME NEW m \in Matches, Rested(m)
  PROVE  LET n == [m EXCEPT !.resolving = FALSE]
         IN n \in Matches /\ AtRest(n) /\ n.turn = m.turn
<1> DEFINE n == [m EXCEPT !.resolving = FALSE]
<1>1. n \in Matches
  BY Unlock DEF Calm
<1>2. Steady(m, n)
  BY DEF Steady, Matches
<1>3. /\ n.pendingKnockouts = m.pendingKnockouts /\ n.pendingPlate = m.pendingPlate
      /\ n.cut = m.cut /\ n.len = m.len /\ n.activeBattleResolution = m.activeBattleResolution
      /\ ~n.resolving /\ n.turn = m.turn
  BY DEF Matches
<1> HIDE DEF n
<1>4. Rested(n)
  BY <1>2, <1>3, SteadyKeeps DEF Rested, Settled
<1>5. AtRest(n)
  BY <1>3, <1>4, RestedRests
<1> QED BY <1>1, <1>3, <1>5 DEF n

LEMMA BattleGoes ==
  ASSUME NEW m \in Matches, NEW spin, Applying(m, spin), Spent(m, m.timers)
  PROVE  Going(CompleteBattleResolution(m, spin, TRUE))
<1> DEFINE settled == [m EXCEPT !.activeBattleResolution.phase = "completed"]
           plan == m.activeBattleResolution.plan
           gauged == Gauge(settled)
           ended == CompleteTurn(gauged, m.turn, plan)
           after == IF ended.turn = "white" THEN OpponentLater(ended) ELSE ended
           over == [after EXCEPT !.resolving = FALSE]
           unlocked == [ended EXCEPT !.resolving = FALSE]
<1>1. /\ CurrentBattleResolution(m, spin, "applying") /\ Fits(m, plan) /\ plan.count <= m.len
      /\ m.activeBattleResolution # None /\ m.phase = "started"
  BY DEF Applying, CurrentBattleResolution
<1>2. plan \in Plans /\ m.turn \in Sides
  BY <1>1, CurrentIs DEF Matches
<1>3. CompleteBattleResolution(m, spin, TRUE) = over
  BY <1>1 DEF CompleteBattleResolution
<1>4. settled \in Matches /\ Settled(settled)
  BY <1>1, SettledIs
<1>5. /\ Steady(m, settled) /\ settled.phase = m.phase /\ settled.turn = m.turn /\ settled.done = m.done
      /\ settled.cut = m.cut /\ settled.len = m.len
  BY DEF Steady, Matches
<1> HIDE DEF plan, settled
<1>6. gauged \in Matches /\ Grown(settled, gauged, 1)
  BY <1>1, <1>4, <1>5, GaugeGrown
<1> HIDE DEF gauged
<1>7. /\ gauged.phase = "started" /\ gauged.turn = m.turn /\ gauged.done = m.done
      /\ gauged.cut = m.cut /\ gauged.len = m.len + 1
  BY <1>1, <1>5, <1>6 DEF Grown
<1>8. Fits(gauged, plan)
  BY <1>1, <1>7 DEF Fits
<1>9. plan.count <= gauged.len
  <2>1. plan.count \in Nat /\ m.len \in Nat
    BY <1>2 DEF Plans, Matches
  <2> QED BY <1>1, <1>7, <2>1
<1>10. Spent(gauged, gauged.timers) /\ Settled(gauged)
  BY <1>4, <1>5, <1>6, GrownKeeps, SteadyKeeps
<1>11. ended \in Matches /\ Rested(ended)
  BY <1>2, <1>6, <1>7, <1>8, <1>9, <1>10, TurnRests
<1> HIDE DEF ended
<1>12. unlocked \in Matches /\ AtRest(unlocked) /\ unlocked.turn = ended.turn
  BY <1>11, UnlockRests
<1>13. ended.turn = "white" => over = OpponentLater(unlocked)
  BY <1>11, UnlockLater
<1>14. ended.turn # "white" => over = unlocked
  OBVIOUS
<1> HIDE DEF unlocked, over
<1>15. Going(over)
  <2>1. unlocked.turn # "white" => Asks(unlocked, unlocked.turn)
    BY DEF Asks, Controlled
  <2> QED BY <1>12, <1>13, <1>14, <2>1, RestGoes
<1> QED BY <1>3, <1>15

LEMMA BatchGoes ==
  ASSUME NEW m \in Matches, NEW spin, NEW n \in Nat, Applying(m, spin), Spent(m, m.timers)
  PROVE  /\ Going(CompleteKnockoutBatch(m, spin, n, TRUE))
         /\ CompleteKnockoutBatch(m, spin, n, FALSE) = Grow(m, n)
<1>1. CurrentBattleResolution(m, spin, "applying") /\ Fits(m, m.activeBattleResolution.plan)
  BY DEF Applying
<1>2. Grow(m, n) \in Matches /\ Grown(m, Grow(m, n), n)
  BY GrowGrown
<1>3. Applying(Grow(m, n), spin) /\ Spent(Grow(m, n), Grow(m, n).timers)
  BY <1>2, GrownRoom, GrownKeeps, SteadyKeeps
<1>4. Going(CompleteBattleResolution(Grow(m, n), spin, TRUE))
  BY <1>2, <1>3, BattleGoes
<1> QED BY <1>1, <1>4 DEF CompleteKnockoutBatch

\* stagePendingKnockouts: the room for every figure that is left, less what the
\* Center has taken already.
LEMMA StagedIs ==
  ASSUME NEW m \in Matches, NEW spin \in Nat, NEW left \in Nat, NEW shifts \in Nat,
         InHand(m), Sane(m), Applying(m, spin), left >= 2, shifts <= 2,
         m.len + 4 * left + 4 <= Capacity + shifts
  PROVE  LET n == [m EXCEPT !.pendingKnockouts = [at |-> m.len, spin |-> spin, left |-> left, shifts |-> shifts],
                            !.pendingRespin = None, !.battleResolutionPending = TRUE]
         IN Going(Later(n, "knockouts", m.len))
<1> DEFINE p == [at |-> m.len, spin |-> spin, left |-> left, shifts |-> shifts]
           n == [m EXCEPT !.pendingKnockouts = p, !.pendingRespin = None, !.battleResolutionPending = TRUE]
<1>1. p \in PendingKnockouts /\ p # None /\ m.len \in Nat
  <2>1. m.len \in Nat
    BY DEF Matches
  <2>2. p \in PendingKnockouts
    BY <2>1 DEF PendingKnockouts
  <2> QED BY <2>1, <2>2, NoneAssumption
<1>2. p.at = m.len /\ p.spin = spin /\ p.left = left /\ p.shifts = shifts
  OBVIOUS
<1> HIDE DEF p
<1>3. n \in Matches
  BY <1>1 DEF Matches
<1>4. /\ n.human = m.human /\ n.timers = m.timers /\ n.done = m.done /\ n.turn = m.turn
      /\ n.pendingRespin = None /\ n.pendingGrudge = m.pendingGrudge
      /\ n.pendingJump = m.pendingJump /\ n.pendingExtraBattle = m.pendingExtraBattle
      /\ n.battleResolutionPending
      /\ n.phase = m.phase /\ n.len = m.len /\ n.cut = m.cut /\ n.resolving = m.resolving
      /\ n.pendingPlate = m.pendingPlate /\ n.pendingKnockouts = p
      /\ n.activeBattleResolution = m.activeBattleResolution
  BY DEF Matches
<1> HIDE DEF n
<1>5. Spent(n, n.timers) /\ Single(n)
  BY <1>4 DEF InHand, Spent, Single
<1>6. Awaits(n, "knockouts")
  BY <1>4 DEF InHand, Awaits, Undecided
<1>7. Sane(n) /\ Applying(n, spin)
  BY <1>4 DEF Sane, Controlled, Applying, InTurn, CurrentBattleResolution, Fits
<1>8. KnockoutsAreOwed(n, m.len)
  BY <1>1, <1>2, <1>4, <1>7 DEF KnockoutsAreOwed
<1>9. Ready(n, "knockouts", m.len) /\ "knockouts" \in Steps
  BY <1>8 DEF Ready, Steps
<1> QED BY <1>1, <1>3, <1>5, <1>6, <1>7, <1>9, LaterGoes DEF n, p

LEMMA KnockoutsGo ==
  ASSUME NEW m \in Matches, NEW spin \in Nat, NEW n \in Nat, InHand(m), Sane(m), Applying(m, spin),
         n >= 2 => Room(m, 4 * n + 4)
  PROVE  Going(Knockouts(m, spin, n))
<1>1. CASE n = 0
  <2>1. Knockouts(m, spin, n) = CompleteBattleResolution(m, spin, TRUE)
    BY <1>1 DEF Knockouts
  <2> QED BY <2>1, BattleGoes DEF InHand
<1>2. CASE n = 1
  <2>1. Knockouts(m, spin, n) = CompleteKnockoutBatch(m, spin, 1, TRUE)
    BY <1>2 DEF Knockouts
  <2> QED BY <2>1, BatchGoes DEF InHand
<1>3. CASE n >= 2
  <2> DEFINE k == [m EXCEPT !.pendingKnockouts = [at |-> m.len, spin |-> spin, left |-> n, shifts |-> 0],
                            !.pendingRespin = None, !.battleResolutionPending = TRUE]
  <2>1. n # 0 /\ n # 1 /\ 0 \in Nat /\ 0 <= 2 /\ m.len + 4 * n + 4 <= Capacity + 0
    <3>1. m.len \in Nat /\ Capacity \in Nat
      BY EngineAssumption DEF Matches
    <3> QED BY <1>3, <3>1 DEF Room
  <2>2. Knockouts(m, spin, n) = StagePendingKnockouts(m, spin, n)
    BY <2>1 DEF Knockouts
  <2>3. StagePendingKnockouts(m, spin, n) = Later(k, "knockouts", m.len)
    BY DEF StagePendingKnockouts
  <2>4. Going(Later(k, "knockouts", m.len))
    BY <1>3, <2>1, StagedIs
  <2> QED BY <2>2, <2>3, <2>4
<1> QED BY <1>1, <1>2, <1>3

-----------------------------------------------------------------------------
\* finishBattleSpin.
LEMMA RoomShrinks ==
  ASSUME NEW m \in Matches, NEW k \in Nat, NEW j \in Nat, j <= k, Room(m, k)
  PROVE  Room(m, j)
<1>1. m.len \in Nat /\ Capacity \in Nat
  BY EngineAssumption DEF Matches
<1> QED BY <1>1 DEF Room

LEMMA AppliedGoes ==
  ASSUME NEW m \in Matches, NEW spin \in Nat, Spinning(m, spin), m.cut < m.len,
         m.activeBattleDeclaration # None
  PROVE  LET a == Applied(m, Plan(m, spin, 0))
         IN /\ a \in Matches /\ Steady(m, a) /\ Applying(a, spin)
            /\ a.len = m.len /\ a.resolving = m.resolving /\ a.pendingPlate = m.pendingPlate
            /\ a.pendingKnockouts = m.pendingKnockouts
            /\ Fits(m, Plan(m, spin, 0))
<1> DEFINE plan == Plan(m, spin, 0)
           a == Applied(m, plan)
<1>0. m.len \in Nat /\ m.cut \in Nat /\ m.done \in Nat /\ MaxCompletions \in Nat
  BY EngineAssumption DEF Matches
<1>1. plan \in Plans
  BY PlanType
<1>2. plan.ordinal = m.done + 1 /\ plan.count = m.len /\ plan.index = spin
  BY <1>0 DEF Plan
<1>3. /\ m.activeBattleResolution # None /\ CurrentBattleResolution(m, spin, "pending")
      /\ InTurn(m) /\ spin >= m.cut
  BY DEF Spinning, CurrentBattleResolution
<1> HIDE DEF plan
<1>4. Fits(m, plan)
  <2>1. m.done + 1 <= MaxCompletions
    BY <1>0, <1>3 DEF InTurn
  <2>2. plan.count > m.cut
    BY <1>0, <1>2
  <2> QED BY <1>2, <1>3, <2>1, <2>2 DEF Fits
<1>5. /\ a \in Matches /\ a.activeBattleResolution # None
      /\ a.activeBattleResolution = [m.activeBattleResolution EXCEPT !.phase = "applying", !.plan = plan]
      /\ a.phase = m.phase /\ a.turn = m.turn /\ a.len = m.len /\ a.done = m.done /\ a.cut = m.cut
  BY <1>1, <1>3, AppliedIs
<1>6. Steady(m, a)
  BY AppliedSteady
<1>7. /\ a.resolving = m.resolving /\ a.pendingPlate = m.pendingPlate
      /\ a.pendingKnockouts = m.pendingKnockouts
  BY DEF Applied, Matches
<1> HIDE DEF a
<1>8. /\ a.activeBattleResolution.phase = "applying" /\ a.activeBattleResolution.plan = plan
      /\ a.activeBattleResolution.spin = spin /\ a.activeBattleResolution.turnSide = a.turn
  <2>1. m.activeBattleResolution \in Resolutions
    BY <1>3 DEF Matches
  <2>2. m.activeBattleResolution.spin = spin /\ m.activeBattleResolution.turnSide = m.turn
    BY <1>3 DEF CurrentBattleResolution
  <2> QED BY <1>5, <2>1, <2>2 DEF Resolutions
<1>9. CurrentBattleResolution(a, spin, "applying")
  BY <1>3, <1>5, <1>8 DEF CurrentBattleResolution
<1>10. Fits(a, plan) /\ InTurn(a) /\ spin >= a.cut /\ plan.count <= a.len
  BY <1>0, <1>2, <1>3, <1>4, <1>5 DEF Fits, InTurn
<1>11. Applying(a, spin)
  BY <1>8, <1>9, <1>10 DEF Applying
<1> QED BY <1>4, <1>5, <1>6, <1>7, <1>11 DEF a, plan

LEMMA StagedJumpType ==
  ASSUME NEW m \in Matches, NEW p \in Jumps
  PROVE  [m EXCEPT !.pendingJump = p, !.pendingRespin = None, !.pendingBattles = "none",
            !.battleResolutionPending = TRUE, !.resolving = FALSE] \in Matches
<1>1. "none" \in Battles
  BY DEF Battles
<1> QED BY <1>1 DEF Matches

LEMMA StageJumpGoes ==
  ASSUME NEW m \in Matches, NEW spin \in Nat, NEW o \in Outcomes, o.jumper \in Sides, InHand(m),
         Sane(m), Applying(m, spin), m.pendingKnockouts = None
  PROVE  Going(StagePendingJump(m, spin, o))
<1> DEFINE p == [at |-> m.len, spin |-> spin, side |-> o.jumper, landing |-> o.landing, extra |-> o.extra]
           n == [m EXCEPT !.pendingJump = p, !.pendingRespin = None, !.pendingBattles = "none",
                   !.battleResolutionPending = TRUE, !.resolving = FALSE]
<1>1. p \in Jumps /\ m.len \in Nat /\ p # None
  BY OutcomeType, NoneAssumption DEF Jumps, Matches
<1>2. p.side = o.jumper /\ p.at = m.len /\ p.spin = spin /\ p.landing = o.landing
  OBVIOUS
<1>3. StagePendingJump(m, spin, o) =
        IF Controlled(m, o.jumper) /\ o.landing THEN Later(n, "opponent_jump", m.len) ELSE n
  BY DEF StagePendingJump
<1> HIDE DEF p
<1>4. n \in Matches
  BY <1>1, StagedJumpType
<1>5. /\ n.human = m.human /\ n.timers = m.timers /\ n.done = m.done /\ n.turn = m.turn
      /\ n.pendingRespin = None /\ n.pendingGrudge = m.pendingGrudge
      /\ n.pendingJump = p /\ n.pendingExtraBattle = m.pendingExtraBattle
      /\ n.battleResolutionPending /\ ~n.resolving
      /\ n.phase = m.phase /\ n.len = m.len /\ n.cut = m.cut
      /\ n.pendingPlate = m.pendingPlate /\ n.pendingKnockouts = m.pendingKnockouts
      /\ n.activeBattleResolution = m.activeBattleResolution
  BY DEF Matches
<1> HIDE DEF n
<1>6. Spent(n, n.timers) /\ Single(n) /\ ~NoChoicePending(n) /\ ~Undecided(n)
  BY <1>1, <1>5 DEF InHand, Spent, Single, NoChoicePending, Undecided
<1>7. Sane(n) /\ Applying(n, spin) /\ (Controlled(n, o.jumper) <=> Controlled(m, o.jumper))
  BY <1>5 DEF Sane, Controlled, Applying, InTurn, CurrentBattleResolution, Fits
<1>8. JumpIsAsked(n)
  BY <1>1, <1>2, <1>5, <1>7 DEF JumpIsAsked, InHand
<1>9. CASE Controlled(m, o.jumper) /\ o.landing
  <2>1. Awaits(n, "opponent_jump")
    BY <1>1, <1>2, <1>5, <1>7, <1>9 DEF Awaits, Continuing
  <2>2. Ready(n, "opponent_jump", m.len) /\ "opponent_jump" \in Steps
    BY <1>2, <1>5, <1>8, <1>9 DEF Ready, Steps
  <2> QED BY <1>1, <1>3, <1>4, <1>6, <1>7, <1>9, <2>1, <2>2, LaterGoes
<1>10. CASE ~(Controlled(m, o.jumper) /\ o.landing)
  <2>1. n.pendingJump.landing => Asks(n, n.pendingJump.side)
    BY <1>2, <1>5, <1>7, <1>10 DEF Asks
  <2>2. Open(n)
    BY <1>5, <1>6, <1>8, <2>1 DEF Open, InHand
  <2> QED BY <1>3, <1>6, <1>7, <1>10, <2>2 DEF Going
<1> QED BY <1>9, <1>10

LEMMA StageSpinsGoes ==
  ASSUME NEW m \in Matches, NEW spin \in Nat, NEW left \in Nat, NEW kos \in Nat,
         Spent(m, m.timers), Undecided(m), m.battleResolutionPending, Sane(m), Applying(m, spin),
         m.pendingKnockouts = None, left >= 1, Room(m, 39 + left), Room(m, left + 4 * kos + 4)
  PROVE  Going(StageSecondarySpins(m, spin, left, kos))
<1> DEFINE p == [at |-> m.len, spin |-> spin, left |-> left, kos |-> kos]
           n == [m EXCEPT !.pendingSecondarySpins = p]
<1>1. p \in SecondarySpins /\ m.len \in Nat /\ p # None
  BY NoneAssumption DEF SecondarySpins, Matches
<1>2. p.at = m.len /\ p.spin = spin /\ p.left = left /\ p.kos = kos
  OBVIOUS
<1>3. StageSecondarySpins(m, spin, left, kos) = Later(n, "secondary", m.len)
  BY DEF StageSecondarySpins
<1> HIDE DEF p
<1>4. n \in Matches
  BY <1>1 DEF Matches
<1>5. Steady(m, n)
  BY DEF Steady, Matches
<1>6. /\ n.human = m.human /\ n.turn = m.turn /\ n.done = m.done
      /\ n.phase = m.phase /\ n.len = m.len /\ n.cut = m.cut /\ n.resolving = m.resolving
      /\ n.pendingPlate = m.pendingPlate /\ n.pendingKnockouts = m.pendingKnockouts
      /\ n.activeBattleResolution = m.activeBattleResolution
      /\ n.pendingSecondarySpins = p
  BY DEF Matches
<1> HIDE DEF n
<1>7. Spent(n, n.timers) /\ Undecided(n) /\ n.battleResolutionPending
  BY <1>5, SteadyKeeps DEF Steady
<1>8. Single(n) /\ Awaits(n, "secondary")
  BY <1>7 DEF Single, Awaits, Undecided
<1>9. Sane(n) /\ Applying(n, spin)
  BY <1>6 DEF Sane, Controlled, Applying, InTurn, CurrentBattleResolution, Fits
<1>10. WheelsAreOwed(n, m.len)
  BY <1>1, <1>2, <1>6, <1>9 DEF WheelsAreOwed, Room
<1>11. Ready(n, "secondary", m.len) /\ "secondary" \in Steps
  BY <1>6, <1>10 DEF Ready, Steps
<1> QED BY <1>1, <1>3, <1>4, <1>7, <1>8, <1>9, <1>11, LaterGoes

\* The room that is left when the wheels have stopped.
Affords(m, o) == Room(m, 39 + o.wheels) /\ Room(m, o.wheels + 4 * o.faint + 4)

LEMMA FinishSpinGoes ==
  ASSUME NEW m, Typed(m), InHand(m), Sane(m), NEW spin \in Nat, NEW o \in Outcomes,
         Spinning(m, spin), m.cut < m.len, m.pendingKnockouts = None,
         m.pendingRespin = None => m.battleResolutionPending,
         m.pendingRespin # None => o.wheels = 0,
         Affords(m, o)
  PROVE  Going(FinishBattleSpin(m, spin, o))
<1> DEFINE n == FinishBattleSpin(m, spin, o)
           a == Applied(m, Plan(m, spin, 0))
<1>1. m \in Matches
  BY DEF Typed
<1>2. m.activeBattleResolution # None /\ CurrentBattleResolution(m, spin, "pending")
  BY DEF Spinning, CurrentBattleResolution
<1>3. m.activeBattleDeclaration # None
  BY <1>2 DEF Typed, Linked
<1>4. o.wheels \in Nat /\ o.faint \in Nat /\ o.jumper \in Sides \cup {"nobody"}
  BY OutcomeType
<1>5. Room(m, 39)
  <2>1. 39 + o.wheels \in Nat /\ 39 <= 39 + o.wheels /\ 39 \in Nat
    BY <1>4
  <2> QED BY <1>1, <2>1, RoomShrinks DEF Affords
<1>6. /\ a \in Matches /\ Steady(m, a) /\ Applying(a, spin)
      /\ a.len = m.len /\ a.resolving = m.resolving /\ a.pendingPlate = m.pendingPlate
      /\ a.pendingKnockouts = m.pendingKnockouts
      /\ Fits(m, Plan(m, spin, 0))
  BY <1>1, <1>3, AppliedGoes
<1>7. n = IF o.jumper # "nobody" THEN StagePendingJump(a, spin, o)
          ELSE IF o.wheels > 0 THEN StageSecondarySpins(a, spin, o.wheels, o.faint)
          ELSE Knockouts(a, spin, o.faint)
  BY <1>2, <1>5, <1>6 DEF FinishBattleSpin, Applied
<1> HIDE DEF a, n
<1>8. InHand(a)
  BY <1>6, SteadyKeeps
<1>9. Sane(a)
  BY <1>6 DEF Sane, Steady, Controlled
<1>10. Room(a, 39 + o.wheels) /\ Room(a, o.wheels + 4 * o.faint + 4)
  BY <1>6 DEF Affords, Room
<1>11. CASE o.jumper # "nobody"
  <2>1. o.jumper \in Sides
    BY <1>4, <1>11
  <2>2. Going(StagePendingJump(a, spin, o))
    BY <1>6, <1>8, <1>9, <2>1, StageJumpGoes
  <2> QED BY <1>7, <1>11, <2>2 DEF n
<1>12. CASE o.jumper = "nobody" /\ o.wheels > 0
  <2>1. m.pendingRespin = None /\ m.battleResolutionPending
    BY <1>4, <1>12
  <2>2. Spent(a, a.timers) /\ Undecided(a) /\ a.battleResolutionPending
    BY <1>6, <1>8, <2>1 DEF InHand, Undecided, Steady
  <2>3. o.wheels >= 1
    BY <1>4, <1>12
  <2>4. Going(StageSecondarySpins(a, spin, o.wheels, o.faint))
    BY <1>4, <1>6, <1>9, <1>10, <2>2, <2>3, StageSpinsGoes
  <2> QED BY <1>7, <1>12, <2>4 DEF n
<1>13. CASE o.jumper = "nobody" /\ ~(o.wheels > 0)
  <2>1. Room(a, 4 * o.faint + 4)
    <3>1. o.wheels + 4 * o.faint + 4 = 4 * o.faint + 4
      BY <1>4, <1>13
    <3> QED BY <1>10, <3>1
  <2>2. Going(Knockouts(a, spin, o.faint))
    BY <1>4, <1>6, <1>8, <1>9, <2>1, KnockoutsGo
  <2> QED BY <1>7, <1>13, <2>2 DEF n
<1> QED BY <1>11, <1>12, <1>13

-----------------------------------------------------------------------------
\* The room a declared battle reserves suffices for its wheels and figures.  The
\* code keeps far below: each of the two fighters asks for at most one secondary
\* wheel (iceShardSpinPlans), and the most figures fall to a Rock Slide on either
\* side, which takes a fighter and its neighbours (applyRockSlide1140), of which
\* a point of the board has three (FIELD_EDGES): two wheels and eight figures.
RecordSuffices == Wheels <= 10 /\ Wheels + 4 * MaxFaint <= 43

LEMMA OutcomesAfforded ==
  ASSUME RecordSuffices, NEW m \in Matches, NEW o \in Outcomes, Room(m, 47), o.wheels = 0 \/ Room(m, 49)
  PROVE  Affords(m, o)
<1>1. /\ m.len \in Nat /\ Capacity \in Nat /\ Wheels \in Nat /\ MaxFaint \in Nat
      /\ o.wheels \in Nat /\ o.faint \in Nat
  BY EngineAssumption, OutcomeType DEF Matches
<1>2. o.wheels <= Wheels /\ o.faint <= MaxFaint
  <2>1. \/ o.wheels \in 0..Wheels /\ o.faint \in 0..MaxFaint
        \/ o.wheels = 0 /\ o.faint = 0
    BY DEF Outcomes
  <2> QED BY <1>1, <2>1
<1>3. m.len + 47 <= Capacity /\ (o.wheels = 0 \/ m.len + 49 <= Capacity)
  BY DEF Room
<1>4. m.len + (39 + o.wheels) <= Capacity
  BY <1>1, <1>2, <1>3 DEF RecordSuffices
<1>5. m.len + (o.wheels + 4 * o.faint + 4) <= Capacity
  BY <1>1, <1>2, <1>3 DEF RecordSuffices
<1> QED BY <1>4, <1>5 DEF Affords, Room

\* performBattleSpin.
LEMMA SpunGoes ==
  ASSUME NEW m \in Matches, InTurn(m)
  PROVE  LET s == Spun(m)
         IN /\ s \in Matches /\ Steady(m, s) /\ Spinning(s, m.len)
            /\ s.len = m.len + 1 /\ s.cut < s.len
            /\ s.pendingKnockouts = m.pendingKnockouts
            /\ Sane(s) <=> Sane(m)
<1> DEFINE r == [spin |-> m.len, turnSide |-> m.turn, phase |-> "pending", plan |-> None]
           g == Grow(m, 1)
           s == [g EXCEPT !.activeBattleResolution = r]
<1>1. r \in Resolutions /\ r # None
  <2>1. r \in Resolutions
    BY DEF Resolutions, Matches
  <2> QED BY <2>1, NoneAssumption
<1>2. r.spin = m.len /\ r.turnSide = m.turn /\ r.phase = "pending"
  OBVIOUS
<1>3. g \in Matches /\ Grown(m, g, 1)
  BY GrowGrown
<1>4. Spun(m) = s
  BY DEF Spun
<1> HIDE DEF r, g
<1>5. /\ s.human = g.human /\ s.turn = g.turn /\ s.phase = g.phase /\ s.len = g.len /\ s.done = g.done
      /\ s.cut = g.cut /\ s.resolving = g.resolving /\ s.pendingPlate = g.pendingPlate
      /\ s.pendingKnockouts = g.pendingKnockouts /\ s.activeBattleResolution = r
  BY <1>3 DEF Matches
<1> HIDE DEF s
<1>6. s \in Matches /\ Steady(m, s)
  BY <1>4, SpunIs, SpunSteady
<1>7. /\ s.human = m.human /\ s.turn = m.turn /\ s.phase = m.phase /\ s.len = m.len + 1 /\ s.done = m.done
      /\ s.cut = m.cut /\ s.resolving = m.resolving /\ s.pendingPlate = m.pendingPlate
      /\ s.pendingKnockouts = m.pendingKnockouts
  BY <1>3, <1>5 DEF Grown
<1>8. m.len \in Nat /\ m.cut \in Nat /\ m.cut <= m.len
  BY DEF Matches, InTurn
<1>9. s.cut < s.len /\ m.len >= s.cut
  BY <1>7, <1>8
<1>10. InTurn(s)
  BY <1>7, <1>8 DEF InTurn
<1>11. CurrentBattleResolution(s, m.len, "pending")
  BY <1>1, <1>2, <1>5, <1>7 DEF CurrentBattleResolution, InTurn
<1>12. Sane(s) <=> Sane(m)
  BY <1>7 DEF Sane, Controlled
<1> QED BY <1>4, <1>6, <1>7, <1>9, <1>10, <1>11, <1>12 DEF Spinning

LEMMA OfferedGoes ==
  ASSUME NEW m \in Matches, InTurn(m), Spent(m, m.timers), Undecided(m), Sane(m),
         m.pendingKnockouts = None, m.pendingPlate # "none", Room(m, 50)
  PROVE  Going(RespinOffered(m))
<1> DEFINE p == [spin |-> m.len, side |-> m.turn, declared |-> FALSE]
           s == Spun(m)
           n == [s EXCEPT !.pendingRespin = p, !.resolving = FALSE]
<1>1. p \in Respins /\ p # None
  <2>1. p \in Respins
    BY DEF Respins, Matches
  <2> QED BY <2>1, NoneAssumption
<1>2. p.spin = m.len /\ p.side = m.turn /\ ~p.declared
  OBVIOUS
<1>3. /\ s \in Matches /\ Steady(m, s) /\ Spinning(s, m.len)
      /\ s.len = m.len + 1 /\ s.pendingKnockouts = m.pendingKnockouts
      /\ Sane(s)
  BY SpunGoes
<1>4. RespinOffered(m) = n
  BY DEF RespinOffered
<1> HIDE DEF p, s
<1>5. /\ n.human = s.human /\ n.timers = s.timers /\ n.done = s.done /\ n.turn = s.turn
      /\ n.pendingRespin = p /\ n.pendingGrudge = s.pendingGrudge
      /\ n.pendingJump = s.pendingJump /\ n.pendingExtraBattle = s.pendingExtraBattle
      /\ n.battleResolutionPending = s.battleResolutionPending /\ ~n.resolving
      /\ n.phase = s.phase /\ n.len = s.len /\ n.cut = s.cut
      /\ n.pendingPlate = s.pendingPlate /\ n.pendingKnockouts = s.pendingKnockouts
      /\ n.activeBattleResolution = s.activeBattleResolution
  BY <1>3 DEF Matches
<1> HIDE DEF n
<1>6. /\ n.human = m.human /\ n.timers = m.timers /\ n.done = m.done /\ n.turn = m.turn
      /\ n.pendingGrudge = None /\ n.pendingJump = None /\ n.pendingExtraBattle = None
      /\ n.pendingKnockouts = None /\ n.len = m.len + 1
  BY <1>3, <1>5 DEF Steady, Undecided
<1>7. Spent(n, n.timers) /\ Single(n) /\ ~NoChoicePending(n) /\ ~Undecided(n)
  BY <1>1, <1>5, <1>6 DEF Spent, Single, NoChoicePending, Undecided
<1>8. Sane(n) /\ Spinning(n, m.len)
  BY <1>3, <1>5 DEF Sane, Controlled, Spinning, InTurn, CurrentBattleResolution
<1>9. ~Controlled(n, m.turn)
  <2>1. ~Controlled(m, m.turn)
    BY DEF Sane
  <2> QED BY <1>6, <2>1 DEF Controlled
<1>10. RespinIsAsked(n)
  BY <1>1, <1>2, <1>5, <1>6, <1>8, <1>9 DEF RespinIsAsked
<1>11. Room(n, 49)
  <2>1. m.len \in Nat /\ Capacity \in Nat
    BY EngineAssumption DEF Matches
  <2> QED BY <1>6, <2>1 DEF Room
<1>12. Open(n)
  BY <1>2, <1>5, <1>6, <1>7, <1>10, <1>11 DEF Open
<1> QED BY <1>4, <1>7, <1>8, <1>12 DEF Going

\* finishBattleSpin takes nothing from the record.
LEMMA FinishSpinGrows ==
  ASSUME NEW m, Typed(m), NEW spin \in Nat, NEW o \in Outcomes
  PROVE  FinishBattleSpin(m, spin, o).len >= m.len
<1> DEFINE n == FinishBattleSpin(m, spin, o)
           a == Applied(m, Plan(m, spin, 0))
<1>1. m \in Matches /\ m.len \in Nat
  BY DEF Typed, Matches
<1> SUFFICES ASSUME n # m PROVE n.len >= m.len
  BY <1>1
<1>2. Calm(a, n)
  BY FinishSpinCalm
<1>3. a.len = m.len
  <2>1. m.activeBattleResolution # None /\ m.activeBattleDeclaration # None /\ Plan(m, spin, 0) \in Plans
    BY <1>1, FinishSpinIs DEF Typed, Linked
  <2> QED BY <1>1, <2>1, AppliedIs
<1> QED BY <1>2, <1>3 DEF Calm, Mild

LEMMA PerformSpinGoes ==
  ASSUME RecordSuffices, NEW m, Typed(m), NEW at, NEW o \in Outcomes, BattleIsDeclared(m, at),
         Spent(m, m.timers), Undecided(m), m.battleResolutionPending, Sane(m),
         m.pendingKnockouts = None, Room(m, 50)
  PROVE  Going(PerformBattleSpin(m, at, o)) /\ PerformBattleSpin(m, at, o).len > m.len
<1> DEFINE s == Spun(m)
<1>1. m \in Matches /\ m.len \in Nat /\ Capacity \in Nat /\ InTurn(m)
  BY EngineAssumption DEF Typed, Matches, BattleIsDeclared
<1>2. Room(m, 42)
  <2>1. 50 \in Nat /\ 42 \in Nat /\ 42 <= 50
    OBVIOUS
  <2> QED BY <1>1, <2>1, RoomShrinks
<1>3. PerformBattleSpin(m, at, o) =
        IF m.pendingPlate = "respin" THEN RespinOffered(m) ELSE FinishBattleSpin(s, m.len, o)
  BY <1>1, <1>2 DEF PerformBattleSpin, Spun, RespinOffered, BattleIsDeclared, InTurn, Settled
<1>4. /\ s \in Matches /\ Steady(m, s) /\ Spinning(s, m.len)
      /\ s.len = m.len + 1 /\ s.cut < s.len
      /\ s.pendingKnockouts = None /\ Sane(s)
  BY <1>1, SpunGoes
<1>5. Typed(s)
  BY <1>1, SpunIs DEF Typed, Linked, BattleIsDeclared
<1> HIDE DEF s
<1>10. FinishBattleSpin(s, m.len, o).len > m.len /\ RespinOffered(m).len > m.len
  <2>1. FinishBattleSpin(s, m.len, o).len >= m.len + 1
    BY <1>1, <1>4, <1>5, FinishSpinGrows
  <2>2. FinishBattleSpin(s, m.len, o).len \in Nat
    <3>1. FinishBattleSpin(s, m.len, o) \in Matches
      BY <1>1, <1>5, FinishSpinTyped DEF Typed
    <3> QED BY <3>1 DEF Matches
  <2>3. RespinOffered(m).len = m.len + 1
    BY <1>1, OfferedIs
  <2> QED BY <1>1, <2>1, <2>2, <2>3
<1>6. InHand(s) /\ s.pendingRespin = None /\ s.battleResolutionPending
  <2>1. InHand(m)
    BY DEF InHand, Undecided
  <2> QED BY <1>4, <2>1, SteadyKeeps DEF Steady, Undecided
<1>7. Affords(s, o)
  <2>1. Room(s, 49)
    BY <1>1, <1>4 DEF Room
  <2>2. Room(s, 47)
    <3>1. 49 \in Nat /\ 47 \in Nat /\ 47 <= 49
      OBVIOUS
    <3> QED BY <1>4, <2>1, <3>1, RoomShrinks
  <2> QED BY <1>4, <2>1, <2>2, OutcomesAfforded
<1>8. Going(FinishBattleSpin(s, m.len, o))
  BY <1>1, <1>4, <1>5, <1>6, <1>7, FinishSpinGoes
<1>9. m.pendingPlate = "respin" => Going(RespinOffered(m))
  BY <1>1, OfferedGoes
<1> QED BY <1>3, <1>8, <1>9, <1>10 DEF s

\* resolveBattle: the disabled wheels are shown first.
LEMMA ResolveGoes ==
  ASSUME RecordSuffices, NEW m, Typed(m), NEW at \in Nat, NEW d \in 0..2, NEW o \in Outcomes,
         BattleIsDeclared(m, at), ~m.activeBattleDeclaration.started,
         Spent(m, m.timers), Undecided(m), m.battleResolutionPending, Sane(m),
         m.pendingKnockouts = None, Room(m, 52)
  PROVE  Going(ResolveBattle(m, at, d, o)) /\ ResolveBattle(m, at, d, o).len > m.len
<1> DEFINE b == Started(m)
           g == Grow(b, d)
           w == Later(g, "spin", at)
<1>1. /\ m \in Matches /\ m.len \in Nat /\ Capacity \in Nat /\ InTurn(m) /\ Settled(m)
      /\ m.activeBattleDeclaration # None /\ m.activeBattleDeclaration \in Declarations /\ d \in Nat
  BY EngineAssumption DEF Typed, Matches, BattleIsDeclared
<1>2. Room(m, 44)
  <2>1. 52 \in Nat /\ 44 \in Nat /\ 44 <= 52
    OBVIOUS
  <2> QED BY <1>1, <2>1, RoomShrinks
<1>3. ResolveBattle(m, at, d, o) = IF d = 0 THEN PerformBattleSpin(b, at, o) ELSE w
  BY <1>1, <1>2 DEF ResolveBattle, Started, BattleIsDeclared, InTurn
<1>4. Typed(b) /\ b \in Matches /\ b.activeBattleDeclaration # None
      /\ b.activeBattleDeclaration = [m.activeBattleDeclaration EXCEPT !.started = TRUE]
  BY <1>1, StartedIs DEF Typed, Linked
<1>5. Steady(m, b)
  BY <1>1 DEF Started, Steady, Matches
<1>6. /\ b.phase = m.phase /\ b.len = m.len /\ b.cut = m.cut /\ b.resolving = m.resolving
      /\ b.pendingPlate = m.pendingPlate /\ b.pendingKnockouts = m.pendingKnockouts
      /\ b.activeBattleResolution = m.activeBattleResolution
  BY <1>1 DEF Started, Matches
<1> HIDE DEF b
<1>7. Spent(b, b.timers) /\ Undecided(b) /\ b.battleResolutionPending
  BY <1>5, SteadyKeeps DEF Steady
<1>8. b.activeBattleDeclaration.at = at /\ b.activeBattleDeclaration.turnSide = b.turn
  BY <1>1, <1>4, <1>5 DEF Declarations, BattleIsDeclared, Steady
<1>9. BattleIsDeclared(b, at) /\ Sane(b)
  BY <1>1, <1>4, <1>5, <1>6, <1>8 DEF BattleIsDeclared, InTurn, Settled, Sane, Steady, Controlled
<1>10. Room(b, 50) /\ Room(b, 52)
  BY <1>1, <1>6 DEF Room
<1>11. Going(PerformBattleSpin(b, at, o))
  BY <1>4, <1>6, <1>7, <1>9, <1>10, PerformSpinGoes
<1>18. PerformBattleSpin(b, at, o).len > m.len
  BY <1>4, <1>6, <1>7, <1>9, <1>10, PerformSpinGoes
<1>12. g \in Matches /\ Grown(b, g, d)
  BY <1>1, <1>4, GrowGrown
<1> HIDE DEF g
<1>13. /\ Spent(g, g.timers) /\ Undecided(g) /\ g.battleResolutionPending /\ Sane(g)
       /\ g.pendingKnockouts = None /\ Settled(g)
  <2>1. Steady(b, g) /\ Sane(g) /\ Settled(g)
    BY <1>9, <1>12, GrownKeeps DEF BattleIsDeclared
  <2>2. g.pendingKnockouts = None /\ g.battleResolutionPending
    BY <1>6, <1>7, <1>12 DEF Grown
  <2>3. Spent(g, g.timers) /\ Undecided(g)
    BY <1>7, <2>1, SteadyKeeps
  <2> QED BY <2>1, <2>2, <2>3
<1>14. BattleIsDeclared(g, at)
  BY <1>1, <1>4, <1>9, <1>12, <1>13, GrownRoom DEF BattleIsDeclared, Grown
<1>15. Room(g, 50)
  <2>1. d <= 2 /\ g.len = m.len + d
    BY <1>6, <1>12 DEF Grown
  <2> QED BY <1>1, <2>1 DEF Room
<1>16. Single(g) /\ Awaits(g, "spin") /\ Ready(g, "spin", at) /\ "spin" \in Steps
  BY <1>13, <1>14, <1>15 DEF Single, Undecided, Awaits, Ready, Steps
<1>17. Going(w)
  BY <1>12, <1>13, <1>16, LaterGoes
<1>19. d # 0 => w.len > m.len
  <2>1. w.len = g.len /\ g.len = m.len + d
    BY <1>6, <1>12 DEF Later, Grown, Matches
  <2> QED BY <1>1, <2>1
<1> QED BY <1>3, <1>11, <1>17, <1>18, <1>19 DEF b, g

\* performPendingRespin: the wheel that is spun again takes the place of the
\* one that was offered.
LEMMA RespinGoes ==
  ASSUME RecordSuffices, NEW m, Typed(m), NEW o \in Outcomes, o.wheels = 0,
         RespinIsAsked(m), m.pendingRespin.declared, Spent(m, m.timers), Single(m), Sane(m),
         m.pendingKnockouts = None, Room(m, 48)
  PROVE  Going(PerformPendingRespin(m, o)) /\ PerformPendingRespin(m, o).len > m.len
<1> DEFINE p == [m.pendingRespin EXCEPT !.spin = m.len]
           r == [spin |-> m.len, turnSide |-> m.activeBattleResolution.turnSide, phase |-> "pending", plan |-> None]
           g == Grow(m, 1)
           a == [g EXCEPT !.pendingRespin = p]
           k == [a EXCEPT !.activeBattleResolution = r]
<1>1. /\ m \in Matches /\ m.len \in Nat /\ m.cut \in Nat /\ Capacity \in Nat
      /\ m.pendingRespin # None /\ InTurn(m) /\ CurrentBattleResolution(m, m.pendingRespin.spin, "pending")
  BY EngineAssumption DEF Typed, Matches, RespinIsAsked, Spinning
<1>2. /\ m.activeBattleResolution # None /\ m.activeBattleResolution \in Resolutions
      /\ m.pendingRespin \in Respins /\ m.activeBattleResolution.turnSide = m.turn
      /\ m.phase = "started" /\ m.cut <= m.len
  BY <1>1 DEF Matches, CurrentBattleResolution, InTurn
<1>3. r \in Resolutions /\ r # None /\ p \in Respins /\ p # None
  <2>1. r \in Resolutions /\ p \in Respins
    BY <1>1, <1>2 DEF Resolutions, Respins
  <2> QED BY <2>1, NoneAssumption
<1>4. r.spin = m.len /\ r.turnSide = m.turn /\ r.phase = "pending"
  BY <1>2
<1>5. PerformPendingRespin(m, o) = FinishBattleSpin(k, m.len, o)
  <2>1. [g EXCEPT !.pendingRespin.spin = m.len,
          !.activeBattleResolution = [spin |-> m.len, turnSide |-> @.turnSide, phase |-> "pending", plan |-> None]] = k
    BY <1>1 DEF Grow, Matches
  <2>2. Room(m, 40)
    BY <1>1 DEF Room
  <2> HIDE DEF k
  <2> QED BY <1>1, <1>2, <2>1, <2>2 DEF PerformPendingRespin
<1>6. g \in Matches /\ Grown(m, g, 1)
  BY <1>1, GrowGrown
<1> HIDE DEF g, p, r
<1>7. a \in Matches
  BY <1>3, <1>6 DEF Matches
<1>8. /\ a.human = g.human /\ a.timers = g.timers /\ a.done = g.done /\ a.turn = g.turn
      /\ a.pendingRespin = p /\ a.pendingGrudge = g.pendingGrudge
      /\ a.pendingJump = g.pendingJump /\ a.pendingExtraBattle = g.pendingExtraBattle
      /\ a.phase = g.phase /\ a.len = g.len /\ a.cut = g.cut /\ a.resolving = g.resolving
      /\ a.pendingPlate = g.pendingPlate /\ a.pendingKnockouts = g.pendingKnockouts
      /\ a.activeBattleDeclaration = g.activeBattleDeclaration
  BY <1>6 DEF Matches
<1> HIDE DEF a
<1>9. k \in Matches
  BY <1>3, <1>7 DEF Matches
<1>10. /\ k.human = a.human /\ k.timers = a.timers /\ k.done = a.done /\ k.turn = a.turn
       /\ k.pendingRespin = a.pendingRespin /\ k.pendingGrudge = a.pendingGrudge
       /\ k.pendingJump = a.pendingJump /\ k.pendingExtraBattle = a.pendingExtraBattle
       /\ k.phase = a.phase /\ k.len = a.len /\ k.cut = a.cut /\ k.resolving = a.resolving
       /\ k.pendingPlate = a.pendingPlate /\ k.pendingKnockouts = a.pendingKnockouts
       /\ k.activeBattleDeclaration = a.activeBattleDeclaration
       /\ k.activeBattleResolution = r
  BY <1>7 DEF Matches
<1> HIDE DEF k
<1>11. /\ k.human = m.human /\ k.timers = m.timers /\ k.done = m.done /\ k.turn = m.turn
       /\ k.pendingRespin # None /\ k.pendingGrudge = None
       /\ k.pendingJump = None /\ k.pendingExtraBattle = None
       /\ k.phase = m.phase /\ k.len = m.len + 1 /\ k.cut = m.cut /\ k.resolving = m.resolving
       /\ k.pendingPlate = m.pendingPlate /\ k.pendingKnockouts = None
       /\ k.activeBattleDeclaration = m.activeBattleDeclaration
  BY <1>1, <1>3, <1>6, <1>8, <1>10 DEF Grown, Single, RespinIsAsked
<1>12. InHand(k) /\ Sane(k)
  BY <1>11 DEF InHand, Spent, Sane, Controlled
<1>13. Typed(k)
  <2>1. m.activeBattleDeclaration # None
    BY <1>2 DEF Typed, Linked
  <2> QED BY <1>3, <1>9, <1>10, <1>11, <2>1 DEF Typed, Linked
<1>14. Spinning(k, m.len) /\ k.cut < k.len
  <2>1. InTurn(k) /\ m.len >= k.cut /\ k.cut < k.len
    BY <1>1, <1>2, <1>11 DEF InTurn
  <2> QED BY <1>2, <1>3, <1>4, <1>10, <1>11, <2>1 DEF Spinning, CurrentBattleResolution
<1>15. Affords(k, o)
  <2>1. Room(k, 47)
    BY <1>1, <1>11 DEF Room
  <2> QED BY <1>9, <2>1, OutcomesAfforded
<1>16. Going(FinishBattleSpin(k, m.len, o))
  BY <1>1, <1>11, <1>12, <1>13, <1>14, <1>15, FinishSpinGoes
<1>17. FinishBattleSpin(k, m.len, o).len > m.len
  <2>1. FinishBattleSpin(k, m.len, o).len >= m.len + 1
    BY <1>1, <1>11, <1>13, FinishSpinGrows
  <2>2. FinishBattleSpin(k, m.len, o).len \in Nat
    <3>1. FinishBattleSpin(k, m.len, o) \in Matches
      BY <1>1, <1>13, FinishSpinTyped DEF Typed
    <3> QED BY <3>1 DEF Matches
  <2> QED BY <1>1, <2>1, <2>2
<1> QED BY <1>5, <1>16, <1>17

\* performSecondarySpins.
LEMMA SecondaryGoes ==
  ASSUME NEW m \in Matches, NEW at, WheelsAreOwed(m, at), Spent(m, m.timers), Undecided(m),
         m.battleResolutionPending, Sane(m), m.pendingKnockouts = None
  PROVE  /\ Going(PerformSecondarySpins(m, at))
         /\ PerformSecondarySpins(m, at).len > m.len
<1> DEFINE p == m.pendingSecondarySpins
           plan == Plan(m, m.len, 1)
           r == [m.activeBattleResolution EXCEPT !.spin = m.len, !.plan = plan]
           grown == Grow(m, 1)
           n == [grown EXCEPT !.activeBattleResolution = r]
           spun == [n EXCEPT !.pendingSecondarySpins = None]
<1>1. /\ InHand(m) /\ p # None /\ p \in SecondarySpins /\ p.at = at /\ p.at = m.len /\ p.left >= 1
      /\ Applying(m, p.spin) /\ Room(m, 39 + p.left) /\ Room(m, p.left + 4 * p.kos + 4)
  BY DEF InHand, Undecided, WheelsAreOwed, Matches
<1>2. /\ m.len \in Nat /\ m.cut \in Nat /\ m.done \in Nat /\ Capacity \in Nat /\ MaxCompletions \in Nat
      /\ p.left \in Nat /\ p.kos \in Nat
  BY <1>1, EngineAssumption DEF Matches, SecondarySpins
<1>3. plan \in Plans /\ plan.ordinal = m.done + 1 /\ plan.count = m.len + 1 /\ plan.index = m.len
  <2>1. plan \in Plans
    BY <1>2, PlanType
  <2> QED BY <2>1 DEF Plan
<1>4. /\ CurrentBattleResolution(m, p.spin, "applying") /\ InTurn(m) /\ m.activeBattleResolution # None
      /\ m.activeBattleResolution \in Resolutions
  BY <1>1 DEF Applying, CurrentBattleResolution, Matches
<1>5. /\ PerformSecondarySpins(m, at) =
           IF p.left > 1 THEN StageSecondarySpins(spun, m.len, p.left - 1, p.kos)
           ELSE Knockouts(spun, m.len, p.kos)
  <2>1. [grown EXCEPT !.activeBattleResolution.spin = m.len, !.activeBattleResolution.plan = plan,
                      !.pendingSecondarySpins = None] = spun
    BY DEF Grow, Matches
  <2>2. Room(m, 40)
    BY <1>1, <1>2 DEF Room
  <2> QED BY <1>1, <1>4, <2>1, <2>2 DEF PerformSecondarySpins
<1> HIDE DEF plan
<1>6. /\ r \in Resolutions /\ r.spin = m.len /\ r.plan = plan /\ r.phase = "applying" /\ r.turnSide = m.turn
  <2>1. m.activeBattleResolution.phase = "applying" /\ m.activeBattleResolution.turnSide = m.turn
    BY <1>4 DEF CurrentBattleResolution
  <2> QED BY <1>2, <1>3, <1>4, <2>1 DEF Resolutions
<1>7. grown \in Matches /\ Grown(m, grown, 1)
  BY GrowGrown
<1> HIDE DEF r, grown
<1>8. n \in Matches /\ Steady(grown, n)
  <2>1. n \in Matches
    BY <1>6, <1>7 DEF Matches
  <2>2. Steady(grown, n)
    BY <1>7 DEF Steady, Matches
  <2> QED BY <2>1, <2>2
<1>9. /\ n.phase = grown.phase /\ n.len = grown.len /\ n.cut = grown.cut /\ n.resolving = grown.resolving
      /\ n.pendingPlate = grown.pendingPlate /\ n.pendingKnockouts = grown.pendingKnockouts
      /\ n.activeBattleResolution = r
  BY <1>7 DEF Matches
<1> HIDE DEF n
<1>10. spun \in Matches /\ Steady(n, spun)
  BY <1>8 DEF Steady, Matches
<1>11. /\ spun.phase = n.phase /\ spun.len = n.len /\ spun.cut = n.cut /\ spun.resolving = n.resolving
       /\ spun.pendingPlate = n.pendingPlate /\ spun.pendingKnockouts = n.pendingKnockouts
       /\ spun.activeBattleResolution = n.activeBattleResolution
  BY <1>8 DEF Matches
<1> HIDE DEF spun
<1>12. Steady(m, grown)
  BY <1>7, GrownKeeps
<1>13. Steady(m, spun)
  BY <1>8, <1>10, <1>12, SteadyTrans
<1>14. /\ spun.phase = m.phase /\ spun.len = m.len + 1 /\ spun.cut = m.cut /\ spun.resolving = m.resolving
       /\ spun.pendingPlate = m.pendingPlate /\ spun.pendingKnockouts = None
       /\ spun.activeBattleResolution = r
  BY <1>7, <1>9, <1>11 DEF Grown
<1>15. InHand(spun) /\ Spent(spun, spun.timers) /\ Undecided(spun) /\ spun.battleResolutionPending
  BY <1>1, <1>13, SteadyKeeps DEF Steady
<1>16. Sane(spun)
  BY <1>13, <1>14 DEF Sane, Steady, Controlled
<1>17. Applying(spun, m.len)
  <2>1. InTurn(spun) /\ m.len >= spun.cut /\ plan.count <= spun.len
    BY <1>2, <1>3, <1>4, <1>13, <1>14 DEF InTurn, Steady
  <2>2. Fits(spun, plan)
    BY <1>2, <1>3, <1>4, <1>13, <1>14, <2>1 DEF InTurn, Fits, Steady
  <2>3. CurrentBattleResolution(spun, m.len, "applying")
    BY <1>4, <1>6, <1>13, <1>14, NoneAssumption DEF CurrentBattleResolution, Steady
  <2> QED BY <1>6, <1>14, <2>1, <2>2, <2>3 DEF Applying
<1>18. /\ spun.len + (39 + p.left - 1) <= Capacity
       /\ spun.len + (p.left - 1 + 4 * p.kos + 4) <= Capacity
  BY <1>1, <1>2, <1>14 DEF Room
<1>19. CASE p.left > 1
  <2>1. p.left - 1 \in Nat /\ p.left - 1 >= 1
    BY <1>2, <1>19
  <2>2. Room(spun, 39 + (p.left - 1)) /\ Room(spun, (p.left - 1) + 4 * p.kos + 4)
    BY <1>2, <1>14, <1>18 DEF Room
  <2>3. Going(StageSecondarySpins(spun, m.len, p.left - 1, p.kos))
    BY <1>2, <1>10, <1>14, <1>15, <1>16, <1>17, <2>1, <2>2, StageSpinsGoes
  <2>4. Calm(spun, StageSecondarySpins(spun, m.len, p.left - 1, p.kos))
    BY <1>2, <1>10, <2>1, StageSpinsCalm
  <2> HIDE DEF p
  <2>5. StageSecondarySpins(spun, m.len, p.left - 1, p.kos).len > m.len
    BY <1>2, <1>14, <2>4 DEF Calm, Mild, Matches
  <2> QED BY <1>5, <1>19, <2>3, <2>5
<1>20. CASE ~(p.left > 1)
  <2>1. Room(spun, 4 * p.kos + 4)
    BY <1>1, <1>2, <1>14, <1>18, <1>20 DEF Room
  <2>2. Going(Knockouts(spun, m.len, p.kos))
    BY <1>2, <1>10, <1>15, <1>16, <1>17, <2>1, KnockoutsGo
  <2>3. Calm(spun, Knockouts(spun, m.len, p.kos))
    BY <1>2, <1>10, KnockoutsCalm
  <2>4. Knockouts(spun, m.len, p.kos).len > m.len
    BY <1>2, <1>14, <2>3 DEF Calm, Mild, Matches
  <2> QED BY <1>5, <1>20, <2>2, <2>4
<1> QED BY <1>19, <1>20

\* performPendingKnockouts.
LEMMA PerformKnockoutsGoes ==
  ASSUME NEW m \in Matches, NEW at, NEW shift \in BOOLEAN, KnockoutsAreOwed(m, at), InHand(m), Sane(m)
  PROVE  Going(PerformPendingKnockouts(m, at, shift)) /\ PerformPendingKnockouts(m, at, shift).len > m.len
<1> DEFINE p == m.pendingKnockouts
           plan == Plan(m, p.spin, 1)
           r == [m.activeBattleResolution EXCEPT !.plan = plan]
           grown == Grow(m, 1)
           n == [grown EXCEPT !.activeBattleResolution = r]
           moved == [n EXCEPT !.pendingKnockouts = None]
           shifted == [StagePendingKnockouts(moved, p.spin, p.left) EXCEPT !.pendingKnockouts.shifts = p.shifts + 1]
           fallen == CompleteKnockoutBatch(moved, p.spin, 1, FALSE)
           next == StagePendingKnockouts(fallen, p.spin, p.left - 1)
           last == CompleteKnockoutBatch(moved, p.spin, p.left, TRUE)
<1>1. /\ p # None /\ p \in PendingKnockouts /\ p.at = at /\ p.at = m.len /\ p.left >= 2 /\ p.shifts <= 2
      /\ Applying(m, p.spin) /\ m.len + 4 * p.left + 4 <= Capacity + p.shifts
  BY DEF KnockoutsAreOwed, Matches
<1>2. /\ m.len \in Nat /\ m.cut \in Nat /\ m.done \in Nat /\ Capacity \in Nat /\ MaxCompletions \in Nat
      /\ p.left \in Nat /\ p.shifts \in Nat /\ p.spin \in Nat
  BY <1>1, EngineAssumption DEF Matches, PendingKnockouts
<1>3. plan \in Plans /\ plan.ordinal = m.done + 1 /\ plan.count = m.len + 1 /\ plan.index = p.spin
  <2>1. plan \in Plans
    BY <1>2, PlanType
  <2> QED BY <2>1 DEF Plan
<1>4. /\ CurrentBattleResolution(m, p.spin, "applying") /\ InTurn(m) /\ p.spin >= m.cut
      /\ m.activeBattleResolution # None /\ m.activeBattleResolution \in Resolutions
  BY <1>1 DEF Applying, CurrentBattleResolution, Matches
<1>5. /\ PerformPendingKnockouts(m, at, shift) =
           IF shift /\ p.shifts < 2 THEN shifted ELSE IF p.left > 2 THEN next ELSE last
  <2>1. [grown EXCEPT !.activeBattleResolution.plan = plan, !.pendingKnockouts = None] = moved
    BY DEF Grow, Matches
  <2>2. Room(m, 1 + 3 * p.left + 3)
    BY <1>1, <1>2 DEF Room
  <2> HIDE DEF moved
  <2> QED BY <1>1, <1>4, <2>1, <2>2 DEF PerformPendingKnockouts
<1> HIDE DEF plan
<1>6. /\ r \in Resolutions /\ r.spin = p.spin /\ r.plan = plan /\ r.phase = "applying" /\ r.turnSide = m.turn
  <2>1. /\ m.activeBattleResolution.phase = "applying" /\ m.activeBattleResolution.turnSide = m.turn
        /\ m.activeBattleResolution.spin = p.spin
    BY <1>4 DEF CurrentBattleResolution
  <2> QED BY <1>2, <1>3, <1>4, <2>1 DEF Resolutions
<1>7. grown \in Matches /\ Grown(m, grown, 1)
  BY GrowGrown
<1> HIDE DEF r, grown
<1>8. n \in Matches /\ Steady(grown, n)
  <2>1. n \in Matches
    BY <1>6, <1>7 DEF Matches
  <2>2. Steady(grown, n)
    BY <1>7 DEF Steady, Matches
  <2> QED BY <2>1, <2>2
<1>9. /\ n.phase = grown.phase /\ n.len = grown.len /\ n.cut = grown.cut /\ n.resolving = grown.resolving
      /\ n.pendingPlate = grown.pendingPlate /\ n.activeBattleResolution = r
  BY <1>7 DEF Matches
<1> HIDE DEF n
<1>10. moved \in Matches /\ Steady(n, moved)
  BY <1>8 DEF Steady, Matches
<1>11. /\ moved.phase = n.phase /\ moved.len = n.len /\ moved.cut = n.cut /\ moved.resolving = n.resolving
       /\ moved.pendingPlate = n.pendingPlate /\ moved.activeBattleResolution = n.activeBattleResolution
  BY <1>8 DEF Matches
<1> HIDE DEF moved
<1>12. Steady(m, grown)
  BY <1>7, GrownKeeps
<1>13. Steady(m, moved)
  BY <1>8, <1>10, <1>12, SteadyTrans
<1>14. /\ moved.phase = m.phase /\ moved.len = m.len + 1 /\ moved.cut = m.cut /\ moved.resolving = m.resolving
       /\ moved.pendingPlate = m.pendingPlate /\ moved.activeBattleResolution = r
  BY <1>7, <1>9, <1>11 DEF Grown
<1>15. InHand(moved) /\ Spent(moved, moved.timers)
  BY <1>13, SteadyKeeps DEF InHand
<1>16. Sane(moved)
  BY <1>13, <1>14 DEF Sane, Steady, Controlled
<1>17. Applying(moved, p.spin)
  <2>1. InTurn(moved) /\ p.spin >= moved.cut /\ plan.count <= moved.len
    BY <1>2, <1>3, <1>4, <1>13, <1>14 DEF InTurn, Steady
  <2>2. Fits(moved, plan)
    BY <1>2, <1>3, <1>4, <1>13, <1>14, <2>1 DEF InTurn, Fits, Steady
  <2>3. CurrentBattleResolution(moved, p.spin, "applying")
    BY <1>4, <1>6, <1>13, <1>14, NoneAssumption DEF CurrentBattleResolution, Steady
  <2> QED BY <1>6, <1>14, <2>1, <2>2, <2>3 DEF Applying
<1>18. p.shifts < 2 => Going(shifted) /\ shifted.len > m.len
  <2> SUFFICES ASSUME p.shifts < 2 PROVE Going(shifted) /\ shifted.len > m.len
    OBVIOUS
  <2> DEFINE q0 == [at |-> moved.len, spin |-> p.spin, left |-> p.left, shifts |-> 0]
             q == [at |-> moved.len, spin |-> p.spin, left |-> p.left, shifts |-> p.shifts + 1]
             w == [moved EXCEPT !.pendingKnockouts = q, !.pendingRespin = None, !.battleResolutionPending = TRUE]
             w0 == [moved EXCEPT !.pendingKnockouts = q0, !.pendingRespin = None, !.battleResolutionPending = TRUE]
  <2>1. [q0 EXCEPT !.shifts = p.shifts + 1] = q
    OBVIOUS
  <2>2. StagePendingKnockouts(moved, p.spin, p.left) = Later(w0, "knockouts", moved.len)
    BY DEF StagePendingKnockouts
  <2> HIDE DEF q0, q
  <2>3. [Later(w0, "knockouts", moved.len) EXCEPT !.pendingKnockouts.shifts = p.shifts + 1]
          = Later(w, "knockouts", moved.len)
    BY <1>10, <2>1 DEF Later, Matches
  <2>4. shifted = Later(w, "knockouts", moved.len)
    BY <2>2, <2>3
  <2>5. p.shifts + 1 \in Nat /\ p.shifts + 1 <= 2 /\ moved.len + 4 * p.left + 4 <= Capacity + (p.shifts + 1)
    BY <1>1, <1>2, <1>14
  <2>6. Going(Later(w, "knockouts", moved.len))
    BY <1>1, <1>2, <1>10, <1>15, <1>16, <1>17, <2>5, StagedIs DEF q
  <2>7. Later(w, "knockouts", moved.len).len = moved.len
    BY <1>10 DEF Later, Matches
  <2> HIDE DEF shifted, w
  <2> QED BY <1>2, <1>14, <2>4, <2>6, <2>7
<1>19. p.left > 2 => Going(next) /\ next.len > m.len
  <2> SUFFICES ASSUME p.left > 2 PROVE Going(next) /\ next.len > m.len
    OBVIOUS
  <2> DEFINE w == [fallen EXCEPT !.pendingKnockouts = [at |-> fallen.len, spin |-> p.spin, left |-> p.left - 1,
                                                       shifts |-> 0],
                                 !.pendingRespin = None, !.battleResolutionPending = TRUE]
  <2>1. fallen = Grow(moved, 1)
    BY <1>10, <1>15, <1>17, BatchGoes
  <2>2. fallen \in Matches /\ Grown(moved, fallen, 1)
    BY <1>10, <2>1, GrowGrown
  <2>3. next = Later(w, "knockouts", fallen.len)
    BY DEF StagePendingKnockouts
  <2> HIDE DEF fallen
  <2>4. InHand(fallen) /\ Sane(fallen) /\ Applying(fallen, p.spin)
    BY <1>10, <1>15, <1>16, <1>17, <2>2, GrownRoom, GrownKeeps, SteadyKeeps
  <2>5. fallen.len = m.len + 2
    BY <1>2, <1>14, <2>2 DEF Grown
  <2>6. /\ p.left - 1 \in Nat /\ p.left - 1 >= 2 /\ 0 \in Nat /\ 0 <= 2
        /\ fallen.len + 4 * (p.left - 1) + 4 <= Capacity + 0
    BY <1>1, <1>2, <2>5
  <2>7. Going(Later(w, "knockouts", fallen.len))
    BY <1>2, <2>2, <2>4, <2>6, StagedIs
  <2>8. Later(w, "knockouts", fallen.len).len = fallen.len
    BY <2>2 DEF Later, Matches
  <2> QED BY <1>2, <2>3, <2>5, <2>7, <2>8
<1>20. Going(last) /\ last.len > m.len
  <2>1. Going(last)
    BY <1>2, <1>10, <1>15, <1>17, BatchGoes
  <2>2. Calm(moved, last)
    BY <1>2, <1>10, BatchCalm
  <2> HIDE DEF last
  <2>3. last.len >= moved.len /\ last.len \in Nat
    BY <2>2 DEF Calm, Mild, Matches
  <2> QED BY <1>2, <1>14, <2>1, <2>3
<1> QED BY <1>5, <1>18, <1>19, <1>20

-----------------------------------------------------------------------------
LEMMA DeclaredType ==
  ASSUME NEW m \in Matches, NEW d \in Declarations
  PROVE  [m EXCEPT !.battleResolutionPending = TRUE, !.activeBattleDeclaration = d] \in Matches
BY DEF Matches

\* A declared battle is owed its resolution, and has the room for it.
LEMMA DeclaredGoes ==
  ASSUME NEW m \in Matches, NEW at \in Nat, InTurn(m), Settled(m), Spent(m, m.timers),
         Undecided(m), Sane(m), m.pendingKnockouts = None, Room(m, 52)
  PROVE  /\ Going(Declared(m, m.turn, at))
         /\ Going(Owing(Declared(m, m.turn, at)))
<1> DEFINE d == [at |-> at, started |-> FALSE, turnSide |-> m.turn, outcomes |-> 0]
           n == [m EXCEPT !.battleResolutionPending = TRUE, !.activeBattleDeclaration = d]
<1>1. d \in Declarations /\ d # None
  <2>1. d \in Declarations
    BY DEF Declarations, Matches
  <2> QED BY <2>1, NoneAssumption
<1>2. d.at = at /\ ~d.started /\ d.turnSide = m.turn
  OBVIOUS
<1>3. Declared(m, m.turn, at) = Later(n, "resolve", at)
  BY DEF Declared
<1> HIDE DEF d
<1>4. n \in Matches
  BY <1>1, DeclaredType
<1>5. /\ n.human = m.human /\ n.timers = m.timers /\ n.done = m.done /\ n.turn = m.turn
      /\ n.pendingRespin = m.pendingRespin /\ n.pendingGrudge = m.pendingGrudge
      /\ n.pendingJump = m.pendingJump /\ n.pendingExtraBattle = m.pendingExtraBattle
      /\ n.battleResolutionPending
      /\ n.phase = m.phase /\ n.len = m.len /\ n.cut = m.cut /\ n.resolving = m.resolving
      /\ n.pendingPlate = m.pendingPlate /\ n.pendingKnockouts = m.pendingKnockouts
      /\ n.activeBattleResolution = m.activeBattleResolution /\ n.activeBattleDeclaration = d
  BY DEF Matches
<1> HIDE DEF n
<1>6. Spent(n, n.timers) /\ Single(n) /\ Awaits(n, "resolve")
  BY <1>5 DEF Spent, Undecided, Single, Awaits
<1>7. Sane(n) /\ Settled(n) /\ InTurn(n) /\ Room(n, 52)
  BY <1>5 DEF Sane, Settled, InTurn, Room, Controlled
<1>8. BattleIsDeclared(n, at) /\ ~n.activeBattleDeclaration.started
  BY <1>1, <1>2, <1>5, <1>7 DEF BattleIsDeclared
<1>9. Ready(n, "resolve", at) /\ "resolve" \in Steps
  BY <1>5, <1>7, <1>8 DEF Ready, Steps
<1>10. n.phase = "started"
  BY <1>7 DEF InTurn
<1> QED BY <1>3, <1>4, <1>6, <1>7, <1>9, <1>10, LaterGoes, OwedGoes

\* A choice that was pending in a battle is made: the plan is bound anew.
Rebound(m, spin) == [Grow(m, 1) EXCEPT !.activeBattleResolution.plan = Plan(m, spin, 1)]

LEMMA ReboundGoes ==
  ASSUME NEW m \in Matches, NEW spin \in Nat, Applying(m, spin)
  PROVE  LET n == Rebound(m, spin)
         IN /\ n \in Matches /\ Steady(m, n) /\ Applying(n, spin)
            /\ n.len = m.len + 1 /\ n.pendingKnockouts = m.pendingKnockouts
            /\ Sane(n) <=> Sane(m)
<1> DEFINE plan == Plan(m, spin, 1)
           r == [m.activeBattleResolution EXCEPT !.plan = plan]
           grown == Grow(m, 1)
           n == [grown EXCEPT !.activeBattleResolution = r]
<1>1. m.len \in Nat /\ m.cut \in Nat /\ m.done \in Nat /\ MaxCompletions \in Nat
  BY EngineAssumption DEF Matches
<1>2. plan \in Plans /\ plan.ordinal = m.done + 1 /\ plan.count = m.len + 1 /\ plan.index = spin
  <2>1. plan \in Plans
    BY PlanType
  <2> QED BY <2>1 DEF Plan
<1>3. /\ CurrentBattleResolution(m, spin, "applying") /\ InTurn(m) /\ spin >= m.cut
      /\ m.activeBattleResolution # None /\ m.activeBattleResolution \in Resolutions
  BY DEF Applying, CurrentBattleResolution, Matches
<1>4. Rebound(m, spin) = n
  BY DEF Rebound, Grow, Matches
<1> HIDE DEF plan
<1>5. /\ r \in Resolutions /\ r.spin = spin /\ r.plan = plan /\ r.phase = "applying" /\ r.turnSide = m.turn
  <2>1. /\ m.activeBattleResolution.phase = "applying" /\ m.activeBattleResolution.turnSide = m.turn
        /\ m.activeBattleResolution.spin = spin
    BY <1>3 DEF CurrentBattleResolution
  <2> QED BY <1>1, <1>2, <1>3, <2>1 DEF Resolutions
<1>6. grown \in Matches /\ Grown(m, grown, 1)
  BY GrowGrown
<1> HIDE DEF r, grown
<1>7. n \in Matches
  BY <1>5, <1>6 DEF Matches
<1>8. Steady(grown, n)
  BY <1>6 DEF Steady, Matches
<1>9. /\ n.phase = grown.phase /\ n.len = grown.len /\ n.cut = grown.cut /\ n.resolving = grown.resolving
      /\ n.pendingPlate = grown.pendingPlate /\ n.pendingKnockouts = grown.pendingKnockouts
      /\ n.activeBattleResolution = r
  BY <1>6 DEF Matches
<1> HIDE DEF n
<1>10. Steady(m, n)
  BY <1>6, <1>8, GrownKeeps, SteadyTrans
<1>11. /\ n.phase = m.phase /\ n.len = m.len + 1 /\ n.cut = m.cut /\ n.resolving = m.resolving
       /\ n.pendingPlate = m.pendingPlate /\ n.pendingKnockouts = m.pendingKnockouts
  BY <1>6, <1>9 DEF Grown
<1>12. Sane(n) <=> Sane(m)
  BY <1>10, <1>11 DEF Sane, Steady, Controlled
<1>13. Applying(n, spin)
  <2>1. InTurn(n) /\ spin >= n.cut /\ plan.count <= n.len
    BY <1>1, <1>2, <1>3, <1>10, <1>11 DEF InTurn, Steady
  <2>2. Fits(n, plan)
    BY <1>1, <1>2, <1>3, <1>10, <1>11, <2>1 DEF InTurn, Fits, Steady
  <2>3. CurrentBattleResolution(n, spin, "applying")
    BY <1>3, <1>5, <1>9, <1>10, <1>11, NoneAssumption DEF CurrentBattleResolution, Steady
  <2> QED BY <1>5, <1>9, <2>1, <2>2, <2>3 DEF Applying
<1> QED BY <1>4, <1>7, <1>10, <1>11, <1>12, <1>13

\* stagePendingExtraBattle.
LEMMA StageExtraGoes ==
  ASSUME NEW m \in Matches, NEW jump \in Jumps, InHand(m), m.pendingRespin = None, Sane(m),
         Applying(m, jump.spin), m.pendingKnockouts = None
  PROVE  Going(StagePendingExtraBattle(m, jump))
<1> DEFINE p == [at |-> m.len, spin |-> jump.spin, side |-> jump.side, choices |-> m.extraBattle # "used"]
           opens == IF m.extraBattle # "used" THEN "may" ELSE "none"
           extra == IF m.extraBattle = "none" THEN "open" ELSE m.extraBattle
           a == [m EXCEPT !.pendingExtraBattle = p, !.pendingBattles = opens, !.extraBattle = extra]
           b == [a EXCEPT !.battleResolutionPending = TRUE, !.resolving = FALSE]
<1>1. p \in ExtraBattles /\ m.len \in Nat
  BY DEF ExtraBattles, Matches, Jumps
<1>2. p # None /\ p.at = m.len /\ p.spin = jump.spin /\ p.side = jump.side
      /\ (p.choices <=> m.extraBattle # "used")
  BY <1>1, NoneAssumption
<1>3. opens \in Battles /\ extra \in Extras
  BY DEF Battles, Extras, Matches
<1>4. StagePendingExtraBattle(m, jump) =
        IF Controlled(m, jump.side) /\ m.extraBattle # "used" THEN Later(b, "opponent_extra", m.len) ELSE b
  <2>1. [m EXCEPT !.pendingExtraBattle = p, !.pendingBattles = opens,
                  !.extraBattle = IF @ = "none" THEN "open" ELSE @,
                  !.battleResolutionPending = TRUE, !.resolving = FALSE] = b
    BY DEF Matches
  <2> QED BY <2>1 DEF StagePendingExtraBattle
<1> HIDE DEF p, opens, extra
<1>5. a \in Matches
  BY <1>1, <1>3, OpenExtra
<1>6. /\ a.human = m.human /\ a.timers = m.timers /\ a.done = m.done /\ a.turn = m.turn
      /\ a.pendingRespin = m.pendingRespin /\ a.pendingGrudge = m.pendingGrudge
      /\ a.pendingJump = m.pendingJump /\ a.pendingExtraBattle = p
      /\ a.phase = m.phase /\ a.len = m.len /\ a.cut = m.cut /\ a.pendingPlate = m.pendingPlate
      /\ a.pendingKnockouts = m.pendingKnockouts /\ a.activeBattleResolution = m.activeBattleResolution
  BY DEF Matches
<1> HIDE DEF a
<1>7. b \in Matches
  BY <1>5, AskSide DEF Calm
<1>8. /\ b.human = a.human /\ b.timers = a.timers /\ b.done = a.done /\ b.turn = a.turn
      /\ b.pendingRespin = a.pendingRespin /\ b.pendingGrudge = a.pendingGrudge
      /\ b.pendingJump = a.pendingJump /\ b.pendingExtraBattle = a.pendingExtraBattle
      /\ b.phase = a.phase /\ b.len = a.len /\ b.cut = a.cut /\ b.pendingPlate = a.pendingPlate
      /\ b.pendingKnockouts = a.pendingKnockouts /\ b.activeBattleResolution = a.activeBattleResolution
      /\ ~b.resolving
  BY <1>5 DEF Matches
<1> HIDE DEF b
<1>9. Spent(b, b.timers) /\ Single(b) /\ ~NoChoicePending(b) /\ ~Undecided(b)
  BY <1>2, <1>6, <1>8 DEF InHand, Spent, Single, NoChoicePending, Undecided
<1>10. Sane(b) /\ Applying(b, jump.spin) /\ (Controlled(b, jump.side) <=> Controlled(m, jump.side))
  BY <1>6, <1>8 DEF Sane, Controlled, Applying, InTurn, CurrentBattleResolution, Fits
<1>11. ExtraIsAsked(b)
  BY <1>2, <1>6, <1>8, <1>10 DEF ExtraIsAsked, InHand
<1>12. CASE Controlled(m, jump.side) /\ m.extraBattle # "used"
  <2>1. Awaits(b, "opponent_extra")
    BY <1>2, <1>6, <1>8, <1>10, <1>12 DEF Awaits, Continuing
  <2>2. Ready(b, "opponent_extra", m.len) /\ "opponent_extra" \in Steps
    BY <1>2, <1>6, <1>8, <1>11, <1>12 DEF Ready, Steps
  <2> QED BY <1>1, <1>4, <1>7, <1>9, <1>10, <1>12, <2>1, <2>2, LaterGoes
<1>13. CASE ~(Controlled(m, jump.side) /\ m.extraBattle # "used")
  <2>1. b.pendingExtraBattle.choices => Asks(b, b.pendingExtraBattle.side)
    BY <1>2, <1>6, <1>8, <1>10, <1>13 DEF Asks
  <2>2. Open(b)
    BY <1>6, <1>8, <1>9, <1>11, <2>1 DEF Open, InHand
  <2> QED BY <1>4, <1>9, <1>10, <1>13, <2>2 DEF Going
<1> QED BY <1>12, <1>13

\* stagePendingGrudge, of a move that ends where nothing else is pending.
LEMMA StageGrudgeGoes ==
  ASSUME NEW m \in Matches, NEW type \in Enders, NEW index \in Nat, AtRest(m), InTurn(m), index >= m.cut
  PROVE  Going(StagePendingGrudge(m, m.turn, type, index))
<1> DEFINE p == [at |-> index, bound |-> m.len, side |-> m.turn, type |-> type, declared |-> FALSE]
           n == [m EXCEPT !.pendingGrudge = p, !.pendingBattles = "none"]
<1>1. p \in Grudges /\ "none" \in Battles /\ p # None
  <2>1. p \in Grudges
    BY DEF Grudges, Matches
  <2> QED BY <2>1, NoneAssumption DEF Battles
<1>2. p.at = index /\ p.bound = m.len /\ p.side = m.turn /\ ~p.declared
  OBVIOUS
<1>3. StagePendingGrudge(m, m.turn, type, index) =
        IF Controlled(m, m.turn) THEN Later(n, "opponent_grudge", index) ELSE n
  BY DEF StagePendingGrudge
<1> HIDE DEF p
<1>4. n \in Matches
  BY <1>1 DEF Matches
<1>5. /\ n.human = m.human /\ n.timers = m.timers /\ n.done = m.done /\ n.turn = m.turn
      /\ n.pendingRespin = m.pendingRespin /\ n.pendingGrudge = p
      /\ n.pendingJump = m.pendingJump /\ n.pendingExtraBattle = m.pendingExtraBattle
      /\ n.battleResolutionPending = m.battleResolutionPending
      /\ n.phase = m.phase /\ n.len = m.len /\ n.cut = m.cut /\ n.resolving = m.resolving
      /\ n.pendingPlate = m.pendingPlate /\ n.pendingKnockouts = m.pendingKnockouts
      /\ n.activeBattleResolution = m.activeBattleResolution
  BY DEF Matches
<1> HIDE DEF n
<1>6. Spent(n, n.timers) /\ Single(n) /\ ~NoChoicePending(n)
  BY <1>1, <1>5 DEF AtRest, NoChoicePending, Spent, Single
<1>7. Sane(n) /\ Settled(n) /\ InTurn(n) /\ (Controlled(n, m.turn) <=> Controlled(m, m.turn))
  BY <1>5 DEF AtRest, Sane, Settled, InTurn, Controlled
<1>8. GrudgeIsAsked(n)
  BY <1>1, <1>2, <1>5, <1>7 DEF GrudgeIsAsked
<1>9. CASE Controlled(m, m.turn)
  <2>1. Awaits(n, "opponent_grudge")
    BY <1>1, <1>2, <1>5, <1>7, <1>9 DEF Awaits, Continuing
  <2>2. Ready(n, "opponent_grudge", index) /\ "opponent_grudge" \in Steps
    BY <1>2, <1>5, <1>8 DEF Ready, Steps, AtRest
  <2> QED BY <1>3, <1>4, <1>6, <1>7, <1>9, <2>1, <2>2, LaterGoes
<1>10. CASE ~Controlled(m, m.turn)
  <2>1. Asks(n, n.pendingGrudge.side)
    BY <1>2, <1>5, <1>7, <1>10 DEF Asks
  <2>2. Open(n)
    BY <1>2, <1>5, <1>6, <1>8, <2>1 DEF Open, AtRest, NoChoicePending
  <2> QED BY <1>3, <1>6, <1>7, <1>10, <2>2 DEF Going
<1> QED BY <1>9, <1>10

LEMMA PlanFits ==
  ASSUME NEW m \in Matches, NEW index \in Nat, InTurn(m), index >= m.cut
  PROVE  Fits(m, Plan(m, index, 1))
<1>1. m.len \in Nat /\ m.cut \in Nat /\ m.done \in Nat /\ MaxCompletions \in Nat
  BY EngineAssumption DEF Matches
<1>2. m.done + 1 <= MaxCompletions /\ m.len + 1 > m.cut
  BY <1>1 DEF InTurn
<1> QED BY <1>2 DEF Fits, Plan

LEMMA GrudgeTaken ==
  ASSUME NEW m \in Matches, NEW battles \in Battles, NEW touch \in BOOLEAN
  PROVE  [m EXCEPT !.pendingGrudge = None, !.pendingBattles = battles,
                   !.pendingTouch = touch, !.resolving = FALSE] \in Matches
<1> DEFINE n == [m EXCEPT !.pendingBattles = battles, !.pendingTouch = touch]
           k == [n EXCEPT !.pendingGrudge = None]
<1>1. n \in Matches
  BY OpenMove DEF Calm
<1>2. [m EXCEPT !.pendingGrudge = None, !.pendingBattles = battles,
                !.pendingTouch = touch, !.resolving = FALSE] = [k EXCEPT !.resolving = FALSE]
  BY DEF Matches
<1> HIDE DEF n
<1>3. k \in Matches
  BY <1>1 DEF Matches
<1> HIDE DEF k
<1> QED BY <1>2, <1>3, Unlock DEF Calm

\* performPendingGrudge: the turn of its side goes on or is over.
LEMMA GrudgeGoes ==
  ASSUME NEW m \in Matches, NEW b \in MoveOpenings, GrudgeIsAsked(m), m.pendingGrudge.declared,
         Spent(m, m.timers), Single(m), Sane(m), m.pendingKnockouts = None, Room(m, 16)
  PROVE  /\ Going(PerformPendingGrudge(m, m.pendingGrudge.at, b))
         /\ PerformPendingGrudge(m, m.pendingGrudge.at, b).len > m.len
<1> DEFINE p == m.pendingGrudge
           a == [m EXCEPT !.pendingGrudge = None, !.pendingBattles = b.battles,
                          !.pendingTouch = b.touch, !.resolving = FALSE]
           spun == Grow(a, 1)
           plan == Plan(m, p.at, 1)
           ended == CompleteTurn(spun, p.side, plan)
           n == PerformPendingGrudge(m, p.at, b)
<1>1. /\ p \in Grudges /\ p # None /\ p.side \in Sides /\ p.at \in Nat /\ p.at >= m.cut
      /\ p.side = m.turn /\ p.bound = m.len /\ m.phase = "started" /\ m.len \in Nat
      /\ b.battles \in Battles /\ b.touch \in BOOLEAN /\ InTurn(m) /\ Settled(m)
  BY DEF GrudgeIsAsked, Matches, MoveOpenings, Openings, Grudges, InTurn
<1>2. Fits(m, plan) /\ plan \in Plans
  BY <1>1, PlanFits, PlanType
<1>3. (n = spun /\ p.side # "white") \/ n = OpponentLater(spun) \/ n = OpponentLater(ended)
  BY <1>1, <1>2 DEF PerformPendingGrudge
<1>4. a \in Matches
  BY <1>1, GrudgeTaken
<1>5. /\ a.human = m.human /\ a.timers = m.timers /\ a.done = m.done /\ a.turn = m.turn
      /\ a.pendingRespin = m.pendingRespin /\ a.pendingGrudge = None
      /\ a.pendingJump = m.pendingJump /\ a.pendingExtraBattle = m.pendingExtraBattle
      /\ a.battleResolutionPending = m.battleResolutionPending
      /\ a.phase = m.phase /\ a.len = m.len /\ a.cut = m.cut /\ ~a.resolving
      /\ a.pendingPlate = m.pendingPlate /\ a.pendingKnockouts = m.pendingKnockouts
      /\ a.activeBattleResolution = m.activeBattleResolution
  BY DEF Matches
<1> HIDE DEF a, n
<1>6. Spent(a, a.timers) /\ NoChoicePending(a)
  BY <1>1, <1>5 DEF Spent, Single, NoChoicePending
<1>7. AtRest(a)
  BY <1>1, <1>5, <1>6 DEF AtRest, Sane, Settled, Controlled, InTurn
<1>8. Plan(a, p.at, 1) = plan /\ Fits(a, plan)
  BY <1>2, <1>5 DEF Plan, Fits
<1>9. spun \in Matches /\ Grown(a, spun, 1)
  BY <1>4, GrowGrown
<1> HIDE DEF spun
<1>10. AtRest(spun) /\ spun.len = m.len + 1 /\ spun.turn = m.turn
  BY <1>4, <1>5, <1>7, <1>9, GrownRests DEF Grown
<1>11. p.side # "white" => Going(spun)
  <2>1. p.side # "white" => Asks(spun, spun.turn)
    BY <1>1, <1>10 DEF Asks, Controlled
  <2> QED BY <1>9, <1>10, <2>1, RestGoes
<1>12. Going(OpponentLater(spun))
  BY <1>9, <1>10, RestGoes
<1>13. Going(OpponentLater(ended)) /\ ended \in Matches
  <2> HIDE DEF plan, p
  <2>1. a.phase = "started" /\ a.turn = p.side
    BY <1>1, <1>5
  <2>2. Fits(a, Plan(a, p.at, 1))
    BY <1>8
  <2>3. LET e == CompleteTurn(spun, p.side, Plan(a, p.at, 1)) IN e \in Matches /\ Going(OpponentLater(e))
    BY <1>1, <1>4, <1>7, <1>9, <2>1, <2>2, EndedGoes
  <2> QED BY <1>8, <2>3
<1>14. Going(n)
  BY <1>3, <1>11, <1>12, <1>13
<1>15. Calm(spun, OpponentLater(spun)) /\ Calm(spun, OpponentLater(ended)) /\ Calm(spun, spun)
  <2>1. Calm(spun, ended)
    BY <1>1, <1>2, <1>9, CompleteTurnCalm
  <2> HIDE DEF ended
  <2>2. Calm(ended, OpponentLater(ended))
    BY <1>13, OpponentLaterCalm
  <2> QED BY <1>9, <2>1, <2>2, OpponentLaterCalm, CalmSame, CalmTrans
<1>16. n.len >= spun.len /\ n.len \in Nat
  <2>1. Calm(spun, n)
    BY <1>3, <1>15
  <2> QED BY <2>1 DEF Calm, Mild, Matches
<1>17. n.len > m.len
  BY <1>1, <1>10, <1>16
<1> QED BY <1>14, <1>17 DEF n

\* acceptPendingGrudge: the wheel is to be spun.
LEMMA GrudgeChosenGoes ==
  ASSUME NEW m \in Matches, GrudgeIsAsked(m), Spent(m, m.timers), Single(m), Sane(m),
         m.pendingKnockouts = None, Room(m, 17)
  PROVE  Going(GrudgeChosen(m)) /\ GrudgeChosen(m).len > m.len
<1> DEFINE g == Grow(m, 1)
           p == [m.pendingGrudge EXCEPT !.declared = TRUE, !.bound = m.len + 1]
           n == [g EXCEPT !.pendingGrudge = p]
           at == m.pendingGrudge.at
           last == Later(n, "grudge", at)
<1>1. /\ m.pendingGrudge \in Grudges /\ m.len \in Nat /\ Capacity \in Nat /\ m.cut \in Nat
      /\ InTurn(m) /\ Settled(m)
  BY EngineAssumption DEF Matches, GrudgeIsAsked
<1>2. /\ p \in Grudges /\ p # None /\ at \in Nat
      /\ p.declared /\ p.bound = m.len + 1 /\ p.at = at /\ p.side = m.pendingGrudge.side
  <2> DEFINE bound == m.len + 1
  <2>1. bound \in Nat
    BY <1>1
  <2> HIDE DEF bound
  <2>2. \A q \in Grudges : LET r == [q EXCEPT !.declared = TRUE, !.bound = bound]
                           IN /\ r \in Grudges /\ q.at \in Nat
                              /\ r.declared /\ r.bound = bound /\ r.at = q.at /\ r.side = q.side
    BY <2>1 DEF Grudges
  <2>3. /\ p \in Grudges /\ at \in Nat /\ p.declared /\ p.bound = bound /\ p.at = at
        /\ p.side = m.pendingGrudge.side
    BY <1>1, <2>2 DEF bound
  <2> QED BY <2>3, NoneAssumption DEF bound
<1>3. GrudgeChosen(m) = Owing(last)
  <2>1. [g EXCEPT !.pendingGrudge.declared = TRUE, !.pendingGrudge.bound = m.len + 1] = n
    BY DEF Grow, Matches
  <2> QED BY <2>1 DEF GrudgeChosen
<1>4. g \in Matches /\ Grown(m, g, 1)
  BY GrowGrown
<1>5. at >= m.cut /\ m.pendingGrudge.side = m.turn /\ m.phase = "started"
  BY <1>1 DEF GrudgeIsAsked, InTurn
<1> HIDE DEF g, p, at
<1>6. n \in Matches
  BY <1>2, <1>4 DEF Matches
<1>7. /\ n.human = g.human /\ n.timers = g.timers /\ n.done = g.done /\ n.turn = g.turn
      /\ n.pendingRespin = g.pendingRespin /\ n.pendingGrudge = p
      /\ n.pendingJump = g.pendingJump /\ n.pendingExtraBattle = g.pendingExtraBattle
      /\ n.battleResolutionPending = g.battleResolutionPending
      /\ n.phase = g.phase /\ n.len = g.len /\ n.cut = g.cut /\ n.resolving = g.resolving
      /\ n.pendingPlate = g.pendingPlate /\ n.pendingKnockouts = g.pendingKnockouts
      /\ n.activeBattleResolution = g.activeBattleResolution
  BY <1>4 DEF Matches
<1> HIDE DEF n
<1>8. /\ n.human = m.human /\ n.timers = m.timers /\ n.done = m.done /\ n.turn = m.turn
      /\ n.pendingRespin = m.pendingRespin
      /\ n.pendingJump = m.pendingJump /\ n.pendingExtraBattle = m.pendingExtraBattle
      /\ n.battleResolutionPending = m.battleResolutionPending
      /\ n.phase = m.phase /\ n.len = m.len + 1 /\ n.cut = m.cut /\ n.resolving = m.resolving
      /\ n.pendingPlate = m.pendingPlate /\ n.pendingKnockouts = None
      /\ n.activeBattleResolution = m.activeBattleResolution
  BY <1>4, <1>7 DEF Grown
<1>9. Spent(n, n.timers) /\ Sane(n) /\ Settled(n)
  BY <1>1, <1>8 DEF Spent, Sane, Settled, Controlled
<1>10. Single(n)
  <2>1. m.pendingGrudge # None
    BY DEF GrudgeIsAsked
  <2> QED BY <1>8, <2>1 DEF Single
<1>11. Awaits(n, "grudge") /\ "grudge" \in Steps
  BY <1>2, <1>7 DEF Awaits, Continuing, Steps
<1>12. GrudgeIsAsked(n)
  <2>1. InTurn(n)
    BY <1>1, <1>8 DEF InTurn
  <2> QED BY <1>2, <1>5, <1>7, <1>8, <1>9, <2>1 DEF GrudgeIsAsked
<1>13. Ready(n, "grudge", at)
  <2>1. Room(n, 16)
    BY <1>1, <1>8 DEF Room
  <2> QED BY <1>2, <1>7, <1>8, <1>12, <2>1 DEF Ready
<1>14. Going(Owing(last))
  BY <1>2, <1>5, <1>6, <1>8, <1>9, <1>10, <1>11, <1>13, OwedGoes
<1>15. Owing(last).len = m.len + 1
  <2>1. last \in Matches /\ last.len = n.len
    <3>1. last.len = n.len
      BY <1>6 DEF Later, Matches
    <3> QED BY <1>2, <1>6, <1>11, <3>1, LaterType
  <2> HIDE DEF last
  <2>2. Owing(last).len = last.len
    BY <2>1 DEF Owing, Matches
  <2> QED BY <1>8, <2>1, <2>2
<1> QED BY <1>1, <1>3, <1>14, <1>15

LEMMA FinishedLives ==
  ASSUME NEW m \in Matches
  PROVE  Finish(m).phase # "started" /\ Live(Finish(m))
<1>1. Finish(m).phase = "decided"
  BY DEF Finish, Matches
<1> QED BY <1>1 DEF Live

\* acceptPendingJump.
LEMMA JumpLandedGoes ==
  ASSUME NEW m \in Matches, NEW n \in Nat, NEW goal \in BOOLEAN, JumpIsAsked(m),
         Spent(m, m.timers), Single(m), Sane(m), m.pendingKnockouts = None
  PROVE  /\ Live(JumpLanded(m, n, goal))
         /\ goal => JumpLanded(m, n, goal).phase # "started"
<1> DEFINE p == m.pendingJump
           landed == Rebound(m, p.spin)
           batch == CompleteKnockoutBatch(landed, p.spin, n, FALSE)
           fallen == [batch EXCEPT !.pendingJump = None]
<1>1. /\ p \in Jumps /\ p # None /\ p.spin \in Nat /\ p.at = m.len /\ Applying(m, p.spin)
      /\ m.pendingGrudge = None
  BY DEF JumpIsAsked, Matches, Jumps
<1>2. JumpLanded(m, n, goal) = IF goal THEN Finish(landed)
                               ELSE IF p.extra THEN StagePendingExtraBattle(fallen, p)
                               ELSE CompleteBattleResolution(fallen, p.spin, TRUE)
  BY DEF JumpLanded, Rebound
<1>3. /\ landed \in Matches /\ Steady(m, landed) /\ Applying(landed, p.spin)
      /\ landed.pendingKnockouts = None /\ Sane(landed)
  BY <1>1, ReboundGoes
<1> HIDE DEF landed
<1>4. Finish(landed).phase # "started" /\ Live(Finish(landed))
  BY <1>3, FinishedLives
<1>5. Spent(landed, landed.timers)
  BY <1>3, SteadyKeeps
<1>6. batch = Grow(landed, n)
  BY <1>3, <1>5, BatchGoes
<1>7. batch \in Matches /\ Grown(landed, batch, n)
  BY <1>3, <1>6, GrowGrown
<1> HIDE DEF batch
<1>8. Steady(m, batch) /\ Sane(batch) /\ Applying(batch, p.spin) /\ batch.pendingKnockouts = None
  <2>1. Steady(landed, batch) /\ Sane(batch)
    BY <1>3, <1>7, GrownKeeps
  <2>2. Applying(batch, p.spin)
    BY <1>3, <1>7, GrownRoom
  <2>3. batch.pendingKnockouts = None
    BY <1>3, <1>7 DEF Grown
  <2> QED BY <1>3, <2>1, <2>2, <2>3, SteadyTrans
<1>9. fallen \in Matches
  BY <1>7 DEF Matches
<1>10. /\ fallen.human = batch.human /\ fallen.timers = batch.timers /\ fallen.done = batch.done
       /\ fallen.turn = batch.turn
       /\ fallen.pendingRespin = batch.pendingRespin /\ fallen.pendingGrudge = batch.pendingGrudge
       /\ fallen.pendingJump = None /\ fallen.pendingExtraBattle = batch.pendingExtraBattle
       /\ fallen.phase = batch.phase /\ fallen.len = batch.len /\ fallen.cut = batch.cut
       /\ fallen.resolving = batch.resolving /\ fallen.pendingPlate = batch.pendingPlate
       /\ fallen.pendingKnockouts = batch.pendingKnockouts
       /\ fallen.activeBattleResolution = batch.activeBattleResolution
  BY <1>7 DEF Matches
<1> HIDE DEF fallen
<1>11. m.pendingRespin = None /\ m.pendingExtraBattle = None
  BY <1>1 DEF Single
<1>12. InHand(fallen) /\ Spent(fallen, fallen.timers) /\ fallen.pendingRespin = None
  BY <1>1, <1>8, <1>10, <1>11 DEF Steady, InHand, Spent
<1>13. Sane(fallen) /\ Applying(fallen, p.spin) /\ fallen.pendingKnockouts = None
  BY <1>8, <1>10 DEF Sane, Controlled, Applying, InTurn, CurrentBattleResolution, Fits
<1>14. Going(StagePendingExtraBattle(fallen, p))
  BY <1>1, <1>9, <1>12, <1>13, StageExtraGoes
<1>15. Going(CompleteBattleResolution(fallen, p.spin, TRUE))
  BY <1>9, <1>12, <1>13, BattleGoes
<1> QED BY <1>2, <1>4, <1>14, <1>15 DEF Live

\* completeBattleResolution with another battle to come.
LEMMA ContinueSettles ==
  ASSUME NEW m \in Matches, NEW spin, CurrentBattleResolution(m, spin, "applying"),
         Fits(m, m.activeBattleResolution.plan)
  PROVE  LET n == CompleteBattleResolution(m, spin, FALSE)
         IN /\ Settled(n) /\ n.pendingPlate = "none"
            /\ n.phase = m.phase /\ n.len = m.len /\ n.cut = m.cut /\ n.resolving = m.resolving
            /\ n.pendingKnockouts = m.pendingKnockouts
<1> DEFINE settled == [m EXCEPT !.activeBattleResolution.phase = "completed"]
           cleared == [settled EXCEPT !.pendingRespin = None, !.pendingJump = None,
                                      !.pendingExtraBattle = None]
           going == [cleared EXCEPT !.pendingPlate = "none", !.pendingBattles = "none",
                                    !.battleResolutionPending = FALSE]
<1>1. CompleteBattleResolution(m, spin, FALSE) = going
  BY DEF CompleteBattleResolution
<1>2. settled \in Matches /\ Settled(settled)
  BY SettledIs DEF CurrentBattleResolution
<1>3. /\ settled.phase = m.phase /\ settled.len = m.len /\ settled.cut = m.cut
      /\ settled.resolving = m.resolving /\ settled.pendingKnockouts = m.pendingKnockouts
  BY DEF Matches
<1> HIDE DEF settled
<1>4. cleared \in Matches
  BY <1>2 DEF Matches
<1>5. /\ cleared.phase = settled.phase /\ cleared.len = settled.len /\ cleared.cut = settled.cut
      /\ cleared.resolving = settled.resolving /\ cleared.pendingKnockouts = settled.pendingKnockouts
      /\ cleared.activeBattleResolution = settled.activeBattleResolution
  BY <1>2 DEF Matches
<1> HIDE DEF cleared
<1>6. /\ going.phase = cleared.phase /\ going.len = cleared.len /\ going.cut = cleared.cut
      /\ going.resolving = cleared.resolving /\ going.pendingKnockouts = cleared.pendingKnockouts
      /\ going.activeBattleResolution = cleared.activeBattleResolution /\ going.pendingPlate = "none"
  BY <1>4 DEF Matches
<1> HIDE DEF going
<1>7. Settled(going)
  BY <1>2, <1>5, <1>6 DEF Settled
<1> QED BY <1>1, <1>3, <1>5, <1>6, <1>7

\* acceptPendingExtraBattle.
LEMMA ExtraTakenGoes ==
  ASSUME NEW m \in Matches, NEW fights \in BOOLEAN, ExtraIsAsked(m),
         Spent(m, m.timers), Sane(m), m.pendingKnockouts = None, Room(m, 53)
  PROVE  /\ Going(ExtraBattleTaken(m, fights))
         /\ ~fights => ExtraBattleTaken(m, fights).len > m.len
<1> DEFINE p == m.pendingExtraBattle
           taken == Rebound(m, p.spin)
           over == CompleteBattleResolution(taken, p.spin, TRUE)
           on == CompleteBattleResolution(taken, p.spin, FALSE)
           k == [on EXCEPT !.extraBattle = "used"]
           d == Declared(k, m.turn, m.len)
<1>1. /\ p \in ExtraBattles /\ p # None /\ p.spin \in Nat /\ m.len \in Nat /\ Capacity \in Nat
      /\ Applying(m, p.spin) /\ m.pendingGrudge = None
  BY EngineAssumption DEF ExtraIsAsked, Matches, ExtraBattles
<1>2. ExtraBattleTaken(m, fights) = IF fights THEN Owing(d) ELSE over
  BY DEF ExtraBattleTaken, Rebound
<1>3. /\ taken \in Matches /\ Steady(m, taken) /\ Applying(taken, p.spin)
      /\ taken.len = m.len + 1 /\ taken.pendingKnockouts = None /\ Sane(taken)
  BY <1>1, ReboundGoes
<1> HIDE DEF taken
<1>4. Spent(taken, taken.timers)
  BY <1>3, SteadyKeeps
<1>5. Going(over)
  BY <1>3, <1>4, BattleGoes
<1>6. over.len > m.len
  <2>1. Calm(taken, over)
    BY <1>1, <1>3, CompleteBattleCalm
  <2>2. over.len >= taken.len /\ over.len \in Nat
    <3> HIDE DEF over
    <3> QED BY <2>1 DEF Calm, Mild, Matches
  <2> HIDE DEF over
  <2> QED BY <1>1, <1>3, <2>2
<1>7. CurrentBattleResolution(taken, p.spin, "applying") /\ Fits(taken, taken.activeBattleResolution.plan)
      /\ InTurn(taken)
  BY <1>3 DEF Applying
<1>8. /\ on \in Matches /\ on.human = taken.human /\ on.timers = taken.timers /\ on.done = taken.done
      /\ on.turn = taken.turn /\ on.pendingGrudge = taken.pendingGrudge
      /\ on.pendingRespin = None /\ on.pendingJump = None /\ on.pendingExtraBattle = None
  BY <1>3, <1>7, ContinueClears
<1>9. /\ Settled(on) /\ on.pendingPlate = "none"
      /\ on.phase = taken.phase /\ on.len = taken.len /\ on.cut = taken.cut /\ on.resolving = taken.resolving
      /\ on.pendingKnockouts = taken.pendingKnockouts
  BY <1>3, <1>7, ContinueSettles
<1> HIDE DEF over, on
<1>10. k \in Matches
  BY <1>8, UseExtra DEF Calm
<1>11. /\ k.human = on.human /\ k.timers = on.timers /\ k.done = on.done
       /\ k.turn = on.turn /\ k.pendingGrudge = on.pendingGrudge
       /\ k.pendingRespin = on.pendingRespin /\ k.pendingJump = on.pendingJump
       /\ k.pendingExtraBattle = on.pendingExtraBattle /\ k.pendingPlate = on.pendingPlate
       /\ k.phase = on.phase /\ k.len = on.len /\ k.cut = on.cut /\ k.resolving = on.resolving
       /\ k.pendingKnockouts = on.pendingKnockouts
       /\ k.activeBattleResolution = on.activeBattleResolution
  BY <1>8 DEF Matches
<1> HIDE DEF k
<1>12. Spent(k, k.timers) /\ Undecided(k)
  BY <1>1, <1>3, <1>4, <1>8, <1>11 DEF Spent, Undecided, Steady
<1>13. InTurn(k) /\ Settled(k) /\ Sane(k) /\ k.pendingKnockouts = None
  BY <1>3, <1>7, <1>8, <1>9, <1>11 DEF InTurn, Settled, Sane
<1>14. Room(k, 52) /\ k.turn = m.turn
  BY <1>1, <1>3, <1>8, <1>9, <1>11 DEF Room, Steady
<1>15. Going(Owing(d))
  BY <1>1, <1>10, <1>12, <1>13, <1>14, DeclaredGoes
<1> QED BY <1>2, <1>5, <1>6, <1>15

\* A move, and what it opens.
LEMMA MovedGoes ==
  ASSUME NEW m \in Matches, NEW type \in Enders, NEW b \in MoveOpenings, AtRest(m), InTurn(m),
         ~Controlled(m, m.turn)
  PROVE  Live(Moved(m, m.turn, type, b))
<1> DEFINE side == m.turn
           plate == IF type = "mp_move" /\ ~b.plate THEN "none" ELSE m.pendingPlate
           a == [m EXCEPT !.pendingPlate = plate]
           moved == Grow(a, 1)
           won == Finish(moved)
           opened == [moved EXCEPT !.pendingBattles = b.battles, !.pendingTouch = b.touch]
           ended == OpponentLater(CompleteTurn(moved, side, Plan(m, m.len, 1)))
<1>1. /\ b.battles \in Battles /\ b.touch \in BOOLEAN /\ m.len \in Nat /\ side \in Sides
      /\ m.cut <= m.len /\ m.cut \in Nat /\ m.phase = "started"
  BY DEF MoveOpenings, Openings, Matches, InTurn
<1>2. Moved(m, side, type, b) \in {won, StagePendingGrudge(moved, side, type, m.len), opened, ended}
  <2>1. moved = [Grow(m, 1) EXCEPT !.pendingPlate = IF type = "mp_move" /\ ~b.plate THEN "none" ELSE @]
    BY DEF Grow, Matches
  <2> HIDE DEF moved
  <2> QED BY <2>1 DEF Moved
<1>3. plate \in Plates
  BY DEF Matches, Plates
<1> HIDE DEF plate
<1>4. a \in Matches
  BY <1>3 DEF Matches
<1>5. Steady(m, a)
  BY DEF Steady, Matches
<1>6. /\ a.phase = m.phase /\ a.len = m.len /\ a.cut = m.cut /\ a.resolving = m.resolving
      /\ a.pendingKnockouts = m.pendingKnockouts /\ a.activeBattleResolution = m.activeBattleResolution
  BY DEF Matches
<1>7. Plan(a, m.len, 1) = Plan(m, m.len, 1)
  BY <1>5, <1>6 DEF Plan, Steady
<1> HIDE DEF a
<1>8. ~Controlled(a, side) /\ a.turn = side /\ InTurn(a)
  BY <1>5, <1>6 DEF Steady, Controlled, InTurn
<1>9. AtRest(a)
  <2>1. Spent(a, a.timers) /\ NoChoicePending(a)
    BY <1>5, SteadyKeeps DEF AtRest
  <2>2. Sane(a) /\ Settled(a)
    BY <1>5, <1>6, <1>8 DEF AtRest, Sane, Settled, Steady
  <2> QED BY <1>6, <2>1, <2>2 DEF AtRest
<1>10. moved \in Matches /\ Grown(a, moved, 1)
  BY <1>4, GrowGrown
<1> HIDE DEF moved
<1>11. AtRest(moved) /\ moved.turn = side /\ InTurn(moved) /\ moved.cut = m.cut
       /\ ~Controlled(moved, side)
  <2>1. AtRest(moved) /\ InTurn(moved) /\ ~Controlled(moved, side)
    BY <1>4, <1>8, <1>9, <1>10, GrownRests, GrownRoom, GrownKeeps
  <2>2. moved.turn = side /\ moved.cut = m.cut
    BY <1>6, <1>8, <1>10 DEF Grown
  <2> QED BY <2>1, <2>2
<1>12. Live(won)
  BY <1>10, FinishedLives
<1>13. Going(StagePendingGrudge(moved, moved.turn, type, m.len))
  BY <1>1, <1>10, <1>11, StageGrudgeGoes
<1>14. Going(opened)
  <2>1. opened \in Matches
    BY <1>1, <1>10, OpenMove DEF Calm
  <2>2. Alike(moved, opened) /\ opened.timers = moved.timers
    BY <1>10 DEF Alike, Same, Matches
  <2> HIDE DEF opened
  <2>3. AtRest(opened)
    BY <1>11, <2>2, AlikeRests
  <2>4. Asks(opened, opened.turn)
    BY <1>11, <2>2 DEF Asks, Alike, Same, Controlled
  <2> QED BY <2>1, <2>3, <2>4, RestGoes
<1>15. Going(ended)
  <2>1. Fits(a, Plan(a, m.len, 1))
    BY <1>1, <1>4, <1>6, <1>8, PlanFits
  <2>2. LET e == CompleteTurn(moved, side, Plan(a, m.len, 1)) IN Going(OpponentLater(e))
    BY <1>1, <1>4, <1>6, <1>8, <1>9, <1>10, <2>1, EndedGoes
  <2> QED BY <1>7, <2>2
<1> QED BY <1>2, <1>11, <1>12, <1>13, <1>14, <1>15 DEF Live

\* The turn of the training opponent: played, lost, or without room.
LEMMA PlayOpponentGoes ==
  ASSUME NEW m \in Matches, NEW choice, NEW b \in MoveOpenings, AtRest(m), m.phase = "started",
         ~m.human, m.turn = "white"
  PROVE  Live(PlayOpponentTurn(m, choice, b))
<1> DEFINE n == PlayOpponentTurn(m, choice, b)
           g == Grow(m, 1)
           plan == Plan(m, m.len, 1)
           ended == CompleteTurn(g, "white", plan)
           opened == [g EXCEPT !.pendingBattles = b.battles, !.pendingTouch = b.touch]
           staged == StagePendingGrudge(g, "white", "mp_move", m.len)
           d == Declared(g, "white", m.len)
           lost == Finish(m)
           won == Finish(g)
<1>1. /\ m.len \in Nat /\ m.cut \in Nat /\ m.cut <= m.len /\ Capacity \in Nat
      /\ "white" \in Sides /\ "mp_move" \in Enders
      /\ b.battles \in Battles /\ b.touch \in BOOLEAN
  BY EngineAssumption DEF Matches, Sides, Enders, MoveOpenings, Openings, AtRest
<1>2. g \in Matches /\ Grown(m, g, 1)
  BY GrowGrown
<1>3. CASE ~(m.done < MaxCompletions /\ Room(m, 64))
  <2>1. n = m
    BY <1>3 DEF PlayOpponentTurn
  <2>2. NoRoom(m)
    <3>1. m.done \in Nat /\ MaxCompletions \in Nat
      BY EngineAssumption DEF Matches
    <3> QED BY <1>1, <1>3, <3>1 DEF NoRoom, Room
  <2>3. Going(m)
    BY <2>2, RestGoes DEF Asks
  <2> QED BY <2>1, <2>3 DEF Live
<1>4. CASE m.done < MaxCompletions /\ Room(m, 64)
  <2>1. n \in {OpponentLater(ended), lost, ended, won, staged, OpponentLater(opened), d}
    BY <1>4 DEF PlayOpponentTurn
  <2> HIDE DEF n
  <2>2. InTurn(m)
    BY <1>1, <1>4 DEF InTurn
  <2>3. Live(lost) /\ Live(won)
    BY <1>2, FinishedLives
  <2> HIDE DEF lost, won
  <2>4. Fits(m, plan)
    BY <1>1, <2>2, PlanFits
  <2>5. ended \in Matches /\ AtRest(ended) /\ ended.turn = Other("white") /\ Going(OpponentLater(ended))
    BY <1>1, <1>2, <2>4, EndedGoes
  <2> HIDE DEF ended
  <2>6. Going(ended)
    <3>1. Asks(ended, ended.turn)
      BY <2>5 DEF Other, Asks, Controlled
    <3> QED BY <2>5, <3>1, RestGoes
  <2> HIDE DEF g
  <2>7. AtRest(g) /\ g.turn = "white" /\ InTurn(g) /\ m.len >= g.cut /\ g.len = m.len + 1
    <3>1. g.turn = "white" /\ m.len >= g.cut /\ g.len = m.len + 1
      BY <1>1, <1>2 DEF Grown
    <3> QED BY <1>2, <2>2, <3>1, GrownRests, GrownRoom
  <2>8. Going(staged)
    BY <1>1, <1>2, <2>7, StageGrudgeGoes
  <2>9. Going(OpponentLater(opened))
    <3>1. opened \in Matches
      BY <1>1, <1>2, OpenMove DEF Calm
    <3>2. Alike(g, opened) /\ opened.timers = g.timers
      BY <1>2 DEF Alike, Same, Matches
    <3> HIDE DEF opened
    <3>3. AtRest(opened)
      BY <2>7, <3>2, AlikeRests
    <3> QED BY <3>1, <3>3, RestGoes
  <2>10. Going(d)
    <3>1. Undecided(g) /\ Settled(g) /\ Spent(g, g.timers) /\ Sane(g) /\ g.pendingKnockouts = None
      BY <2>7 DEF AtRest, NoChoicePending, Undecided
    <3>2. Room(g, 52)
      BY <1>1, <1>4, <2>7 DEF Room
    <3> QED BY <1>1, <1>2, <2>7, <3>1, <3>2, DeclaredGoes
  <2> HIDE DEF d, staged, opened
  <2>11. Live(n)
    BY <2>1, <2>3, <2>5, <2>6, <2>8, <2>9, <2>10 DEF Live
  <2> QED BY <2>11 DEF n
<1> QED BY <1>3, <1>4

-----------------------------------------------------------------------------
\* What a client that is admitted finds: its own choice, and the room for it.
LEMMA AdmitsOpen ==
  ASSUME NEW m \in Matches, Going(m), NEW side \in Sides, NEW reserve, Admits(m, side, reserve),
         ~Controlled(m, side), m.battleResolutionPending => ~Undecided(m)
  PROVE  Spent(m, m.timers) /\ Open(m) /\ Single(m) /\ Sane(m)
BY AdmitsNoStep DEF Going

LEMMA AdmitsRests ==
  ASSUME NEW m \in Matches, Going(m), NEW side \in Sides, NEW reserve, Admits(m, side, reserve),
         ~Controlled(m, side), NoChoicePending(m)
  PROVE  AtRest(m) /\ InTurn(m) /\ side = m.turn
<1>1. Spent(m, m.timers) /\ Open(m) /\ Sane(m)
  BY AdmitsOpen DEF NoChoicePending
<1>2. side = m.turn
  BY DEF Admits, SelectionSide, NoChoicePending
<1>3. ~m.resolving /\ m.pendingKnockouts = None /\ m.cut <= m.len /\ Settled(m)
  BY <1>1 DEF Open
<1>4. InTurn(m)
  BY <1>3 DEF InTurn, Admits
<1> QED BY <1>1, <1>2, <1>3, <1>4 DEF AtRest

\* The clock stopped the handler, or what follows goes on.
LEMMA AcceptedGoes ==
  ASSUME match \in Matches, NEW pause \in Pauses, NEW n, Accepted(pause, n),
         Onward(Paused(match, pause), n), Paused(match, pause) = match => Live(n)
  PROVE  Live(match')
<1>1. CASE pause = "out"
  <2>1. match' = Finish(match)
    BY <1>1 DEF Accepted
  <2> QED BY <2>1, FinishedLives
<1>2. CASE pause # "out"
  <2>1. match' = n
    BY <1>2 DEF Accepted
  <2> QED BY <2>1, PausedIs DEF Live, Onward
<1> QED BY <1>1, <1>2

LEMMA MoveGoes ==
  ASSUME match \in Matches, Going(match), NEW side \in Sides, ~Controlled(match, side),
         NEW type \in Enders, NEW b \in MoveOpenings, NEW pause \in Pauses, Move(side, type, b, pause)
  PROVE  Live(match')
<1> DEFINE m == Paused(match, pause)
<1>1. Accepted(pause, Moved(m, side, type, b)) /\ NoChoicePending(match)
  BY DEF Move, MayMove, NoContinuation
<1>2. PICK reserve : Admits(match, side, reserve)
  BY DEF Move, MayMove
<1>3. AtRest(match) /\ InTurn(match) /\ side = match.turn
  BY <1>1, <1>2, AdmitsRests
<1>4. m \in Matches
  BY PausedIs
<1> HIDE DEF m
<1>5. Onward(m, Moved(m, side, type, b))
  BY <1>4, MovedCalm, CalmOnward
<1>6. m = match => Live(Moved(m, side, type, b))
  BY <1>3, MovedGoes
<1> QED BY <1>1, <1>5, <1>6, AcceptedGoes DEF m

LEMMA PlateGoes ==
  ASSUME match \in Matches, Going(match), NEW side \in Sides, ~Controlled(match, side),
         NEW plate \in {"select", "respin"}, NEW pause \in Pauses, SelectByPlate(side, plate, pause)
  PROVE  Live(match')
<1> DEFINE m == Paused(match, pause)
           g == Grow(m, 1)
           n == [g EXCEPT !.pendingPlate = plate]
<1>1. Accepted(pause, n) /\ NoChoicePending(match) /\ Admits(match, side, 64)
  BY DEF SelectByPlate, MaySelect, NoContinuation
<1>2. AtRest(match) /\ InTurn(match) /\ side = match.turn
  BY <1>1, AdmitsRests
<1>3. m \in Matches /\ plate \in Plates
  BY PausedIs DEF Plates
<1> HIDE DEF m
<1>4. g \in Matches /\ Grown(m, g, 1) /\ Onward(m, g)
  BY <1>3, GrowGrown, GrowCalm, CalmOnward
<1> HIDE DEF g
<1>5. n \in Matches
  BY <1>3, <1>4 DEF Matches
<1>6. Steady(g, n)
  BY <1>4 DEF Steady, Matches
<1>7. Onward(g, n)
  BY <1>4 DEF Onward, Matches
<1>8. /\ n.len = g.len /\ n.cut = g.cut /\ n.resolving = g.resolving
      /\ n.pendingKnockouts = g.pendingKnockouts /\ n.activeBattleResolution = g.activeBattleResolution
  BY <1>4 DEF Matches
<1> HIDE DEF n
<1>9. Onward(m, n)
  BY <1>4, <1>7, OnwardTrans
<1>10. m = match => Live(n)
  <2> SUFFICES ASSUME m = match PROVE Going(n)
    BY DEF Live
  <2>1. AtRest(g) /\ g.turn = m.turn /\ ~Controlled(g, m.turn)
    BY <1>2, <1>4, GrownRests, GrownKeeps DEF Grown
  <2>2. ~Controlled(n, n.turn)
    BY <1>6, <2>1 DEF Steady, Controlled
  <2>3. Spent(n, n.timers) /\ NoChoicePending(n)
    BY <1>6, <2>1, SteadyKeeps DEF AtRest
  <2>4. AtRest(n)
    BY <1>6, <1>8, <2>1, <2>2, <2>3 DEF AtRest, Sane, Settled, Steady
  <2> QED BY <1>5, <2>2, <2>4, RestGoes DEF Asks
<1> QED BY <1>1, <1>9, <1>10, AcceptedGoes DEF m, g, n

LEMMA DeclareGoes ==
  ASSUME match \in Matches, Going(match), NEW side \in Sides, ~Controlled(match, side),
         NEW cancelled \in BOOLEAN, NEW pause \in Pauses, DeclareBattle(side, cancelled, pause)
  PROVE  Live(match')
<1> DEFINE m == Paused(match, pause)
           g == Grow(m, 1)
           k == [g EXCEPT !.pendingTouch = FALSE]
           declared == Owing(Declared(k, side, m.len))
           ended == OpponentLater(CompleteTurn(g, side, Plan(m, m.len, 1)))
<1>1. /\ Accepted(pause, IF cancelled THEN ended ELSE declared)
      /\ NoChoicePending(match) /\ Admits(match, side, 52)
  BY DEF DeclareBattle, MayDeclare
<1>2. AtRest(match) /\ InTurn(match) /\ side = match.turn
  BY <1>1, AdmitsRests
<1>3. m \in Matches
  BY PausedIs
<1>4. m = match => Room(m, 53)
  BY <1>1 DEF Admits
<1> HIDE DEF m
<1>5. /\ g \in Matches /\ Grown(m, g, 1) /\ m.len \in Nat /\ Capacity \in Nat
      /\ m.cut \in Nat
  BY <1>3, EngineAssumption, GrowGrown DEF Matches
<1>6. Onward(m, ended)
  BY <1>3, EndedCalm, CalmOnward
<1>7. m = match => Going(ended)
  <2> SUFFICES ASSUME m = match PROVE Going(ended)
    OBVIOUS
  <2>1. Fits(m, Plan(m, m.len, 1)) /\ m.phase = "started"
    BY <1>2, <1>5, PlanFits DEF InTurn
  <2>2. Going(OpponentLater(CompleteTurn(g, side, Plan(m, m.len, 1))))
    BY <1>2, <1>3, <1>5, <2>1, EndedGoes
  <2> QED BY <2>2
<1>8. Onward(m, declared)
  BY <1>3, BattleDeclared
<1>9. m = match => Going(declared)
  <2> SUFFICES ASSUME m = match PROVE Going(declared)
    OBVIOUS
  <2> HIDE DEF g
  <2>1. AtRest(g) /\ InTurn(g) /\ g.turn = side /\ Room(g, 52)
    <3>1. g.turn = side /\ g.len = m.len + 1
      BY <1>2, <1>5 DEF Grown
    <3>2. Room(g, 52)
      BY <1>4, <1>5, <3>1 DEF Room
    <3> QED BY <1>2, <1>3, <1>5, <3>1, <3>2, GrownRests, GrownRoom
  <2>2. k \in Matches
    BY <1>5, ClearTouch DEF Calm
  <2>3. Alike(g, k) /\ k.timers = g.timers
    BY <1>5 DEF Alike, Same, Matches
  <2> HIDE DEF k
  <2>4. AtRest(k)
    BY <2>1, <2>3, AlikeRests
  <2>5. InTurn(k) /\ k.turn = side /\ Room(k, 52)
    BY <2>1, <2>3 DEF Alike, Same, InTurn, Room
  <2>6. Undecided(k) /\ Settled(k) /\ Spent(k, k.timers) /\ Sane(k) /\ k.pendingKnockouts = None
    BY <2>4 DEF AtRest, NoChoicePending, Undecided
  <2> QED BY <1>5, <2>2, <2>5, <2>6, DeclaredGoes
<1> HIDE DEF ended, declared
<1> QED BY <1>1, <1>6, <1>7, <1>8, <1>9, AcceptedGoes DEF m, Live

LEMMA EndGoes ==
  ASSUME match \in Matches, Going(match), NEW side \in Sides, ~Controlled(match, side),
         NEW pause \in Pauses, MayEndTurn(match, side), EndsTurn(side, pause)
  PROVE  Live(match')
<1> DEFINE m == Paused(match, pause)
           g == Grow(m, 1)
           ended == OpponentLater(CompleteTurn(g, side, Plan(m, m.len, 1)))
<1>1. Accepted(pause, ended) /\ NoChoicePending(match) /\ Admits(match, side, 64)
  BY DEF EndsTurn, MayEndTurn
<1>2. AtRest(match) /\ InTurn(match) /\ side = match.turn
  BY <1>1, AdmitsRests
<1>3. m \in Matches
  BY PausedIs
<1> HIDE DEF m
<1>4. g \in Matches /\ Grown(m, g, 1) /\ m.len \in Nat
  BY <1>3, GrowGrown DEF Matches
<1>5. Onward(m, ended)
  BY <1>3, EndedCalm, CalmOnward
<1>6. m = match => Going(ended)
  <2> SUFFICES ASSUME m = match PROVE Going(ended)
    OBVIOUS
  <2>1. Fits(m, Plan(m, m.len, 1)) /\ m.phase = "started"
    BY <1>2, <1>4, PlanFits DEF InTurn
  <2>2. Going(OpponentLater(CompleteTurn(g, side, Plan(m, m.len, 1))))
    BY <1>2, <1>3, <1>4, <2>1, EndedGoes
  <2> QED BY <2>2
<1> HIDE DEF ended
<1> QED BY <1>1, <1>5, <1>6, AcceptedGoes DEF m, Live

\* The respin that is chosen, as it is declared.
LEMMA RespinChosenType ==
  ASSUME NEW m \in Matches, NEW p \in Respins, m.pendingRespin # None
  PROVE  [m EXCEPT !.pendingRespin = p] \in Matches
BY DEF Matches

LEMMA DeclaredRespinIs ==
  ASSUME NEW m \in Matches, m.pendingRespin # None
  PROVE  LET q == m.pendingRespin
             p == [q EXCEPT !.declared = TRUE]
         IN /\ p \in Respins /\ p # None /\ p.declared /\ p.side = q.side /\ p.spin = q.spin
            /\ [Grow(m, 1) EXCEPT !.pendingRespin.declared = TRUE]
                 = [Grow(m, 1) EXCEPT !.pendingRespin = p]
<1> DEFINE q == m.pendingRespin
           p == [q EXCEPT !.declared = TRUE]
<1>1. q \in Respins
  BY DEF Matches
<1>2. p \in Respins /\ p.declared /\ p.side = q.side /\ p.spin = q.spin
  BY <1>1 DEF Respins
<1>3. p # None
  BY <1>2, NoneAssumption
<1>4. [Grow(m, 1) EXCEPT !.pendingRespin.declared = TRUE] = [Grow(m, 1) EXCEPT !.pendingRespin = p]
  BY DEF Grow, Matches
<1> QED BY <1>2, <1>3, <1>4

LEMMA RespinChosenGoes ==
  ASSUME NEW m \in Matches, RespinIsAsked(m), Spent(m, m.timers), Single(m), Sane(m),
         m.pendingKnockouts = None, Room(m, 49)
  PROVE  Going(Owing(Later([Grow(m, 1) EXCEPT !.pendingRespin.declared = TRUE], "respin", 0)))
<1> DEFINE g == Grow(m, 1)
           q == m.pendingRespin
           p == [q EXCEPT !.declared = TRUE]
           k == [g EXCEPT !.pendingRespin = p]
<1>1. g \in Matches /\ Grown(m, g, 1) /\ m.len \in Nat /\ Capacity \in Nat
  <2>1. m.len \in Nat /\ Capacity \in Nat
    BY EngineAssumption DEF Matches
  <2> QED BY <2>1, GrowGrown
<1>2. /\ q # None /\ q.side = m.turn /\ ~Controlled(m, q.side)
      /\ Spinning(m, q.spin) /\ m.pendingGrudge = None
  BY DEF RespinIsAsked
<1>3. p \in Respins /\ p # None /\ p.declared /\ p.side = q.side /\ p.spin = q.spin
  BY <1>2, DeclaredRespinIs
<1>4. [g EXCEPT !.pendingRespin.declared = TRUE] = k
  BY <1>2, DeclaredRespinIs
<1> HIDE DEF g, p, q
<1>5. Spinning(g, q.spin) /\ Room(g, 48) /\ g.pendingGrudge = None /\ g.pendingKnockouts = None
  <2>1. Room(g, 48)
    BY <1>1 DEF Room, Grown
  <2> QED BY <1>1, <1>2, <2>1, GrownRoom DEF Grown
<1>6. g.phase = "started" /\ g.turn = m.turn /\ g.human = m.human /\ g.pendingRespin = q
  BY <1>1, <1>2 DEF Spinning, InTurn, Grown, q
<1>7. k \in Matches
  BY <1>1, <1>2, <1>3, <1>6, RespinChosenType
<1>8. /\ k.human = g.human /\ k.phase = g.phase /\ k.turn = g.turn /\ k.len = g.len
      /\ k.done = g.done /\ k.cut = g.cut /\ k.timers = g.timers /\ k.resolving = g.resolving
      /\ k.pendingPlate = g.pendingPlate /\ k.battleResolutionPending = g.battleResolutionPending
  BY <1>1 DEF Matches
<1>9. /\ k.activeBattleResolution = g.activeBattleResolution /\ k.pendingKnockouts = g.pendingKnockouts
      /\ k.pendingRespin = p /\ k.pendingGrudge = g.pendingGrudge
      /\ k.pendingJump = g.pendingJump /\ k.pendingExtraBattle = g.pendingExtraBattle
  BY <1>1 DEF Matches
<1> HIDE DEF k
<1>10. Spinning(k, q.spin) /\ Room(k, 48)
  BY <1>5, <1>8, <1>9 DEF Spinning, InTurn, CurrentBattleResolution, Room
<1>11. ~Controlled(k, p.side) /\ p.side = k.turn
  BY <1>2, <1>3, <1>6, <1>8 DEF Controlled
<1>12. RespinIsAsked(k)
  BY <1>3, <1>5, <1>9, <1>10, <1>11 DEF RespinIsAsked
<1>13. Ready(k, "respin", 0)
  BY <1>5, <1>9, <1>10, <1>12 DEF Ready
<1>14. Awaits(k, "respin")
  BY <1>3, <1>9 DEF Awaits, Continuing
<1>15. Spent(k, k.timers)
  BY <1>1, <1>8 DEF Spent, Grown
<1>16. Single(k)
  BY <1>1, <1>2, <1>8, <1>9 DEF Single, Grown, q
<1>17. Sane(k)
  BY <1>1, <1>8 DEF Sane, Controlled, Grown
<1>18. Going(Owing(Later(k, "respin", 0)))
  BY <1>6, <1>7, <1>8, <1>13, <1>14, <1>15, <1>16, <1>17, OwedGoes DEF Steps
<1> QED BY <1>4, <1>18 DEF g

LEMMA DeclareRespinGoes ==
  ASSUME match \in Matches, Going(match), NEW side \in Sides, ~Controlled(match, side),
         NEW pause \in Pauses, DeclareRespin(side, pause)
  PROVE  Live(match')
<1> DEFINE m == Paused(match, pause)
           n == Owing(Later([Grow(m, 1) EXCEPT !.pendingRespin.declared = TRUE], "respin", 0))
<1>1. Accepted(pause, n) /\ match.pendingRespin # None /\ Admits(match, side, 40)
  BY DEF DeclareRespin, ChoosesRespin
<1>2. Spent(match, match.timers) /\ Open(match) /\ Single(match) /\ Sane(match)
  BY <1>1, AdmitsOpen DEF Undecided
<1>3. m \in Matches /\ m.pendingRespin = match.pendingRespin
  BY PausedIs
<1> HIDE DEF m
<1>4. Onward(m, n)
  BY <1>1, <1>3, RespinDeclared
<1>5. m = match => Going(n)
  BY <1>1, <1>2, RespinChosenGoes DEF Open
<1> HIDE DEF n
<1> QED BY <1>1, <1>4, <1>5, AcceptedGoes DEF m, n, Live

\* A respin that is declined: the outcome that was held back is applied.
LEMMA DeclinedGoes ==
  ASSUME RecordSuffices, NEW m, Typed(m), NEW o \in Outcomes, o.wheels = 0, RespinIsAsked(m),
         Spent(m, m.timers), Single(m), Sane(m), m.pendingKnockouts = None, Room(m, 48)
  PROVE  Going(FinishBattleSpin(Grow(m, 1), m.pendingRespin.spin, o))
<1> DEFINE k == Grow(m, 1)
           spin == m.pendingRespin.spin
<1>1. m \in Matches /\ m.pendingRespin # None /\ m.pendingGrudge = None /\ Spinning(m, spin)
  BY DEF Typed, RespinIsAsked
<1>2. spin \in Nat
  BY <1>1 DEF Matches, Respins
<1> HIDE DEF spin
<1>3. k \in Matches /\ Grown(m, k, 1) /\ m.len \in Nat /\ m.cut \in Nat /\ Capacity \in Nat
  BY <1>1, GrowGrown, EngineAssumption DEF Matches
<1>4. Typed(k)
  BY <1>1, GrowCalm, CalmTyped
<1> HIDE DEF k
<1>5. Spinning(k, spin) /\ k.cut < k.len
  <2>1. m.cut <= m.len /\ k.cut = m.cut /\ k.len = m.len + 1
    BY <1>1, <1>3 DEF Spinning, InTurn, Grown
  <2>2. k.cut < k.len
    BY <1>3, <2>1
  <2> QED BY <1>1, <1>3, <2>2, GrownRoom
<1>6. InHand(k) /\ Sane(k) /\ k.pendingKnockouts = None /\ k.pendingRespin # None
  <2>1. InHand(m)
    BY <1>1 DEF InHand, Single
  <2>2. InHand(k) /\ Sane(k)
    BY <1>3, <2>1, GrownKeeps, SteadyKeeps
  <2> QED BY <1>1, <1>3, <2>2 DEF Grown
<1>7. Affords(k, o)
  <2>1. Room(k, 47)
    BY <1>3 DEF Room, Grown
  <2> QED BY <1>3, <2>1, OutcomesAfforded
<1>8. Going(FinishBattleSpin(k, spin, o))
  BY <1>2, <1>4, <1>5, <1>6, <1>7, FinishSpinGoes
<1> QED BY <1>8 DEF k, spin

LEMMA DeclineRespinGoes ==
  ASSUME Typed(match), Going(match), NEW side \in Sides, ~Controlled(match, side), RecordSuffices,
         WheelsAfterRespin = 0, NEW o \in Outcomes, NEW pause \in Pauses, DeclineRespin(side, o, pause)
  PROVE  Live(match')
<1> DEFINE m == Paused(match, pause)
           k == Grow(m, 1)
           spin == match.pendingRespin.spin
           n == FinishBattleSpin(k, spin, o)
<1>0. match \in Matches
  BY DEF Typed
<1>1. /\ Accepted(pause, n) /\ match.pendingRespin # None /\ Admits(match, side, 39)
      /\ o.wheels <= WheelsAfterRespin
  BY DEF DeclineRespin, ChoosesRespin
<1>2. o.wheels = 0
  BY <1>1, OutcomeType
<1>3. Spent(match, match.timers) /\ Open(match) /\ Single(match) /\ Sane(match)
  BY <1>0, <1>1, AdmitsOpen DEF Undecided
<1>4. RespinIsAsked(match) /\ match.pendingKnockouts = None /\ Room(match, 48)
  <2>1. RespinIsAsked(match) /\ match.pendingKnockouts = None /\ Room(match, 49)
    BY <1>1, <1>3 DEF Open
  <2> QED BY <1>0, <2>1, RoomShrinks
<1>5. Calm(match, m) /\ m \in Matches
  BY <1>0, PausedIs
<1>6. spin \in Nat
  BY <1>0, <1>1 DEF Matches, Respins
<1>7. m = match => Going(n)
  <2> SUFFICES ASSUME m = match PROVE Going(n)
    OBVIOUS
  <2> HIDE DEF m
  <2>1. Going(FinishBattleSpin(Grow(match, 1), match.pendingRespin.spin, o))
    BY <1>2, <1>3, <1>4, DeclinedGoes
  <2> QED BY <2>1
<1> HIDE DEF m, spin
<1>8. Calm(m, k)
  BY <1>5, GrowCalm
<1> HIDE DEF k
<1>9. Typed(k)
  BY <1>5, <1>8, CalmTyped
<1>10. Onward(m, n)
  BY <1>2, <1>6, <1>8, <1>9, CalmOnward, FinishSpinOnward, OnwardTrans
<1> HIDE DEF n
<1> QED BY <1>0, <1>1, <1>7, <1>10, AcceptedGoes DEF m, Live

LEMMA GrudgeClientGoes ==
  ASSUME match \in Matches, Going(match), NEW side \in Sides, ~Controlled(match, side),
         NEW pause \in Pauses, ChooseGrudge(side, pause)
  PROVE  Live(match')
<1> DEFINE m == Paused(match, pause)
<1>1. Accepted(pause, GrudgeChosen(m)) /\ match.pendingGrudge # None /\ Admits(match, side, 64)
  BY DEF ChooseGrudge, ChoosesGrudge
<1>2. Spent(match, match.timers) /\ Open(match) /\ Single(match) /\ Sane(match)
  BY <1>1, AdmitsOpen DEF Undecided
<1>3. m \in Matches /\ m.pendingGrudge = match.pendingGrudge
  BY PausedIs
<1> HIDE DEF m
<1>4. Onward(m, GrudgeChosen(m))
  BY <1>1, <1>3, GrudgeChosenCalm, CalmOnward
<1>5. Room(match, 17)
  BY <1>1, EngineAssumption DEF Admits, Room, Matches
<1>6. GrudgeIsAsked(match) /\ match.pendingKnockouts = None
  BY <1>1, <1>2 DEF Open
<1>7. m = match => Going(GrudgeChosen(m))
  BY <1>2, <1>5, <1>6, GrudgeChosenGoes
<1> QED BY <1>1, <1>4, <1>7, AcceptedGoes DEF m, Live

LEMMA JumpClientGoes ==
  ASSUME match \in Matches, Going(match), NEW side \in Sides, ~Controlled(match, side),
         NEW n \in 0..1, NEW goal \in BOOLEAN, NEW pause \in Pauses, LandJump(side, n, goal, pause)
  PROVE  Live(match')
<1> DEFINE m == Paused(match, pause)
<1>1. /\ Accepted(pause, JumpLanded(m, n, goal)) /\ Admits(match, side, 64)
      /\ match.pendingJump # None /\ match.pendingGrudge = None /\ match.activeBattleResolution # None
  BY DEF LandJump, LandsJump, CurrentBattleResolution
<1>2. Spent(match, match.timers) /\ Open(match) /\ Single(match) /\ Sane(match)
  BY <1>1, AdmitsOpen DEF Undecided
<1>3. /\ m \in Matches /\ m.pendingJump = match.pendingJump
      /\ m.activeBattleResolution = match.activeBattleResolution
  BY PausedIs
<1> HIDE DEF m
<1>4. n \in Nat
  OBVIOUS
<1>5. Onward(m, JumpLanded(m, n, goal))
  BY <1>1, <1>3, <1>4, JumpLandedCalm, CalmOnward
<1>6. JumpIsAsked(match) /\ match.pendingKnockouts = None
  BY <1>1, <1>2 DEF Open
<1>7. m = match => Live(JumpLanded(m, n, goal))
  BY <1>2, <1>4, <1>6, JumpLandedGoes
<1> QED BY <1>1, <1>5, <1>7, AcceptedGoes DEF m

LEMMA ExtraClientGoes ==
  ASSUME match \in Matches, Going(match), NEW side \in Sides, ~Controlled(match, side),
         NEW reserve \in {52, 64}, NEW fights \in BOOLEAN, NEW pause \in Pauses,
         TakesExtraBattle(match, side, reserve),
         Accepted(pause, ExtraBattleTaken(Paused(match, pause), fights))
  PROVE  Live(match')
<1> DEFINE m == Paused(match, pause)
<1>1. /\ match.pendingExtraBattle # None /\ match.pendingGrudge = None
      /\ match.activeBattleResolution # None /\ Admits(match, side, reserve)
      /\ CurrentBattleResolution(match, match.pendingExtraBattle.spin, "applying")
      /\ Fits(match, Plan(match, match.pendingExtraBattle.spin, 1))
  BY DEF TakesExtraBattle, CurrentBattleResolution
<1>2. Spent(match, match.timers) /\ Open(match) /\ Single(match) /\ Sane(match)
  BY <1>1, AdmitsOpen DEF Undecided
<1>3. /\ m \in Matches /\ m.pendingExtraBattle = match.pendingExtraBattle
      /\ m.activeBattleResolution = match.activeBattleResolution
      /\ m.phase = "started" => m = match
  BY PausedIs
<1>4. Accepted(pause, ExtraBattleTaken(m, fights))
  OBVIOUS
<1> HIDE DEF m
<1>5. Onward(m, ExtraBattleTaken(m, fights))
  <2>1. Calm(m, ExtraBattleTaken(m, fights)) \/ NewBattle(m, ExtraBattleTaken(m, fights))
    BY <1>1, <1>3, ExtraTakenShape
  <2> QED BY <1>3, <2>1, CalmOnward, NewBattleOnward
<1>6. Room(match, 53)
  BY <1>1, EngineAssumption DEF Admits, Room, Matches
<1>7. ExtraIsAsked(match) /\ match.pendingKnockouts = None
  BY <1>1, <1>2 DEF Open
<1>8. m = match => Going(ExtraBattleTaken(m, fights))
  BY <1>2, <1>6, <1>7, ExtraTakenGoes
<1> QED BY <1>4, <1>5, <1>8, AcceptedGoes DEF m, Live

\* Whatever a client does, the match can go on.
LEMMA PlaysGo ==
  ASSUME Typed(match), Going(match), RecordSuffices, WheelsAfterRespin = 0,
         NEW side \in Sides, ~Controlled(match, side), Plays(side)
  PROVE  Live(match')
<1>0. match \in Matches
  BY DEF Typed
<1>1. PICK pause \in Pauses :
        \/ \E type \in Enders, b \in MoveOpenings : Move(side, type, b, pause)
        \/ \E plate \in {"select", "respin"} : SelectByPlate(side, plate, pause)
        \/ \E cancelled \in BOOLEAN : DeclareBattle(side, cancelled, pause)
        \/ MayEndTurn(match, side) /\ EndsTurn(side, pause)
        \/ DeclareRespin(side, pause)
        \/ \E o \in Outcomes : DeclineRespin(side, o, pause)
        \/ ChooseGrudge(side, pause)
        \/ \E n \in 0..1, goal \in BOOLEAN : LandJump(side, n, goal, pause)
        \/ \E fights \in BOOLEAN, reserve \in {52, 64} : /\ TakesExtraBattle(match, side, reserve)
                                           /\ Accepted(pause, ExtraBattleTaken(Paused(match, pause), fights))
  BY PlaysAre
<1>2. CASE \E type \in Enders, b \in MoveOpenings : Move(side, type, b, pause)
  BY <1>0, <1>2, MoveGoes
<1>3. CASE \E plate \in {"select", "respin"} : SelectByPlate(side, plate, pause)
  BY <1>0, <1>3, PlateGoes
<1>4. CASE \E cancelled \in BOOLEAN : DeclareBattle(side, cancelled, pause)
  BY <1>0, <1>4, DeclareGoes
<1>5. CASE MayEndTurn(match, side) /\ EndsTurn(side, pause)
  BY <1>0, <1>5, EndGoes
<1>6. CASE DeclareRespin(side, pause)
  BY <1>0, <1>6, DeclareRespinGoes
<1>7. CASE \E o \in Outcomes : DeclineRespin(side, o, pause)
  BY <1>7, DeclineRespinGoes
<1>8. CASE ChooseGrudge(side, pause)
  BY <1>0, <1>8, GrudgeClientGoes
<1>9. CASE \E n \in 0..1, goal \in BOOLEAN : LandJump(side, n, goal, pause)
  BY <1>0, <1>9, JumpClientGoes
<1>10. CASE \E fights \in BOOLEAN, reserve \in {52, 64} : /\ TakesExtraBattle(match, side, reserve)
                                            /\ Accepted(pause, ExtraBattleTaken(Paused(match, pause), fights))
  BY <1>0, <1>10, ExtraClientGoes
<1> QED BY <1>1, <1>2, <1>3, <1>4, <1>5, <1>6, <1>7, <1>8, <1>9, <1>10

-----------------------------------------------------------------------------
\* The callback that is called is the one that is owed and finds all that it
\* needs, or it has nothing to do.
LEMMA WithoutAlike ==
  ASSUME match \in Matches, NEW t \in match.timers
  PROVE  Alike(match, Without(t)) /\ Without(t).timers = match.timers \ {t}
BY DEF Without, Alike, Same, Matches

LEMMA DueGoes ==
  ASSUME match \in Matches, Going(match), NEW t \in match.timers
  PROVE  LET w == Without(t)
         IN \/ /\ t.step = "opponent" /\ Going(w)
               /\ w.turn = "white" => t.turns < match.done
            \/ /\ Spent(w, w.timers) /\ Single(w) /\ Sane(w) /\ t.turns = match.done
               /\ Awaits(w, t.step) /\ Ready(w, t.step, t.at)
<1> DEFINE w == Without(t)
<1>1. Alike(match, w) /\ w.timers = match.timers \ {t}
  BY WithoutAlike
<1> SUFFICES \/ /\ t.step = "opponent" /\ Going(w)
                /\ w.turn = "white" => t.turns < match.done
             \/ /\ Spent(w, w.timers) /\ Single(w) /\ Sane(w) /\ t.turns = match.done
                /\ Awaits(w, t.step) /\ Ready(w, t.step, t.at)
  OBVIOUS
<1> HIDE DEF w
<1>2. w.human = match.human /\ w.done = match.done /\ w.turn = match.turn
  BY <1>1 DEF Alike, Same
<1>3. Single(w) /\ Sane(w)
  BY <1>1, AlikeGoes DEF Going
<1>4. CASE Spent(match, match.timers) /\ Open(match)
  <2>1. Spent(w, w.timers)
    BY <1>1, <1>2, <1>4 DEF Spent
  <2>2. t.step = "opponent" /\ (w.turn = "white" => t.turns < match.done)
    BY <1>2, <1>4 DEF Spent
  <2>3. Open(w)
    BY <1>1, <1>4, AlikeGoes
  <2> QED BY <1>3, <2>1, <2>2, <2>3 DEF Going
<1>5. ASSUME NEW u \in match.timers, Spent(match, match.timers \ {u}), u.turns = match.done,
             Awaits(match, u.step), Ready(match, u.step, u.at)
      PROVE  \/ /\ t.step = "opponent" /\ Going(w)
                /\ w.turn = "white" => t.turns < match.done
             \/ /\ Spent(w, w.timers) /\ t.turns = match.done
                /\ Awaits(w, t.step) /\ Ready(w, t.step, t.at)
  <2>1. Awaits(w, u.step) /\ Ready(w, u.step, u.at)
    BY <1>1, <1>5, AlikeGoes
  <2>2. CASE t = u
    <3>1. Spent(w, w.timers)
      BY <1>1, <1>2, <1>5, <2>2 DEF Spent
    <3> QED BY <1>5, <2>1, <2>2, <3>1
  <2>3. CASE t # u
    <3>1. t.step = "opponent" /\ (w.turn = "white" => t.turns < match.done)
      BY <1>2, <1>5, <2>3 DEF Spent
    <3>2. Spent(w, w.timers \ {u}) /\ u \in w.timers
      BY <1>1, <1>2, <1>5, <2>3 DEF Spent
    <3> QED BY <1>2, <1>3, <1>5, <2>1, <3>1, <3>2 DEF Going
  <2> QED BY <2>2, <2>3
<1> QED BY <1>3, <1>4, <1>5 DEF Going

\* The answers of the training opponent: the handler admits them, or the record
\* has no room for them.
LEMMA OpponentGrudgeGoes ==
  ASSUME NEW m \in Matches, NEW at, m.phase = "started", Spent(m, m.timers), Single(m), Sane(m),
         Awaits(m, "opponent_grudge"), Ready(m, "opponent_grudge", at)
  PROVE  /\ m.pendingGrudge # None /\ m.pendingGrudge.at = at
         /\ Controlled(m, SelectionSide(m))
         /\ ChoosesGrudge(m, "white") => Going(GrudgeChosen(m)) /\ GrudgeChosen(m).len > m.len
         /\ ~ChoosesGrudge(m, "white") => Going(m) /\ NoRoom(m)
<1>1. /\ GrudgeIsAsked(m) /\ m.pendingGrudge.at = at /\ m.pendingKnockouts = None
      /\ m.pendingGrudge # None /\ m.pendingGrudge.bound = m.len /\ InTurn(m)
  BY DEF Ready, GrudgeIsAsked
<1>2. ~m.pendingGrudge.declared /\ Controlled(m, m.pendingGrudge.side)
  BY DEF Awaits
<1>3. ~m.resolving /\ m.pendingGrudge.side = "white" /\ ~m.human
  BY <1>2 DEF Controlled, Sane
<1>4. SelectionSide(m) = m.pendingGrudge.side
  BY <1>1, <1>2 DEF SelectionSide
<1>5. m.pendingRespin = None /\ m.pendingJump = None /\ m.pendingExtraBattle = None /\ ~m.battleResolutionPending
  BY <1>1 DEF Single
<1>6. ASSUME ChoosesGrudge(m, "white")
      PROVE  Going(GrudgeChosen(m)) /\ GrudgeChosen(m).len > m.len
  <2>1. Room(m, 17)
    BY <1>6, EngineAssumption DEF ChoosesGrudge, Admits, Room, Matches
  <2> QED BY <1>1, <2>1, GrudgeChosenGoes
<1>7. ASSUME ~ChoosesGrudge(m, "white")
      PROVE  Going(m) /\ NoRoom(m)
  <2>1. NoRoom(m)
    BY <1>1, <1>3, <1>4, <1>5, <1>7 DEF ChoosesGrudge, Admits, NoRoom, InTurn
  <2>2. Open(m)
    BY <1>1, <1>2, <1>3, <1>5, <2>1 DEF Open, NoChoicePending, Asks
  <2> QED BY <2>1, <2>2 DEF Going
<1> QED BY <1>1, <1>2, <1>4, <1>6, <1>7

LEMMA OpponentJumpGoes ==
  ASSUME NEW m \in Matches, NEW at, m.phase = "started", Spent(m, m.timers), Single(m), Sane(m),
         Awaits(m, "opponent_jump"), Ready(m, "opponent_jump", at)
  PROVE  /\ m.pendingJump # None /\ m.pendingJump.at = at
         /\ Controlled(m, SelectionSide(m)) /\ JumpIsAsked(m) /\ m.pendingKnockouts = None
         /\ ~LandsJump(m, "white") => Going(m) /\ NoRoom(m)
<1> DEFINE p == m.pendingJump
<1>1. /\ JumpIsAsked(m) /\ p.at = at /\ m.pendingKnockouts = None /\ p.landing
      /\ p # None /\ p.at = m.len /\ Applying(m, p.spin) /\ m.pendingGrudge = None
  BY DEF Ready, JumpIsAsked
<1>2. Controlled(m, p.side)
  BY DEF Awaits
<1>3. ~m.resolving /\ p.side = "white" /\ ~m.human
  BY <1>2 DEF Controlled, Sane
<1>4. m.pendingRespin = None /\ m.pendingExtraBattle = None
  BY <1>1 DEF Single
<1>5. SelectionSide(m) = p.side
  BY <1>1, <1>4 DEF SelectionSide
<1>6. CurrentBattleResolution(m, p.spin, "applying") /\ InTurn(m) /\ p.spin >= m.cut
  BY <1>1 DEF Applying
<1>7. Fits(m, Plan(m, p.spin, 1))
  <2>1. p.spin \in Nat
    BY <1>1 DEF Matches, Jumps
  <2> QED BY <1>6, <2>1, PlanFits
<1>8. ASSUME ~LandsJump(m, "white")
      PROVE  Going(m) /\ NoRoom(m)
  <2>1. NoRoom(m)
    BY <1>1, <1>3, <1>4, <1>5, <1>6, <1>7, <1>8 DEF LandsJump, Admits, NoRoom, InTurn
  <2>2. Open(m)
    BY <1>1, <1>3, <1>4, <2>1 DEF Open, NoChoicePending, Asks, Undecided
  <2> QED BY <2>1, <2>2 DEF Going
<1> QED BY <1>1, <1>2, <1>5, <1>8

LEMMA OpponentExtraGoes ==
  ASSUME NEW m \in Matches, NEW at, m.phase = "started", Spent(m, m.timers), Single(m), Sane(m),
         Awaits(m, "opponent_extra"), Ready(m, "opponent_extra", at)
  PROVE  /\ m.pendingExtraBattle # None /\ m.pendingExtraBattle.at = at
         /\ Controlled(m, SelectionSide(m)) /\ ExtraIsAsked(m) /\ m.pendingKnockouts = None
         /\ TakesExtraBattle(m, "white", 52) => Room(m, 53)
         /\ ~TakesExtraBattle(m, "white", 52) => Going(m) /\ NoRoom(m)
<1> DEFINE p == m.pendingExtraBattle
<1>1. /\ ExtraIsAsked(m) /\ p.at = at /\ m.pendingKnockouts = None /\ p.choices
      /\ p # None /\ p.at = m.len /\ Applying(m, p.spin) /\ m.pendingGrudge = None
  BY DEF Ready, ExtraIsAsked
<1>2. Controlled(m, p.side)
  BY DEF Awaits
<1>3. ~m.resolving /\ p.side = "white" /\ ~m.human
  BY <1>2 DEF Controlled, Sane
<1>4. m.pendingRespin = None /\ m.pendingJump = None
  BY <1>1 DEF Single
<1>5. SelectionSide(m) = p.side
  BY <1>1, <1>4 DEF SelectionSide
<1>6. CurrentBattleResolution(m, p.spin, "applying") /\ InTurn(m) /\ p.spin >= m.cut
  BY <1>1 DEF Applying
<1>7. Fits(m, Plan(m, p.spin, 1))
  <2>1. p.spin \in Nat
    BY <1>1 DEF Matches, ExtraBattles
  <2> QED BY <1>6, <2>1, PlanFits
<1>8. TakesExtraBattle(m, "white", 52) => Room(m, 53)
  BY EngineAssumption DEF TakesExtraBattle, Admits, Room, Matches
<1>9. ASSUME ~TakesExtraBattle(m, "white", 52)
      PROVE  Going(m) /\ NoRoom(m)
  <2>1. m.done >= MaxCompletions \/ ~Room(m, 53)
    <3>1. m.len + (1 + 52) = m.len + 53
      BY DEF Matches
    <3> QED BY <1>1, <1>3, <1>4, <1>5, <1>6, <1>7, <1>9, <3>1 DEF TakesExtraBattle, Admits, InTurn, Room
  <2>2. NoRoom(m)
    BY <2>1, RoomShrinks DEF NoRoom
  <2>3. Open(m)
    BY <1>1, <1>3, <1>4, <2>2 DEF Open, NoChoicePending, Asks, Undecided
  <2> QED BY <2>2, <2>3 DEF Going
<1> QED BY <1>1, <1>2, <1>5, <1>8, <1>9

\* The opponent's call, in its turn or out of it.
LEMMA PlayedLate ==
  ASSUME NEW m \in Matches, NEW late \in BOOLEAN
  PROVE  LET n == [m EXCEPT !.late = late]
         IN /\ Alike(m, n) /\ n.timers = m.timers /\ n.late = late
            /\ n.turn = m.turn /\ n.phase = m.phase
BY DEF Alike, Same, Matches

LEMMA OpponentIs ==
  ASSUME match \in Matches, NEW t \in match.timers, t.step = "opponent", Fires(t)
  PROVE  \E choice \in {"move", "spot_move", "cancelled"}, b \in MoveOpenings, late \in BOOLEAN :
           LET played == PlayOpponentTurn(Without(t), choice, b)
           IN /\ played \in Matches
              /\ match' = [played EXCEPT !.late = late]
              /\ late = (played.late \/ (Late(t) /\ played # Without(t)))
<1> DEFINE w == Without(t)
<1>1. w \in Matches
  BY WithoutIs
<1>2. PICK choice \in {"move", "spot_move", "cancelled"}, b \in MoveOpenings :
        LET played == PlayOpponentTurn(w, choice, b)
        IN match' = [played EXCEPT !.late = @ \/ (Late(t) /\ played # w)]
  BY DEF Fires, Results, Opponent
<1> DEFINE played == PlayOpponentTurn(w, choice, b)
           late == played.late \/ (Late(t) /\ played # w)
<1>3. played \in Matches
  BY <1>1, PlayOpponentShape
<1> HIDE DEF w
<1>4. match' = [played EXCEPT !.late = late]
  BY <1>2, <1>3 DEF Matches
<1>5. late \in BOOLEAN
  BY DEF late
<1> QED BY <1>3, <1>4, <1>5 DEF w

LEMMA SpentCallGoes ==
  ASSUME match \in Matches, NEW t \in match.timers, t.step = "opponent", Fires(t),
         Going(Without(t)), Without(t).turn = "white" => t.turns < match.done
  PROVE  ~match'.late => Live(match')
<1> DEFINE w == Without(t)
<1>1. w \in Matches /\ w.turn = match.turn /\ t \in Timers
  BY WithoutIs, WithoutKeeps
<1>2. PICK choice \in {"move", "spot_move", "cancelled"}, b \in MoveOpenings, late \in BOOLEAN :
        LET played == PlayOpponentTurn(w, choice, b)
        IN /\ played \in Matches
           /\ match' = [played EXCEPT !.late = late]
           /\ late = (played.late \/ (Late(t) /\ played # w))
  BY OpponentIs
<1> DEFINE played == PlayOpponentTurn(w, choice, b)
<1>3. w.turn # "white" => played = w
  BY DEF PlayOpponentTurn
<1>4. w.turn = "white" => Late(t)
  <2>1. t.turns \in Nat /\ match.done \in Nat
    BY <1>1 DEF Timers, Matches
  <2> QED BY <1>1, <2>1 DEF Late
<1>5. Going(w)
  OBVIOUS
<1> HIDE DEF w
<1>6. played # w => late
  BY <1>2, <1>3, <1>4
<1>7. Alike(played, match') /\ match'.timers = played.timers /\ match'.late = late
  <2>1. played \in Matches /\ match' = [played EXCEPT !.late = late]
    BY <1>2
  <2> HIDE DEF played
  <2> QED BY <2>1, PlayedLate
<1> HIDE DEF played
<1> QED BY <1>5, <1>6, <1>7, AlikeKeeps DEF Live

LEMMA OwedCallGoes ==
  ASSUME match \in Matches, NEW t \in match.timers, t.step = "opponent", Fires(t),
         AtRest(Without(t)), Without(t).phase = "started", ~Without(t).human, Without(t).turn = "white"
  PROVE  Live(match')
<1> DEFINE w == Without(t)
<1>1. w \in Matches
  BY WithoutIs
<1>2. PICK choice \in {"move", "spot_move", "cancelled"}, b \in MoveOpenings, late \in BOOLEAN :
        LET played == PlayOpponentTurn(w, choice, b)
        IN /\ played \in Matches
           /\ match' = [played EXCEPT !.late = late]
           /\ late = (played.late \/ (Late(t) /\ played # w))
  BY OpponentIs
<1> DEFINE played == PlayOpponentTurn(w, choice, b)
<1> HIDE DEF w
<1>3. Live(played)
  BY <1>1, PlayOpponentGoes DEF w
<1>4. played.late => late
  BY <1>2
<1>5. Alike(played, match') /\ match'.timers = played.timers /\ match'.late = late
      /\ match'.phase = played.phase
  <2>1. played \in Matches /\ match' = [played EXCEPT !.late = late]
    BY <1>2
  <2> HIDE DEF played
  <2> QED BY <2>1, PlayedLate
<1> HIDE DEF played
<1> QED BY <1>3, <1>4, <1>5, AlikeKeeps DEF Live

\* The opponent's call finds its turn as it was when the call was scheduled.
LEMMA OpponentRests ==
  ASSUME NEW m \in Matches, NEW at, Spent(m, m.timers), Sane(m),
         Awaits(m, "opponent"), Ready(m, "opponent", at)
  PROVE  /\ AtRest(m) /\ ~m.human /\ m.turn = "white"
         /\ Controlled(m, SelectionSide(m)) /\ Controlled(m, m.turn)
<1>1. NoChoicePending(m) /\ Controlled(m, m.turn)
  BY DEF Awaits
<1>2. ~m.human /\ m.turn = "white" /\ ~m.resolving
  BY <1>1 DEF Controlled, Sane
<1>3. m.pendingKnockouts = None /\ m.cut <= m.len /\ Settled(m)
  BY DEF Ready
<1>4. SelectionSide(m) = m.turn
  BY <1>1 DEF SelectionSide, NoChoicePending
<1> QED BY <1>1, <1>2, <1>3, <1>4 DEF AtRest

\* Whatever a callback does, the match can go on.
LEMMA FiresGo ==
  ASSUME Typed(match), Going(match), match.phase = "started", RecordSuffices,
         WheelsAfterRespin = 0, NEW t \in match.timers, Fires(t)
  PROVE  ~match'.late => Live(match')
<1> DEFINE w == Without(t)
<1>0. match \in Matches
  BY DEF Typed
<1>1. w \in Matches /\ Typed(w) /\ t.at \in Nat /\ t.step \in Steps /\ w.phase = "started"
  BY <1>0, WithoutIs, WithoutTyped
<1>2. \/ t.step = "opponent" /\ Going(w) /\ (w.turn = "white" => t.turns < match.done)
      \/ /\ Spent(w, w.timers) /\ Single(w) /\ Sane(w)
         /\ Awaits(w, t.step) /\ Ready(w, t.step, t.at)
  BY <1>0, DueGoes
<1>3. CASE t.step = "opponent" /\ Going(w) /\ (w.turn = "white" => t.turns < match.done)
  BY <1>0, <1>3, SpentCallGoes
<1>4. ASSUME Spent(w, w.timers), Single(w), Sane(w), Awaits(w, t.step), Ready(w, t.step, t.at)
      PROVE  Live(match')
  <2>1. t.step \in Continuing => Undecided(w) /\ w.battleResolutionPending /\ InHand(w)
    BY <1>4 DEF Awaits, Undecided, InHand
  <2>2. CASE t.step = "resolve"
    <3>1. PICK d \in 0..2, o \in Outcomes : match' = ResolveBattle(w, t.at, d, o)
      BY <2>2 DEF Fires, Results, Resolve
    <3> HIDE DEF w
    <3>2. /\ BattleIsDeclared(w, t.at) /\ ~w.activeBattleDeclaration.started /\ Room(w, 52)
          /\ w.pendingKnockouts = None
      BY <1>4, <2>2 DEF Ready
    <3>3. Undecided(w) /\ w.battleResolutionPending
      BY <2>1, <2>2 DEF Continuing
    <3>4. Going(ResolveBattle(w, t.at, d, o))
      BY <1>1, <1>4, <3>2, <3>3, ResolveGoes
    <3> QED BY <3>1, <3>4 DEF Live
  <2>3. CASE t.step = "spin"
    <3>1. PICK o \in Outcomes : match' = PerformBattleSpin(w, t.at, o)
      BY <2>3 DEF Fires, Results, Spin
    <3> HIDE DEF w
    <3>2. BattleIsDeclared(w, t.at) /\ Room(w, 50) /\ w.pendingKnockouts = None
      BY <1>4, <2>3 DEF Ready
    <3>3. Undecided(w) /\ w.battleResolutionPending
      BY <2>1, <2>3 DEF Continuing
    <3>4. Going(PerformBattleSpin(w, t.at, o))
      BY <1>1, <1>4, <3>2, <3>3, PerformSpinGoes
    <3> QED BY <3>1, <3>4 DEF Live
  <2>4. CASE t.step = "respin"
    <3>1. PICK o \in Outcomes : o.wheels <= WheelsAfterRespin /\ match' = PerformPendingRespin(w, o)
      BY <2>4 DEF Fires, Results, Respin
    <3>2. o.wheels = 0
      BY <3>1, OutcomeType
    <3> HIDE DEF w
    <3>3. RespinIsAsked(w) /\ Room(w, 48) /\ w.pendingKnockouts = None /\ w.pendingRespin.declared
      BY <1>4, <2>4 DEF Awaits, Ready
    <3>4. Going(PerformPendingRespin(w, o))
      BY <1>1, <1>4, <3>2, <3>3, RespinGoes
    <3> QED BY <3>1, <3>4 DEF Live
  <2>5. CASE t.step = "secondary"
    <3>1. match' = PerformSecondarySpins(w, t.at)
      BY <2>5 DEF Fires, Results, Secondary
    <3> HIDE DEF w
    <3>2. WheelsAreOwed(w, t.at) /\ w.pendingKnockouts = None
      BY <1>4, <2>5 DEF Ready
    <3>3. Undecided(w) /\ w.battleResolutionPending
      BY <2>1, <2>5 DEF Continuing
    <3>4. Going(PerformSecondarySpins(w, t.at))
      BY <1>1, <1>4, <3>2, <3>3, SecondaryGoes
    <3> QED BY <3>1, <3>4 DEF Live
  <2>6. CASE t.step = "knockouts"
    <3>1. PICK shift \in BOOLEAN : match' = PerformPendingKnockouts(w, t.at, shift)
      BY <2>6 DEF Fires, Results, Knockout
    <3> HIDE DEF w
    <3>2. KnockoutsAreOwed(w, t.at) /\ InHand(w)
      BY <1>4, <2>1, <2>6 DEF Ready, Continuing
    <3>3. Going(PerformPendingKnockouts(w, t.at, shift))
      BY <1>1, <1>4, <3>2, PerformKnockoutsGoes
    <3> QED BY <3>1, <3>3 DEF Live
  <2>7. CASE t.step = "grudge"
    <3>1. PICK b \in MoveOpenings : match' = PerformPendingGrudge(w, t.at, b)
      BY <2>7 DEF Fires, Results, Grudge
    <3> HIDE DEF w
    <3>2. /\ GrudgeIsAsked(w) /\ w.pendingGrudge.at = t.at /\ Room(w, 16)
          /\ w.pendingKnockouts = None /\ w.pendingGrudge.declared
      BY <1>4, <2>7 DEF Awaits, Ready
    <3>3. Going(PerformPendingGrudge(w, w.pendingGrudge.at, b))
      BY <1>1, <1>4, <3>2, GrudgeGoes
    <3> QED BY <3>1, <3>2, <3>3 DEF Live
  <2>8. CASE t.step = "opponent"
    <3>1. Awaits(w, "opponent") /\ Ready(w, "opponent", t.at)
      BY <1>4, <2>8
    <3>2. AtRest(w) /\ ~w.human /\ w.turn = "white"
      BY <1>1, <1>4, <3>1, OpponentRests
    <3> QED BY <1>0, <1>1, <2>8, <3>2, OwedCallGoes
  <2>9. CASE t.step = "opponent_grudge"
    <3>1. match' = IF w.pendingGrudge # None /\ w.pendingGrudge.at = t.at /\ ChoosesGrudge(w, "white")
                   THEN GrudgeChosen(w) ELSE w
      BY <2>9 DEF Fires, Results, OpponentGrudge
    <3> HIDE DEF w
    <3>2. Awaits(w, "opponent_grudge") /\ Ready(w, "opponent_grudge", t.at)
      BY <1>4, <2>9
    <3>3. /\ w.pendingGrudge # None /\ w.pendingGrudge.at = t.at
          /\ ChoosesGrudge(w, "white") => Going(GrudgeChosen(w))
          /\ ~ChoosesGrudge(w, "white") => Going(w)
      BY <1>1, <1>4, <3>2, OpponentGrudgeGoes
    <3> QED BY <3>1, <3>3 DEF Live
  <2>10. CASE t.step = "opponent_jump"
    <3>1. \/ LandsJump(w, "white") /\ \E n \in 0..1, goal \in BOOLEAN : match' = JumpLanded(w, n, goal)
          \/ ~(w.pendingJump # None /\ w.pendingJump.at = t.at /\ LandsJump(w, "white")) /\ match' = w
      BY <2>10 DEF Fires, Results, OpponentJump
    <3> HIDE DEF w
    <3>2. Awaits(w, "opponent_jump") /\ Ready(w, "opponent_jump", t.at)
      BY <1>4, <2>10
    <3>3. /\ w.pendingJump # None /\ w.pendingJump.at = t.at /\ JumpIsAsked(w) /\ w.pendingKnockouts = None
          /\ ~LandsJump(w, "white") => Going(w)
      BY <1>1, <1>4, <3>2, OpponentJumpGoes
    <3>4. ASSUME NEW n \in 0..1, NEW goal \in BOOLEAN PROVE Live(JumpLanded(w, n, goal))
      <4>1. n \in Nat
        OBVIOUS
      <4> QED BY <1>1, <1>4, <3>3, <4>1, JumpLandedGoes
    <3> QED BY <3>1, <3>3, <3>4 DEF Live
  <2>11. CASE t.step = "opponent_extra"
    <3>1. \/ TakesExtraBattle(w, "white", 52) /\ \E fights \in BOOLEAN : match' = ExtraBattleTaken(w, fights)
          \/ /\ ~(w.pendingExtraBattle # None /\ w.pendingExtraBattle.at = t.at /\ TakesExtraBattle(w, "white", 52))
             /\ match' = w
      BY <2>11 DEF Fires, Results, OpponentExtra
    <3> HIDE DEF w
    <3>2. Awaits(w, "opponent_extra") /\ Ready(w, "opponent_extra", t.at)
      BY <1>4, <2>11
    <3>3. /\ w.pendingExtraBattle # None /\ w.pendingExtraBattle.at = t.at
          /\ ExtraIsAsked(w) /\ w.pendingKnockouts = None
          /\ TakesExtraBattle(w, "white", 52) => Room(w, 53)
          /\ ~TakesExtraBattle(w, "white", 52) => Going(w)
      BY <1>1, <1>4, <3>2, OpponentExtraGoes
    <3>4. ASSUME TakesExtraBattle(w, "white", 52), NEW fights \in BOOLEAN
          PROVE  Going(ExtraBattleTaken(w, fights))
      BY <1>1, <1>4, <3>3, <3>4, ExtraTakenGoes
    <3> QED BY <3>1, <3>3, <3>4 DEF Live
  <2> QED BY <2>2, <2>3, <2>4, <2>5, <2>6, <2>7, <2>8, <2>9, <2>10, <2>11, <1>1 DEF Steps
<1> QED BY <1>2, <1>3, <1>4

-----------------------------------------------------------------------------
GoesOn == match.phase = "started" /\ ~match.late => Going(match)

LEMMA NextGoes ==
  ASSUME Typed(match), GoesOn, Next, WheelsAfterRespin = 0, RecordSuffices
  PROVE  match'.phase = "started" /\ ~match'.late => Going(match')
<1> SUFFICES ASSUME match'.phase = "started", ~match'.late
             PROVE  Going(match')
  OBVIOUS
<1>1. match \in Matches
  BY DEF Typed
<1>2. CASE \E side \in Clients : Plays(side)
  <2>1. PICK side \in Clients : Plays(side)
    BY <1>2
  <2>2. side \in Sides /\ ~Controlled(match, side)
    BY DEF Clients
  <2>3. Onward(match, match')
    BY <1>1, <2>1, <2>2, PlaysShape, ShapeOnward
  <2>4. Going(match)
    BY <2>3 DEF GoesOn, Onward
  <2> QED BY <2>1, <2>2, <2>4, PlaysGo DEF Live
<1>3. CASE \E side \in Clients : Resign(side)
  <2>1. match' = Finish(Grow(match, 1))
    BY <1>3 DEF Resign
  <2>2. Grow(match, 1) \in Matches
    BY <1>1, GrowCalm DEF Calm
  <2>3. Finish(Grow(match, 1)).phase = "decided"
    BY <2>2 DEF Finish, Matches
  <2> QED BY <2>1, <2>3
<1>4. CASE Decide
  <2>1. match' = Finish(match)
    BY <1>4 DEF Decide
  <2>2. Finish(match).phase = "decided"
    BY <1>1 DEF Finish, Matches
  <2> QED BY <2>1, <2>2
<1>5. CASE \E t \in match.timers : Fires(t)
  <2>1. PICK t \in match.timers : Fires(t)
    BY <1>5
  <2>2. Onward(Without(t), match')
    BY <1>1, <2>1, FiresShape, TimerOnward
  <2>3. Without(t).phase = match.phase /\ Without(t).late = match.late
    BY <1>1, WithoutIs
  <2>4. Going(match) /\ match.phase = "started"
    BY <2>2, <2>3 DEF GoesOn, Onward
  <2> QED BY <2>1, <2>4, FiresGo DEF Live
<1> QED BY <1>2, <1>3, <1>4, <1>5 DEF Next

LEMMA InitGoes ==
  ASSUME Init
  PROVE  Going(match)
<1>1. /\ match.timers = {} /\ match.pendingGrudge = None /\ match.pendingRespin = None
      /\ match.pendingJump = None /\ match.pendingExtraBattle = None /\ ~match.battleResolutionPending
      /\ match.turn = "black" /\ ~match.resolving /\ match.pendingKnockouts = None
      /\ match.cut = 0 /\ match.len = 0 /\ match.activeBattleResolution = None
  BY DEF Init
<1>2. Single(match) /\ Spent(match, match.timers) /\ NoChoicePending(match)
  BY <1>1 DEF Single, Spent, NoChoicePending
<1>3. ~Controlled(match, match.turn)
  BY <1>1 DEF Controlled
<1>4. Sane(match)
  BY <1>1, <1>3 DEF Sane
<1>5. Open(match)
  BY <1>1, <1>3 DEF Open, Asks, Settled
<1> QED BY <1>2, <1>4, <1>5 DEF Going

LEMMA GoesOnAlways ==
  ASSUME WheelsAfterRespin = 0, RecordSuffices
  PROVE  Spec => [](IInv /\ GoesOn)
<1>1. Init => GoesOn
  BY InitGoes DEF GoesOn
<1>2. IInv /\ GoesOn /\ [Next]_vars => GoesOn'
  <2>1. ASSUME IInv, GoesOn, Next PROVE GoesOn'
    <3>1. match'.phase = "started" /\ ~match'.late => Going(match')
      BY <2>1, NextGoes DEF IInv
    <3> QED BY <3>1 DEF GoesOn
  <2>2. ASSUME GoesOn, UNCHANGED vars PROVE GoesOn'
    BY <2>2 DEF vars, GoesOn
  <2> QED BY <2>1, <2>2
<1> QED BY <1>1, <1>2, Invariance, PTL DEF Spec

-----------------------------------------------------------------------------
\* A callback that is owed does something: the record grows, the turn changes or
\* the match is decided.
Plain == [wheels |-> 0, faint |-> 0, jumper |-> "black", landing |-> FALSE, extra |-> FALSE]
Moves == [goal |-> FALSE, grudge |-> FALSE, plate |-> FALSE, battles |-> "none", touch |-> FALSE]

LEMMA PlainIs ==
  /\ Plain \in Outcomes /\ Plain.wheels = 0 /\ Plain.wheels <= WheelsAfterRespin
  /\ Offered(Plain)
<1>1. Plain \in [wheels : {0}, faint : {0}, jumper : Sides, landing : {FALSE}, extra : {FALSE}]
  BY DEF Plain, Sides
<1>2. Plain.wheels = 0
  BY DEF Plain
<1>3. Plain \in Outcomes
  BY <1>1 DEF Outcomes
<1> HIDE DEF Plain
<1>4. Plain.wheels <= WheelsAfterRespin
  BY <1>2, EngineAssumption
<1> QED BY <1>2, <1>3, <1>4 DEF Offered

LEMMA MovesIs ==
  Moves \in MoveOpenings /\ ~Moves.goal /\ ~Moves.grudge
<1>1. Moves \in Openings
  BY DEF Moves, Openings, Battles
<1>2. ~Moves.goal /\ ~Moves.grudge /\ ~Moves.plate /\ ~Moves.touch
  BY DEF Moves
<1> QED BY <1>1, <1>2 DEF MoveOpenings

\* The opponent's call, where there is room for its turn.
LEMMA PlayedIsNew ==
  ASSUME NEW m \in Matches, NEW b \in MoveOpenings, AtRest(m), m.phase = "started", m.turn = "white",
         m.done < MaxCompletions, Room(m, 64)
  PROVE  LET n == PlayOpponentTurn(m, "cancelled", b)
         IN n \in Matches /\ (n.turn # m.turn \/ n.phase # m.phase)
<1> DEFINE g == Grow(m, 1)
           plan == Plan(m, m.len, 1)
           c == CompleteTurn(g, "white", plan)
           n == PlayOpponentTurn(m, "cancelled", b)
<1>1. ~m.battleResolutionPending /\ m.pendingRespin = None /\ m.cut <= m.len
  BY DEF AtRest, NoChoicePending
<1>2. n = (IF m.pendingTouch THEN OpponentLater(c)
           ELSE IF m.pendingBattles # "none" THEN c ELSE Finish(m))
  BY <1>1 DEF PlayOpponentTurn
<1>3. c.turn = "black" /\ c \in Matches
  <2>1. m.len \in Nat /\ m.cut \in Nat /\ g \in Matches /\ Grown(m, g, 1) /\ "white" \in Sides
    <3>1. m.len \in Nat /\ m.cut \in Nat /\ "white" \in Sides
      BY DEF Matches, Sides
    <3> QED BY <3>1, GrowGrown
  <2>2. Fits(m, plan)
    BY <1>1, <2>1, PlanFits DEF InTurn
  <2> HIDE DEF g
  <2>3. c \in Matches /\ c.turn = Other("white")
    BY <2>1, <2>2, EndedGoes
  <2> QED BY <2>3 DEF Other
<1> HIDE DEF c
<1>4. OpponentLater(c).turn = c.turn /\ OpponentLater(c) \in Matches
  <2>1. OpponentLater(c).turn = c.turn
    BY <1>3 DEF OpponentLater, Later, Matches
  <2>2. OpponentLater(c) \in Matches
    BY <1>3, OpponentLaterCalm DEF Calm
  <2> QED BY <2>1, <2>2
<1>5. Finish(m).phase # m.phase /\ Finish(m) \in Matches
  <2>1. Finish(m).phase # "started"
    BY FinishedLives
  <2>2. Finish(m) \in Matches
    BY FinishCalm DEF Calm
  <2> QED BY <2>1, <2>2
<1> HIDE DEF n
<1> QED BY <1>2, <1>3, <1>4, <1>5 DEF n

LEMMA CallIsNew ==
  ASSUME match \in Matches, NEW t \in match.timers, t.step = "opponent", t.turns = match.done,
         AtRest(Without(t)), Without(t).phase = "started", Without(t).turn = "white",
         Without(t).done < MaxCompletions, Room(Without(t), 64)
  PROVE  \E n \in Results(t) : n # Without(t)
<1> DEFINE w == Without(t)
           played == PlayOpponentTurn(w, "cancelled", Moves)
           n == [played EXCEPT !.late = @ \/ (Late(t) /\ played # w)]
<1>1. w \in Matches
  BY WithoutIs
<1>2. n \in Results(t)
  BY MovesIs DEF Results, Opponent
<1> HIDE DEF w
<1>3. played \in Matches /\ (played.turn # w.turn \/ played.phase # w.phase)
  BY <1>1, MovesIs, PlayedIsNew DEF w
<1> HIDE DEF played
<1>4. n.turn = played.turn /\ n.phase = played.phase
  BY <1>3 DEF Matches
<1> QED BY <1>2, <1>3, <1>4 DEF w, played

\* The step that is owed is taken, or the opponent has no room for its answer.
StepIsTaken(t) ==
  \/ \E n \in Results(t) : n # Without(t)
  \/ /\ NoRoom(Without(t))
     /\ Controlled(Without(t), Without(t).turn) \/ Controlled(Without(t), SelectionSide(Without(t)))

LEMMA BattleStepIsTaken ==
  ASSUME Typed(match), match.phase = "started", RecordSuffices, NEW t \in match.timers,
         Spent(Without(t), Without(t).timers), Single(Without(t)), Sane(Without(t)),
         Awaits(Without(t), t.step), Ready(Without(t), t.step, t.at),
         t.step \in {"resolve", "spin", "respin", "secondary", "knockouts", "grudge"}
  PROVE  \E n \in Results(t) : n.len > Without(t).len
<1> DEFINE w == Without(t)
<1>1. w \in Matches /\ Typed(w) /\ t.at \in Nat
  <2>1. match \in Matches
    BY DEF Typed
  <2> QED BY <2>1, WithoutIs, WithoutTyped
<1>2. t.step \in Continuing => Undecided(w) /\ w.battleResolutionPending /\ InHand(w)
  BY DEF Awaits, Undecided, InHand
<1>3. CASE t.step = "resolve"
  <2>1. ResolveBattle(w, t.at, 1, Plain) \in Results(t)
    BY <1>3, PlainIs DEF Results, Resolve
  <2> HIDE DEF w
  <2>2. /\ BattleIsDeclared(w, t.at) /\ ~w.activeBattleDeclaration.started /\ Room(w, 52)
        /\ w.pendingKnockouts = None
    BY <1>3 DEF Ready, w
  <2>3. Undecided(w) /\ w.battleResolutionPending /\ 1 \in 0..2
    BY <1>2, <1>3 DEF Continuing
  <2>4. ResolveBattle(w, t.at, 1, Plain).len > w.len
    BY <1>1, <2>2, <2>3, PlainIs, ResolveGoes DEF w
  <2> QED BY <2>1, <2>4 DEF w
<1>4. CASE t.step = "spin"
  <2>1. PerformBattleSpin(w, t.at, Plain) \in Results(t)
    BY <1>4, PlainIs DEF Results, Spin
  <2> HIDE DEF w
  <2>2. BattleIsDeclared(w, t.at) /\ Room(w, 50) /\ w.pendingKnockouts = None
    BY <1>4 DEF Ready, w
  <2>3. Undecided(w) /\ w.battleResolutionPending
    BY <1>2, <1>4 DEF Continuing
  <2>4. PerformBattleSpin(w, t.at, Plain).len > w.len
    BY <1>1, <2>2, <2>3, PlainIs, PerformSpinGoes DEF w
  <2> QED BY <2>1, <2>4 DEF w
<1>5. CASE t.step = "respin"
  <2>1. PerformPendingRespin(w, Plain) \in Results(t)
    BY <1>5, PlainIs DEF Results, Respin
  <2> HIDE DEF w
  <2>2. RespinIsAsked(w) /\ Room(w, 48) /\ w.pendingKnockouts = None /\ w.pendingRespin.declared
    BY <1>5 DEF Awaits, Ready, w
  <2>3. PerformPendingRespin(w, Plain).len > w.len
    BY <1>1, <2>2, PlainIs, RespinGoes DEF w
  <2> QED BY <2>1, <2>3 DEF w
<1>6. CASE t.step = "secondary"
  <2>1. PerformSecondarySpins(w, t.at) \in Results(t)
    BY <1>6 DEF Results, Secondary
  <2> HIDE DEF w
  <2>2. WheelsAreOwed(w, t.at) /\ w.pendingKnockouts = None
    BY <1>6 DEF Ready, w
  <2>3. Undecided(w) /\ w.battleResolutionPending
    BY <1>2, <1>6 DEF Continuing
  <2>4. PerformSecondarySpins(w, t.at).len > w.len
    BY <1>1, <2>2, <2>3, SecondaryGoes DEF w
  <2> QED BY <2>1, <2>4 DEF w
<1>7. CASE t.step = "knockouts"
  <2>1. PerformPendingKnockouts(w, t.at, FALSE) \in Results(t)
    BY <1>7 DEF Results, Knockout
  <2> HIDE DEF w
  <2>2. KnockoutsAreOwed(w, t.at) /\ InHand(w)
    BY <1>2, <1>7 DEF Ready, Continuing, w
  <2>3. PerformPendingKnockouts(w, t.at, FALSE).len > w.len
    BY <1>1, <2>2, PerformKnockoutsGoes DEF w
  <2> QED BY <2>1, <2>3 DEF w
<1>8. CASE t.step = "grudge"
  <2>1. PerformPendingGrudge(w, t.at, Moves) \in Results(t)
    BY <1>8, MovesIs DEF Results, Grudge
  <2> HIDE DEF w
  <2>2. /\ GrudgeIsAsked(w) /\ w.pendingGrudge.at = t.at /\ Room(w, 16)
        /\ w.pendingKnockouts = None /\ w.pendingGrudge.declared
    BY <1>8 DEF Awaits, Ready, w
  <2>3. PerformPendingGrudge(w, w.pendingGrudge.at, Moves).len > w.len
    BY <1>1, <2>2, MovesIs, GrudgeGoes DEF w
  <2> QED BY <2>1, <2>2, <2>3 DEF w
<1> QED BY <1>3, <1>4, <1>5, <1>6, <1>7, <1>8

LEMMA LandingIsResult ==
  ASSUME NEW t, t.step = "opponent_jump", LandsJump(Without(t), "white"), NEW n \in 0..1,
         NEW goal \in BOOLEAN, Without(t).pendingJump # None, Without(t).pendingJump.at = t.at
  PROVE  JumpLanded(Without(t), n, goal) \in Results(t)
<1>1. JumpLanded(Without(t), n, goal) \in OpponentJump(t)
  BY DEF OpponentJump
<1>2. Results(t) = OpponentJump(t)
  BY DEF Results
<1> QED BY <1>1, <1>2

LEMMA AnswerIsTaken ==
  ASSUME Typed(match), match.phase = "started", NEW t \in match.timers, t.turns = match.done,
         Spent(Without(t), Without(t).timers), Single(Without(t)), Sane(Without(t)),
         Awaits(Without(t), t.step), Ready(Without(t), t.step, t.at),
         t.step \in {"opponent", "opponent_grudge", "opponent_jump", "opponent_extra"}
  PROVE  StepIsTaken(t) /\ Controlled(Without(t), SelectionSide(Without(t)))
<1> DEFINE w == Without(t)
<1>0. match \in Matches
  BY DEF Typed
<1>1. w \in Matches /\ w.phase = "started"
  BY <1>0, WithoutIs
<1>2. CASE t.step = "opponent"
  <2>1. /\ AtRest(w) /\ ~w.human /\ w.turn = "white"
        /\ Controlled(w, SelectionSide(w)) /\ Controlled(w, w.turn)
    BY <1>1, <1>2, OpponentRests
  <2>2. CASE NoRoom(w)
    BY <2>1, <2>2 DEF StepIsTaken
  <2>3. CASE ~NoRoom(w)
    <3>1. w.done < MaxCompletions /\ Room(w, 64)
      <4>1. w.done \in Nat /\ w.len \in Nat /\ MaxCompletions \in Nat /\ Capacity \in Nat
        BY <1>1, EngineAssumption DEF Matches
      <4> HIDE DEF w
      <4> QED BY <2>3, <4>1 DEF NoRoom, Room
    <3>2. \E n \in Results(t) : n # w
      BY <1>0, <1>1, <1>2, <2>1, <3>1, CallIsNew
    <3> QED BY <2>1, <3>2 DEF StepIsTaken
  <2> QED BY <2>2, <2>3
<1>3. CASE t.step = "opponent_grudge"
  <2>1. Results(t) = IF w.pendingGrudge # None /\ w.pendingGrudge.at = t.at /\ ChoosesGrudge(w, "white")
                     THEN {GrudgeChosen(w)} ELSE {w}
    BY <1>3 DEF Results, OpponentGrudge
  <2>2. /\ w.pendingGrudge # None /\ w.pendingGrudge.at = t.at /\ Controlled(w, SelectionSide(w))
        /\ ChoosesGrudge(w, "white") => GrudgeChosen(w).len > w.len
        /\ ~ChoosesGrudge(w, "white") => NoRoom(w)
    BY <1>1, <1>3, OpponentGrudgeGoes
  <2>3. w.len \in Nat
    BY <1>1 DEF Matches
  <2> HIDE DEF w
  <2>4. ChoosesGrudge(w, "white") => GrudgeChosen(w) # w
    BY <2>2, <2>3
  <2> QED BY <2>1, <2>2, <2>4 DEF StepIsTaken, w
<1>4. CASE t.step = "opponent_jump"
  <2>1. LandsJump(w, "white") /\ w.pendingJump # None /\ w.pendingJump.at = t.at
          => JumpLanded(w, 0, TRUE) \in Results(t)
    <3>1. 0 \in 0..1 /\ TRUE \in BOOLEAN
      OBVIOUS
    <3> QED BY <1>4, <3>1, LandingIsResult
  <2>2. /\ w.pendingJump # None /\ w.pendingJump.at = t.at /\ Controlled(w, SelectionSide(w))
        /\ JumpIsAsked(w) /\ w.pendingKnockouts = None
        /\ ~LandsJump(w, "white") => NoRoom(w)
    BY <1>1, <1>4, OpponentJumpGoes
  <2>3. JumpLanded(w, 0, TRUE).phase # "started"
    BY <1>1, <2>2, JumpLandedGoes
  <2> HIDE DEF w
  <2>4. JumpLanded(w, 0, TRUE) # w
    BY <1>1, <2>3
  <2> QED BY <2>1, <2>2, <2>4 DEF StepIsTaken, w
<1>5. CASE t.step = "opponent_extra"
  <2>1. TakesExtraBattle(w, "white", 52) /\ w.pendingExtraBattle # None /\ w.pendingExtraBattle.at = t.at
          => ExtraBattleTaken(w, FALSE) \in Results(t)
    BY <1>5 DEF Results, OpponentExtra
  <2>2. /\ w.pendingExtraBattle # None /\ w.pendingExtraBattle.at = t.at
        /\ Controlled(w, SelectionSide(w)) /\ ExtraIsAsked(w) /\ w.pendingKnockouts = None
        /\ TakesExtraBattle(w, "white", 52) => Room(w, 53)
        /\ ~TakesExtraBattle(w, "white", 52) => NoRoom(w)
    BY <1>1, <1>5, OpponentExtraGoes
  <2>3. TakesExtraBattle(w, "white", 52) => ExtraBattleTaken(w, FALSE).len > w.len
    BY <1>1, <2>2, ExtraTakenGoes
  <2>4. w.len \in Nat
    BY <1>1 DEF Matches
  <2> HIDE DEF w
  <2>5. TakesExtraBattle(w, "white", 52) => ExtraBattleTaken(w, FALSE) # w
    <3> DEFINE e == ExtraBattleTaken(w, FALSE)
    <3>1. TakesExtraBattle(w, "white", 52) => e.len > w.len
      BY <2>3
    <3> HIDE DEF e
    <3>2. TakesExtraBattle(w, "white", 52) => e # w
      BY <2>4, <3>1
    <3> QED BY <3>2 DEF e
  <2> QED BY <2>1, <2>2, <2>5 DEF StepIsTaken, w
<1> QED BY <1>2, <1>3, <1>4, <1>5

\* A callback that is owed: the server owes it, and it is in its turn.
LEMMA OwedIsTaken ==
  ASSUME Typed(match), match.phase = "started", ~match.late, RecordSuffices, Single(match), Sane(match),
         NEW t \in match.timers, Spent(match, match.timers \ {t}), t.turns = match.done,
         Awaits(match, t.step), Ready(match, t.step, t.at)
  PROVE  Owes /\ (OwedStep \/ (Full /\ (Controlled(match, match.turn) \/ Controlled(match, SelectionSide(match)))))
<1> DEFINE w == Without(t)
<1>1. match \in Matches
  BY DEF Typed
<1>2. w \in Matches /\ t.step \in Steps /\ Alike(match, w) /\ w.timers = match.timers \ {t}
  BY <1>1, WithoutIs, WithoutAlike
<1>3. /\ w.human = match.human /\ w.done = match.done /\ w.turn = match.turn
      /\ w.pendingRespin = match.pendingRespin /\ w.pendingGrudge = match.pendingGrudge
      /\ w.pendingJump = match.pendingJump /\ w.pendingExtraBattle = match.pendingExtraBattle
  BY <1>1, WithoutKeeps
<1>4. Spent(w, w.timers) /\ Single(w) /\ Sane(w) /\ Awaits(w, t.step) /\ Ready(w, t.step, t.at)
  <2> HIDE DEF w
  <2>1. Single(w) /\ Sane(w) /\ Awaits(w, t.step) /\ Ready(w, t.step, t.at)
    BY <1>2, AlikeGoes
  <2> QED BY <1>2, <1>3, <2>1 DEF Spent
<1>5. ~Late(t)
  BY DEF Late
<1>6. /\ SelectionSide(w) = SelectionSide(match)
      /\ \A side : Controlled(w, side) <=> Controlled(match, side)
      /\ NoRoom(w) => Full
  <2> HIDE DEF w
  <2>1. SelectionSide(w) = SelectionSide(match)
    BY <1>3 DEF SelectionSide
  <2>2. w.len = match.len /\ w.done = match.done
    BY <1>2 DEF Alike, Same
  <2>3. NoRoom(w) => Full
    BY <2>2 DEF NoRoom, Full, Room
  <2> QED BY <1>3, <2>1, <2>3 DEF Controlled
<1>7. CASE t.step \in {"resolve", "spin", "respin", "secondary", "knockouts", "grudge"}
  <2>1. Owes
    BY <1>7 DEF Owes, Awaits, Continuing, Undecided
  <2>2. PICK n \in Results(t) : n.len > w.len
    BY <1>4, <1>7, BattleStepIsTaken
  <2>3. n # w
    <3>1. w.len \in Nat
      BY <1>2 DEF Matches
    <3> HIDE DEF w
    <3> QED BY <2>2, <3>1
  <2>4. OwedStep
    BY <1>5, <2>3 DEF OwedStep
  <2> QED BY <2>1, <2>4
<1>8. CASE t.step \in {"opponent", "opponent_grudge", "opponent_jump", "opponent_extra"}
  <2>1. StepIsTaken(t) /\ Controlled(w, SelectionSide(w))
    BY <1>4, <1>8, AnswerIsTaken
  <2>2. Owes
    BY <1>6, <2>1 DEF Owes
  <2>3. CASE \E n \in Results(t) : n # w
    BY <1>5, <2>2, <2>3 DEF OwedStep
  <2>4. CASE ~\E n \in Results(t) : n # w
    <3>1. NoRoom(w) /\ (Controlled(w, w.turn) \/ Controlled(w, SelectionSide(w)))
      BY <2>1, <2>4 DEF StepIsTaken
    <3> HIDE DEF w
    <3> QED BY <1>3, <1>6, <2>2, <3>1
  <2> QED BY <2>3, <2>4
<1> QED BY <1>2, <1>7, <1>8 DEF Steps

\* No callback is owed: the side that is to choose has a choice, or it is the
\* training opponent, which has found no room.
LEMMA OpenIsPlayed ==
  ASSUME match \in Matches, match.phase = "started", ~LeftOpen, Open(match), Single(match)
  PROVE  \/ ~Owes /\ (Full \/ \E side \in Clients : MayPlay(side))
         \/ Full /\ Controlled(match, SelectionSide(match))
<1> DEFINE side == SelectionSide(match)
<1>1. ~match.resolving /\ match.pendingKnockouts = None
  BY DEF Open
<1>2. /\ match.done \in Nat /\ match.len \in Nat /\ Capacity \in Nat /\ MaxCompletions \in Nat
      /\ match.turn \in Sides
  BY EngineAssumption DEF Matches
<1>3. ~Full => /\ match.done < MaxCompletions /\ Room(match, 1 + 52)
               /\ Room(match, 1 + 39) /\ Room(match, 1 + 64)
  BY <1>2 DEF Full, Room
<1>4. NoRoom(match) <=> Full
  BY DEF NoRoom, Full
<1>5. CASE NoChoicePending(match)
  <2>1. side = match.turn /\ match.pendingRespin = None /\ match.pendingGrudge = None
        /\ ~match.battleResolutionPending
    BY <1>5 DEF SelectionSide, NoChoicePending
  <2>2. Controlled(match, side) => Full
    BY <1>4, <1>5, <2>1 DEF Open, Asks
  <2>3. ASSUME ~Controlled(match, side)
        PROVE  ~Owes /\ (Full \/ \E s \in Clients : MayPlay(s))
    <3>1. ~Owes
      BY <1>1, <2>1, <2>3 DEF Owes
    <3>2. ~Full => MayDeclare(match, side, FALSE)
      BY <1>1, <1>3, <1>5, <2>1 DEF MayDeclare, Admits
    <3>3. side \in Clients
      BY <1>2, <2>1, <2>3 DEF Clients
    <3> HIDE DEF side
    <3> QED BY <3>1, <3>2, <3>3 DEF MayPlay
  <2> QED BY <2>2, <2>3
<1>6. CASE match.pendingGrudge # None
  <2>1. /\ GrudgeIsAsked(match) /\ ~match.pendingGrudge.declared
        /\ Asks(match, match.pendingGrudge.side)
    BY <1>6 DEF Open
  <2>2. side = match.pendingGrudge.side /\ match.pendingRespin = None /\ ~match.battleResolutionPending
    BY <1>6, <2>1 DEF SelectionSide, Single
  <2>3. Controlled(match, side) => Full
    BY <1>4, <2>1, <2>2 DEF Asks
  <2>4. ASSUME ~Controlled(match, side)
        PROVE  ~Owes /\ (Full \/ \E s \in Clients : MayPlay(s))
    <3>1. ~Owes
      BY <1>1, <2>1, <2>2, <2>4 DEF Owes
    <3>2. ~Full => ChoosesGrudge(match, side)
      BY <1>1, <1>3, <1>6, <2>1, <2>2 DEF ChoosesGrudge, Admits, GrudgeIsAsked
    <3>3. side \in Clients
      BY <1>2, <2>1, <2>2, <2>4 DEF Clients, GrudgeIsAsked
    <3> HIDE DEF side
    <3> QED BY <3>1, <3>2, <3>3 DEF MayPlay
  <2> QED BY <2>3, <2>4
<1>7. CASE match.pendingRespin # None
  <2>1. RespinIsAsked(match) /\ ~match.pendingRespin.declared
    BY <1>7 DEF Open
  <2>2. match.pendingGrudge = None /\ ~Controlled(match, match.pendingRespin.side)
        /\ match.pendingRespin.side = match.turn
    BY <2>1 DEF RespinIsAsked
  <2>3. side = match.pendingRespin.side
    BY <1>7, <2>2 DEF SelectionSide
  <2>4. ~Owes
    BY <1>1, <1>7, <2>1, <2>2, <2>3 DEF Owes
  <2>5. ~Full => ChoosesRespin(match, side, 39)
    BY <1>1, <1>3, <1>7, <2>1 DEF ChoosesRespin, Admits
  <2>6. side \in Clients
    BY <1>2, <2>2, <2>3 DEF Clients
  <2> HIDE DEF side
  <2> QED BY <2>4, <2>5, <2>6 DEF MayPlay
<1>8. CASE match.pendingJump # None
  <2> DEFINE p == match.pendingJump
  <2>1. JumpIsAsked(match) /\ p.landing /\ Asks(match, p.side)
    BY <1>8 DEF Open, LeftOpen
  <2>2. /\ match.pendingGrudge = None /\ p.at = match.len /\ p.spin >= match.cut /\ InTurn(match)
        /\ CurrentBattleResolution(match, p.spin, "applying")
    BY <2>1 DEF JumpIsAsked, Applying
  <2>3. match.pendingRespin = None /\ p.side \in Sides /\ p.spin \in Nat
    BY <1>8 DEF Single, Matches, Jumps
  <2>4. side = p.side
    BY <1>8, <2>2, <2>3 DEF SelectionSide
  <2>5. Controlled(match, side) => Full
    BY <1>4, <2>1, <2>4 DEF Asks
  <2>6. ASSUME ~Controlled(match, side)
        PROVE  ~Owes /\ (Full \/ \E s \in Clients : MayPlay(s))
    <3>1. ~Owes
      BY <1>1, <1>8, <2>2, <2>3, <2>6 DEF Owes
    <3>2. Fits(match, Plan(match, p.spin, 1))
      BY <2>2, <2>3, PlanFits
    <3>3. ~Full => LandsJump(match, side)
      BY <1>1, <1>3, <1>8, <2>1, <2>2, <2>3, <3>2 DEF LandsJump, Admits
    <3>4. side \in Clients
      BY <2>3, <2>4, <2>6 DEF Clients
    <3> HIDE DEF side
    <3> QED BY <3>1, <3>3, <3>4 DEF MayPlay
  <2> QED BY <2>5, <2>6
<1>9. CASE match.pendingExtraBattle # None
  <2> DEFINE p == match.pendingExtraBattle
  <2>1. ExtraIsAsked(match) /\ p.choices /\ Asks(match, p.side)
    BY <1>9 DEF Open, LeftOpen
  <2>2. /\ match.pendingGrudge = None /\ p.at = match.len /\ p.spin >= match.cut /\ InTurn(match)
        /\ CurrentBattleResolution(match, p.spin, "applying")
    BY <2>1 DEF ExtraIsAsked, Applying
  <2>3. /\ match.pendingRespin = None /\ match.pendingJump = None
        /\ p.side \in Sides /\ p.spin \in Nat
    BY <1>9 DEF Single, Matches, ExtraBattles
  <2>4. side = p.side
    BY <1>9, <2>2, <2>3 DEF SelectionSide
  <2>5. Controlled(match, side) => Full
    BY <1>4, <2>1, <2>4 DEF Asks
  <2>6. ASSUME ~Controlled(match, side)
        PROVE  ~Owes /\ (Full \/ \E s \in Clients : MayPlay(s))
    <3>1. ~Owes
      BY <1>1, <1>9, <2>2, <2>3, <2>6 DEF Owes
    <3>2. Fits(match, Plan(match, p.spin, 1))
      BY <2>2, <2>3, PlanFits
    <3>3. ~Full => TakesExtraBattle(match, side, 52)
      BY <1>1, <1>3, <1>9, <2>1, <2>2, <2>3, <3>2 DEF TakesExtraBattle, Admits
    <3>4. side \in Clients
      BY <2>3, <2>4, <2>6 DEF Clients
    <3> HIDE DEF side
    <3> QED BY <3>1, <3>3, <3>4 DEF MayPlay
  <2> QED BY <2>5, <2>6
<1>10. NoChoicePending(match) \/ ~Undecided(match)
  BY DEF Open, NoChoicePending, Undecided
<1> QED BY <1>5, <1>6, <1>7, <1>8, <1>9, <1>10 DEF Undecided

\* In both variants and as long as the match is played, somebody can always go
\* on: while the server owes a step, a callback that has not been called takes
\* it, with the room in the record that its input reserved; otherwise the side
\* that is to choose has a choice that is admitted.  Excepted are a choice the
\* code leaves open, a record that is full and the turns after a late call of
\* the training opponent.  The wheels and the figures of a battle are within
\* what a declaration reserves (RecordSuffices); no wheel is owed after a respin.
THEOREM SomebodyGoesOn ==
  ASSUME WheelsAfterRespin = 0, RecordSuffices
  PROVE  Spec => []NobodyIsStuck
<1>1. IInv /\ GoesOn => NobodyIsStuck
  <2> SUFFICES ASSUME IInv, GoesOn, match.phase = "started", ~LeftOpen, ~match.late
               PROVE  \/ IF Owes THEN OwedStep ELSE \E side \in Clients : MayPlay(side)
                      \/ Full /\ (~Owes \/ Controlled(match, match.turn) \/ Controlled(match, SelectionSide(match)))
    BY DEF NobodyIsStuck
  <2>1. Typed(match) /\ match \in Matches /\ Going(match)
    BY DEF IInv, Typed, GoesOn
  <2>2. CASE Spent(match, match.timers) /\ Open(match)
    <3>1. \/ ~Owes /\ (Full \/ \E side \in Clients : MayPlay(side))
          \/ Full /\ Controlled(match, SelectionSide(match))
      BY <2>1, <2>2, OpenIsPlayed DEF Going
    <3> QED BY <3>1
  <2>3. ASSUME NEW t \in match.timers, Spent(match, match.timers \ {t}), t.turns = match.done,
               Awaits(match, t.step), Ready(match, t.step, t.at)
        PROVE  \/ IF Owes THEN OwedStep ELSE \E side \in Clients : MayPlay(side)
               \/ Full /\ (~Owes \/ Controlled(match, match.turn) \/ Controlled(match, SelectionSide(match)))
    <3>1. Owes /\ (OwedStep \/ (Full /\ (Controlled(match, match.turn) \/ Controlled(match, SelectionSide(match)))))
      BY <2>1, <2>3, OwedIsTaken DEF Going
    <3> QED BY <3>1
  <2> QED BY <2>1, <2>2, <2>3 DEF Going
<1> QED BY <1>1, GoesOnAlways, PTL
=============================================================================
