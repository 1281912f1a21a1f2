------------------------------- MODULE Center -------------------------------
(***************************************************************************)
(* Where the figures of a match stand (custom-match-engine.mjs): on a      *)
(* point of the field, on their own place of the bench, in the two places  *)
(* of their side's Center, or in their own place out of the game.          *)
(*                                                                         *)
(* A knocked-out figure enters the upper place of its Center; the one that *)
(* was there goes down, and the lower one, if the Center is full, returns  *)
(* to the bench with Wait 2.  Several figures knocked out by one battle    *)
(* leave the field one at a time, by delayed steps: the engine picks who   *)
(* is next and first makes room, a step for each figure that has to move.  *)
(* Figures and places have the numbers of the code, for any number of      *)
(* points and figures.  Who may go where, who is surrounded and what an    *)
(* attack does is chosen freely: geometry and skills are left out.         *)
(***************************************************************************)
EXTENDS Integers, FiniteSets, Sequences, Functions

CONSTANTS Blacks, Whites,   \* how many figures each side has
          Field,            \* how many points the field has
          Immune,           \* those whose ability keeps a Wait off
          AttackWaits,      \* the Waits an attack gives to those it knocks out
          MostFallen,       \* bound: how many figures a movement surrounds
          Nobody

Figures == 0..(Blacks + Whites - 1)
SameSide(p, q) == (p < Blacks) = (q < Blacks)

ASSUME BoardAssumption == /\ Blacks \in Nat \ {0} /\ Whites \in Nat \ {0} /\ Field \in Nat /\ Immune \subseteq Nat
                          /\ AttackWaits \subseteq Nat /\ MostFallen \in Nat
                          /\ Nobody \notin Nat
                          /\ Nobody \notin [left : SUBSET Figures, pick : Figures, opponent : Figures,
                                            step : {"remove", "bench", "shift", "knockout"}]

Points == 0..(Field - 1)
Bench(p) == Field + p
Lower(p) == Field + Blacks + Whites + IF p < Blacks THEN 0 ELSE 2
Upper(p) == Lower(p) + 1
Out(p) == Field + Blacks + Whites + 4 + p

VARIABLES
  board,    \* pos and wait of each figure; those that are faint, cursed, or have
            \* battled since they entered the field (battledAfterField)
  mover,    \* the figure whose turn is still open: it moved, or fights, or has leapt
  extra,    \* pendingExtraBattle: it has leapt, and may battle once more
  staged,   \* pendingKnockouts: who is still to leave, who is next, and its step
  start,    \* the board when the knockouts were staged
  order     \* who has left since
centerVars == <<board, mover, extra, staged, start, order>>

At(b, place) == IF place \in Range(b.pos) THEN CHOOSE q \in Figures : b.pos[q] = place ELSE Nobody
OnField(b) == {p \in Figures : b.pos[p] \in Points}
Free(b) == Points \ Range(b.pos)

-----------------------------------------------------------------------------
(***************************************************************************)
(* planKnockoutRelocations and applyKnockoutRelocation.                     *)
(***************************************************************************)
Sinking(b, p) == IF p \in b.cursed THEN Nobody ELSE At(b, Upper(p))
Released(b, p) == IF Sinking(b, p) = Nobody THEN Nobody ELSE At(b, Lower(p))

\* No place the step needs is taken.
Fits(b, p) ==
  /\ LET q == Released(b, p) IN q # Nobody => At(b, Bench(q)) = Nobody
  /\ p \in b.cursed => At(b, Out(p)) = Nobody

\* What a figure got on the field stays behind.
Cleared(b, p) == [b EXCEPT !.faint = @ \ {p}, !.cursed = @ \ {p}, !.battled = @ \ {p}]

Freed(b, p) ==
  LET q == Released(b, p)
  IN IF q = Nobody THEN b ELSE [Cleared(b, q) EXCEPT !.pos[q] = Bench(q), !.wait[q] = IF q \in Immune THEN @ ELSE 2]
Sunk(b, p) ==
  LET q == Sinking(b, p) IN IF q = Nobody THEN b ELSE [b EXCEPT !.pos[q] = Lower(p)]

\* Mutant: a curse stays on the figure it removed.
RelocatedCursed(b, p) ==
  IF p \in b.cursed THEN [b EXCEPT !.faint = @ \ {p}, !.pos[p] = Out(p), !.wait[p] = 0]
  ELSE [Cleared(Sunk(Freed(b, p), p), p) EXCEPT !.pos[p] = Upper(p)]
Relocated(b, p) ==
  IF p \in b.cursed THEN [Cleared(b, p) EXCEPT !.pos[p] = Out(p), !.wait[p] = 0]
  ELSE [Cleared(Sunk(Freed(b, p), p), p) EXCEPT !.pos[p] = Upper(p)]

\* The board after each of the steps, one target after the other.
Boards(b, targets) ==
  LET after[n \in 0..Len(targets)] == IF n = 0 THEN b ELSE Relocated(after[n - 1], targets[n])
  IN after
Batch(b, targets) == Boards(b, targets)[Len(targets)]

\* Each step is planned on the board the ones before it leave.
Plannable(b, targets) ==
  \A n \in 1..Len(targets) :
    LET now == Boards(b, targets)[n - 1] IN
    /\ IsInjective(now.pos)
    /\ targets[n] \in OnField(now) \cap now.faint /\ Fits(now, targets[n])

Fainted(b, set) == [b EXCEPT !.faint = @ \cup set]

\* planMovementSurround and applyMovementSurround: the surrounded figures fall
\* together, in the order of their numbers.  (Where an attack names another
\* order, it is that of two opponents, who enter different Centers.)
InOrder(set) == CHOOSE targets \in [1..Cardinality(set) -> set] :
                  \A i, j \in DOMAIN targets : i < j => targets[i] < targets[j]
Surrounds(b) == {set \in SUBSET OnField(b) :
                   Cardinality(set) <= MostFallen /\ Plannable(Fainted(b, set), InOrder(set))}
Surrounded(b, set) == Batch(Fainted(b, set), InOrder(set))
Surroundings(boards) == UNION {{Surrounded(b, set) : set \in Surrounds(b)} : b \in boards}

\* A movement that enters the field may be a Grudge: its wheel may curse somebody
\* before the surrounded ones fall.
Arrivals(b) ==
  LET choices == IF OnField(b) \subseteq OnField(board) THEN {} ELSE OnField(b)
  IN Surroundings({b} \cup {[b EXCEPT !.cursed = @ \cup {q}] : q \in choices})

\* completeTurnCleanup, as far as the figures go: decrementWaits.
TurnEnded(b) == [b EXCEPT !.wait = [p \in Figures |-> IF b.wait[p] > 0 THEN b.wait[p] - 1 ELSE 0]]

-----------------------------------------------------------------------------
(***************************************************************************)
(* applyPositionMove, and what an accepted movement does after it.          *)
(***************************************************************************)
CenterInit ==
  /\ board = [pos |-> [p \in Figures |-> Bench(p)], wait |-> [p \in Figures |-> 0],
              faint |-> {}, cursed |-> {}, battled |-> {}]
  /\ mover = Nobody /\ extra = FALSE /\ staged = Nobody /\ start = Nobody /\ order = <<>>

Idle == mover = Nobody /\ staged = Nobody
NoKnockouts == extra' = FALSE /\ UNCHANGED <<staged, start, order>>

Moved(b, p, to) ==
  [b EXCEPT !.pos[p] = to, !.battled = IF b.pos[p] \in Points THEN @ ELSE @ \ {p}]

\* mp_move: the turn ends, or the mover stands where it may battle or touch.
MpMove(p, to) ==
  /\ Idle /\ board.pos[p] \in Points \cup {Bench(p)} /\ board.wait[p] = 0 /\ to \in Free(board)
  /\ \E b \in Arrivals(Moved(board, p, to)) :
       \/ board' = TurnEnded(b) /\ mover' = Nobody
       \/ /\ p \in OnField(b) /\ OnField(b) # {p}
          /\ board' = b /\ mover' = p
  /\ NoKnockouts

\* spot_move, by a plate or from a bench entry: a Wait does not prevent a plate.
SpotMove(p, to) ==
  /\ Idle /\ board.pos[p] \in Points \cup {Bench(p)} /\ to \in Free(board)
  /\ \E b \in Arrivals(Moved(board, p, to)) : board' = TurnEnded(b)
  /\ UNCHANGED mover /\ NoKnockouts

\* Mutant: the figure that leaves the field takes the place the other one had.
SwappedPlaces(b, p, q) ==
  [b EXCEPT !.pos[p] = b.pos[q], !.pos[q] = b.pos[p],
            !.cursed = @ \ {r \in {p, q} : r \notin OnField(b)}]

\* swap_move: a figure that goes to the bench goes to its own place.
Swapped(b, p, q) ==
  LET place(r, to) == IF to \in Points THEN to ELSE Bench(r)
      toBench == {r \in {p, q} : b.pos[IF r = p THEN q ELSE p] \notin Points}
  IN [b EXCEPT !.pos[p] = place(p, b.pos[q]), !.pos[q] = place(q, b.pos[p]),
               !.cursed = @ \ toBench,
               !.battled = IF {p, q} \subseteq OnField(b) THEN @ ELSE @ \ {p, q}]

SwapMove(p, q) ==
  /\ Idle /\ p < q /\ SameSide(p, q)
  /\ \A r \in {p, q} : board.pos[r] \in Points \cup {Bench(r)}
  /\ {p, q} \cap OnField(board) # {}
  /\ \E b \in Arrivals(Swapped(board, p, q)) : board' = TurnEnded(b)
  /\ UNCHANGED mover /\ NoKnockouts

-----------------------------------------------------------------------------
(***************************************************************************)
(* A battle: its declaration, finishBattleSpin, the leap of its winner or   *)
(* the delayed steps of several knockouts, and completeBattleResolution.    *)
(***************************************************************************)
Waiting(b, set, n) ==
  [b EXCEPT !.wait = [p \in Figures |-> IF n > 0 /\ p \in set \ Immune THEN n ELSE b.wait[p]]]
Waits(b) == {b} \cup {Waiting(b, set, n) : set \in SUBSET Figures, n \in AttackWaits}
Benched(b, set) ==
  [b EXCEPT !.pos = [p \in Figures |-> IF p \in set THEN Bench(p) ELSE b.pos[p]],
            !.cursed = @ \ set, !.battled = @ \ set]

\* applyPokepower1326: one of the two may give the other a Wait, and who is left
\* of them has battled.
Marked(b, pair) == [b EXCEPT !.battled = @ \cup ((pair \cap OnField(b)) \ b.faint)]
MarkedBoards(b, pair) == {Marked(b, pair)} \cup
  {Marked(Waiting(b, {p}, n), pair) : p \in pair \cap OnField(b), n \in AttackWaits}

\* completeBattleResolution: who is surrounded by then falls, and who is once a
\* battler has thawed; the turn ends.
Settling(boards) == Surroundings(Surroundings(boards))
Ended(boards) == {TurnEnded(b) : b \in Settling(boards)}
Settlements(boards, pair) == Ended(UNION {MarkedBoards(b, pair) : b \in boards})

Finish(boards, pair) ==
  /\ board' \in Settlements(boards, pair)
  /\ mover' = Nobody /\ extra' = FALSE /\ staged' = Nobody /\ start' = Nobody /\ order' = <<>>

\* validateBattleDeclaration: p attacks q, after a movement or without one. (A
\* mover that may touch somebody leaves the attack to any figure of its side.)
Fight(p, q) == /\ staged = Nobody /\ {p, q} \subseteq OnField(board) /\ ~SameSide(p, q)
               /\ board.wait[p] = 0
               /\ mover # Nobody => SameSide(p, mover)
               /\ extra => p = mover

\* planDeclarationConditionRecovery: the attacked figure wakes, and whom it
\* surrounds then falls.
Woken == Surroundings({board})
\* A second battle settles the first one. (That this removes one of the two who
\* go on is left out.)
Begun(p, q) ==
  LET going == {b \in Woken : {p, q} \subseteq OnField(b)} IN
  IF extra THEN {b \in Settling(going) : {p, q} \subseteq OnField(b)} ELSE going

\* A battle cancelled by its declaration, as one of the two has fallen.
CancelledBattle(p, q) ==
  /\ Fight(p, q)
  /\ LET ending == {b \in Woken : ~({p, q} \subseteq OnField(b))} IN
     board' \in IF extra THEN Ended(ending) ELSE {TurnEnded(b) : b \in ending}
  /\ mover' = Nobody /\ NoKnockouts

\* A battle that knocks nobody out: a curse (triangles), or figures sent back to
\* the bench (benchAttackPlan) and Waits, or nothing.
Cursings(b, pair) == {[b EXCEPT !.cursed = @ \cup {loser}] : loser \in pair}
Benchings(b) == UNION {Waits(Benched(b, away)) : away \in SUBSET OnField(b)}
QuietBattle(p, q) ==
  /\ Fight(p, q)
  /\ Finish(UNION {Cursings(b, {p, q}) \cup Benchings(b) : b \in Begun(p, q)}, {p, q})

\* acceptPendingJump: the winner leaps, the loser may fall, then who is surrounded.
Landings(b, winner, loser) ==
  LET leapt == {Moved(b, winner, to) : to \in Free(b)}
      felled == UNION {{Surrounded(c, set) : set \in Surrounds(c) \cap SUBSET {loser}} : c \in leapt}
  IN Surroundings(UNION {MarkedBoards(c, {winner, loser}) : c \in Surroundings(felled)})

\* The winner may battle again in the same turn, once.
Leap(p, q) ==
  /\ Fight(p, q)
  /\ \E winner \in {p, q} :
       LET loser == IF winner = p THEN q ELSE p
           landed == UNION {Landings(b, winner, loser) : b \in Begun(p, q)}
       IN \/ board' \in Ended(landed) /\ mover' = Nobody /\ extra' = FALSE
          \/ /\ ~extra
             /\ board' \in {b \in landed : /\ winner \in OnField(b) /\ b.wait[winner] = 0
                                           /\ \E r \in OnField(b) : ~SameSide(winner, r)}
             /\ mover' = winner /\ extra' = TRUE
  /\ UNCHANGED <<staged, start, order>>

\* null_move: the mover does not battle.
NullMove == /\ mover # Nobody /\ staged = Nobody
            /\ board' \in IF extra THEN Ended({board}) ELSE {TurnEnded(board)}
            /\ mover' = Nobody /\ NoKnockouts

\* acceptTouchRecovery: a figure touched by another of its side wakes.
Touch == /\ staged = Nobody /\ ~extra
         /\ board' \in {TurnEnded(b) : b \in Woken}
         /\ mover' = Nobody /\ NoKnockouts

\* The step that comes first when p is to leave: out of the game, room in the
\* lower place, room in the upper place, into the Center.
StepOf(b, p) == CASE p \in b.cursed -> "remove"
                  [] Released(b, p) # Nobody -> "bench"
                  [] Released(b, p) = Nobody /\ Sinking(b, p) # Nobody -> "shift"
                  [] OTHER -> "knockout"

\* stagePendingKnockouts: knockoutChoiceSource picks the next one.
Stage(b, left, opponent) ==
  /\ board' = b
  /\ \E p \in left : staged' = [left |-> left, pick |-> p, step |-> StepOf(b, p), opponent |-> opponent]

\* finishBattleSpin: one figure leaves at once, several by delayed steps.
Knockout(p, q) ==
  /\ Fight(p, q)
  /\ \E b \in Begun(p, q) : \E set \in SUBSET OnField(b) \ {{}} :
       \E c \in Waits(Fainted(b, set)) :
         /\ Plannable(c, InOrder(set))
         /\ IF Cardinality(set) = 1 THEN Finish({Batch(c, InOrder(set))}, {p, q})
            ELSE /\ Stage(c, set, q) /\ start' = c /\ mover' = p /\ extra' = FALSE
                 /\ UNCHANGED order

\* Mutant: a figure that leaves by a step of its own gets no Wait.
MadeRoomUnwaiting(b, p) ==
  LET q == Released(b, p)
  IN IF q # Nobody THEN [Cleared(b, q) EXCEPT !.pos[q] = Bench(q)] ELSE Sunk(b, p)
\* Mutant: the upper figure sinks while the lower place is taken.
MadeRoomBelow(b, p) == Sunk(b, p)
\* Room is made a figure at a time: the lower one leaves, then the upper one sinks.
MadeRoom(b, p) == IF Released(b, p) # Nobody THEN Freed(b, p) ELSE Sunk(b, p)

\* performPendingKnockouts plans again for all who are left, the picked one
\* first, and compares the step with the one it announced.
Leaving == <<staged.pick>> \o InOrder(staged.left \ {staged.pick})
StillFits == Plannable(board, Leaving) /\ StepOf(board, staged.pick) = staged.step

PerformKnockout ==
  LET p == staged.pick
      rest == staged.left \ {p} IN
  /\ staged # Nobody /\ StillFits
  /\ CASE staged.step \in {"bench", "shift"} ->
            Stage(MadeRoom(board, p), staged.left, staged.opponent) /\ UNCHANGED <<mover, extra, start, order>>
       [] staged.step \in {"remove", "knockout"} /\ Cardinality(rest) > 1 ->
            /\ Stage(Relocated(board, p), rest, staged.opponent)
            /\ order' = Append(order, p) /\ UNCHANGED <<mover, extra, start>>
       [] OTHER -> Finish({Batch(board, Leaving)}, {mover, staged.opponent})

CenterNext ==
  \/ \E p \in Figures, to \in Points : MpMove(p, to) \/ SpotMove(p, to)
  \/ \E p, q \in Figures : \/ SwapMove(p, q) \/ CancelledBattle(p, q)
                           \/ QuietBattle(p, q) \/ Leap(p, q) \/ Knockout(p, q)
  \/ NullMove \/ Touch
  \/ PerformKnockout

CenterSpec == CenterInit /\ [][CenterNext]_centerVars

-----------------------------------------------------------------------------
\* However movements, plates, attacks and the steps of knockouts follow each
\* other, no two figures stand in one place; a figure off the field stands in a
\* place of its own or in the Center of its side, which is entered from above
\* (nobody is below an empty upper place unless room was just made); only
\* figures about to leave are faint; and nothing a figure got on the field, a
\* curse or the mark of a first battle, follows it off the field. So the places
\* a knockout needs are free whenever one happens.
BoardIsSound ==
  /\ \A p, q \in Figures : board.pos[p] = board.pos[q] => p = q
  /\ \A p \in Figures : board.pos[p] \in Points \cup {Bench(p), Lower(p), Upper(p), Out(p)}
  /\ \A p \in Figures : At(board, Lower(p)) # Nobody /\ At(board, Upper(p)) = Nobody =>
       staged # Nobody /\ staged.left # {}
  /\ board.faint = IF staged = Nobody THEN {} ELSE staged.left
  /\ board.cursed \cup board.battled \subseteq OnField(board)

\* Knocking several figures out by delayed steps, with room made a figure at a
\* time and the next one picked anew after each step, leaves the board of
\* knocking them out at once in the order in which they left: the same figures
\* in the same places, released ones with the same Wait.
StagedIsBatch ==
  [][staged # Nobody /\ staged' = Nobody =>
       LET left == order \o Leaving IN
       /\ Range(left) = start.faint
       /\ board' \in Settlements({Batch(start, left)}, {mover, staged.opponent})]_centerVars

\* No order of picks meets a place that is taken or a plan that no longer fits:
\* the next step of staged knockouts, which holds the lock on the match, can
\* always be taken.
KnockoutsNeverBlock == staged # Nobody => StillFits
=============================================================================
