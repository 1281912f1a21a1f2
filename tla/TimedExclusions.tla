--------------------------- MODULE TimedExclusions ---------------------------
(***************************************************************************)
(* The timed exclusion of a figure (timed-exclusion-state.mjs, a domain    *)
(* module the engine does not call yet): a battle removes a figure with a  *)
(* duration of seven, completed turns count it down, and it returns to its *)
(* place on the bench.  The caller owns the record and the places and      *)
(* passes both to every call, after as many moves as it likes; the module  *)
(* accepts only the continuation it can prove, consecutive movements of    *)
(* alternating sides.  A battle is its declaration and its spin; a cause   *)
(* is named by the index of its move, since the record only grows.         *)
(***************************************************************************)
EXTENDS Integers, Sequences

CONSTANTS Black, White,       \* the figures of each side
          Spots,              \* points of the field
          OnBench, Excluded,  \* a figure's own place on the bench and out of the game
          NoTurn,             \* null
          MaxRecord           \* bound: moves of the record

ASSUME PlaceAssumption == OnBench \notin Spots /\ Excluded \notin Spots \cup {OnBench}

VARIABLES
  moves,    \* all_moves
  places,   \* positions
  boundary, \* last_boundary: the last completed turn the module was told of
  timed, untimed
timedVars == <<moves, places, boundary, timed, untimed>>

All == Black \cup White
SideOf(p) == IF p \in Black THEN "black" ELSE "white"

\* causeFor: the last move of the record ends the turn of this side.
CauseFor(kind, side) == [index |-> Len(moves), kind |-> kind, side |-> side]
EndsTurn(cause) ==
  /\ moves # <<>>
  /\ IF cause.kind = "resolved_battle" THEN moves[Len(moves)].type = "spin"
     ELSE moves[Len(moves)] = [type |-> "mp_move", side |-> cause.side]

\* checkedCreationPair: the battle was declared by the actor on the figure.
CreationPair(p, actor) ==
  /\ Len(moves) > 1 /\ moves[Len(moves)].type = "spin"
  /\ moves[Len(moves) - 1] = [type |-> "declare_battle", from |-> actor, to |-> p]

\* checked, as far as it is about the state and the places together.
Sound(b, t, at) ==
  /\ t # NoTurn =>
       IF t.remaining = 7 THEN b # NoTurn => b.index < t.cause.index
       ELSE b # NoTurn /\ b.index >= t.cause.index /\ t.remaining = 6 - (b.index - t.cause.index)
  /\ \A p \in All : at[p] = Excluded <=> p \in untimed \/ (t # NoTurn /\ t.figure = p)
  /\ \A p, q \in All : at[p] = at[q] /\ at[p] \in Spots => p = q

-----------------------------------------------------------------------------
\* createState, with figures that are out for good.
TimedInit ==
  /\ moves = <<>> /\ boundary = NoTurn /\ timed = NoTurn
  /\ untimed \in SUBSET White
  /\ places \in [All -> Spots \cup {OnBench, Excluded}]
  /\ Sound(NoTurn, NoTurn, places)

\* begin1692Removal.
Begin1692Removal(p, actor) ==
  LET cause == CauseFor("resolved_battle", SideOf(actor))
      removal == [figure |-> p, actor |-> actor, remaining |-> 7, cause |-> cause] IN
  /\ Sound(boundary, timed, places)
  /\ SideOf(p) # SideOf(actor) /\ timed = NoTurn /\ CreationPair(p, actor)
  /\ boundary # NoTurn => cause.index > boundary.index /\ cause.side # boundary.side
  /\ places[p] \in Spots /\ places[actor] \in Spots
  /\ timed' = removal /\ places' = [places EXCEPT ![p] = Excluded]
  /\ UNCHANGED <<moves, boundary, untimed>>

\* Mutant: a side may have two turns in a row.
ExtraTurnAdjoins(cause) == cause.index = boundary.index + 1 /\ cause.kind = "nonbattle_mp_move"
\* The next move, and the other side's.
Adjoins(cause) ==
  /\ cause.index = boundary.index + 1 /\ cause.kind = "nonbattle_mp_move"
  /\ cause.side # boundary.side
Starting == timed # NoTurn /\ timed.remaining = 7

\* advanceCompletedTurn, for a turn that was not told before (one that was
\* changes nothing).
AdvanceCompletedTurn(kind, side) ==
  LET cause == CauseFor(kind, side) IN
  /\ Sound(boundary, timed, places)
  /\ EndsTurn(cause) /\ (boundary # NoTurn => cause.index > boundary.index)
  /\ boundary # NoTurn /\ ~Starting => Adjoins(cause)
  /\ Starting => cause = timed.cause
  /\ timed # NoTurn /\ ~Starting => kind = "nonbattle_mp_move"
  /\ boundary' = cause
  /\ \/ timed = NoTurn /\ UNCHANGED <<timed, places>>
     \/ /\ timed # NoTurn /\ timed.remaining > 1
        /\ timed' = [timed EXCEPT !.remaining = @ - 1] /\ UNCHANGED places
     \/ /\ timed # NoTurn /\ timed.remaining = 1
        /\ timed' = NoTurn /\ places' = [places EXCEPT ![timed.figure] = OnBench]
  /\ Sound(boundary', timed', places')
  /\ UNCHANGED <<moves, untimed>>

\* The caller: the match goes on.
Movement(p, to) ==
  /\ Len(moves) < MaxRecord /\ places[p] # Excluded /\ \A q \in All : places[q] # to
  /\ moves' = Append(moves, [type |-> "mp_move", side |-> SideOf(p)])
  /\ places' = [places EXCEPT ![p] = to] /\ UNCHANGED <<boundary, timed, untimed>>
Battle(from, to) ==
  /\ Len(moves) + 1 < MaxRecord /\ places[from] \in Spots /\ places[to] \in Spots
  /\ SideOf(from) # SideOf(to)
  /\ moves' = moves \o <<[type |-> "declare_battle", from |-> from, to |-> to], [type |-> "spin"]>>
  /\ UNCHANGED <<places, boundary, timed, untimed>>

TimedNext ==
  \/ \E p, q \in All : Begin1692Removal(p, q) \/ Battle(p, q)
  \/ \E kind \in {"resolved_battle", "nonbattle_mp_move"}, side \in {"black", "white"} :
       AdvanceCompletedTurn(kind, side)
  \/ \E p \in All, to \in Spots : Movement(p, to)
TimedSpec == TimedInit /\ [][TimedNext]_timedVars

-----------------------------------------------------------------------------
\* A figure out of the game for a time comes back to its bench on the seventh
\* completed turn, the removing one counted, after six movements of alternating
\* sides and none between them, at the end of a turn of the side that removed it,
\* however late or however often the caller reports; one out for good stays out.
BackOnTheSeventhTurn ==
  [][\A p \in All : places[p] = Excluded /\ places'[p] # Excluded =>
       /\ timed # NoTurn /\ timed.figure = p /\ places'[p] = OnBench
       /\ LET other == IF timed.cause.side = "black" THEN "white" ELSE "black" IN
          SubSeq(moves, timed.cause.index + 1, Len(moves)) =
            [i \in 1..6 |-> [type |-> "mp_move",
                             side |-> IF i % 2 = 1 THEN other ELSE timed.cause.side]]]_timedVars
=============================================================================
