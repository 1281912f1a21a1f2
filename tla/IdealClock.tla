----------------------------- MODULE IdealClock -----------------------------
(***************************************************************************)
(* The think-time rule of a match as a player would state it, with one     *)
(* clock that nobody has to look at: the player who is to choose has a     *)
(* grace while the animation plays, then loses one unit of time per unit   *)
(* that passes, and has lost when nothing is left.                         *)
(***************************************************************************)
EXTENDS Integers

CONSTANTS Sides,       \* the two players
          None,        \* nobody
          Budget,      \* think time each player starts with
          Allowances   \* lengths a grace may have

VARIABLES thinker,     \* who is to choose; None while the server resolves a move
          grace,       \* how long the thinker's clock still stands still
          left,        \* think time left, to the unit, at this very moment
          owing,       \* the server owes a result although someone is to choose
          moves,       \* parity of the number of moves played
          verdict      \* None, or how the match ended and who won

clockVars == <<thinker, grace, left, owing, moves, verdict>>

Opponent(s) == CHOOSE t \in Sides : t # s
Dec(n) == IF n = 0 THEN 0 ELSE n - 1
Playing == verdict = None

ClockInit == /\ thinker \in Sides
             /\ grace \in Allowances
             /\ left = [s \in Sides |-> Budget]
             /\ owing = FALSE
             /\ moves = 0
             /\ verdict = None

Tick == /\ Playing /\ thinker # None
        /\ IF grace > 0
           THEN grace' = grace - 1 /\ left' = left
           ELSE left' = [left EXCEPT ![thinker] = Dec(@)] /\ grace' = grace
        /\ UNCHANGED <<thinker, owing, moves, verdict>>

\* The thinker may waive what is left of the grace, and nothing else.
Ready == /\ Playing /\ thinker # None
         /\ grace' = 0
         /\ UNCHANGED <<thinker, left, owing, moves, verdict>>

\* A move, or the end of its resolution: only a player with time left moves.
HandOver == /\ Playing
            /\ thinker # None => left[thinker] > 0
            /\ thinker' \in Sides \cup {None}
            /\ grace' \in IF thinker' = None THEN {0} ELSE Allowances
            /\ owing' \in BOOLEAN
            /\ moves' = 1 - moves
            /\ UNCHANGED <<left, verdict>>

\* The server delivers a result it owed while someone was to choose: time the
\* chooser spent waiting for it may be forgiven.
Deliver == /\ Playing /\ owing /\ thinker # None
           /\ left' \in {[left EXCEPT ![thinker] = n] : n \in left[thinker]..Budget}
           /\ thinker' \in Sides
           /\ grace' \in Allowances
           /\ owing' = FALSE
           /\ moves' = 1 - moves
           /\ verdict' = verdict

\* The match ends: by time only when the thinker has none left, in play only
\* while nobody is out of time, by absence at any moment.
End == /\ Playing
       /\ \E w \in Sides, why \in {"timeout", "play", "disconnect"} :
            /\ why = "timeout" => /\ thinker # None
                                  /\ left[thinker] = 0
                                  /\ w = Opponent(thinker)
            /\ why = "play" /\ thinker # None => left[thinker] > 0
            /\ verdict' = <<why, w>>
       /\ thinker' = None
       /\ grace' = 0
       /\ left' = [s \in Sides |-> 0]
       /\ owing' = FALSE
       /\ moves' \in {moves, 1 - moves}

ClockNext == Tick \/ Ready \/ HandOver \/ Deliver \/ End

ClockSpec == ClockInit /\ [][ClockNext]_clockVars
=============================================================================
