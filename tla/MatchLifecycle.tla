--------------------------- MODULE MatchLifecycle ---------------------------
(***************************************************************************)
(* What the match server promises about ONE match identifier, whatever the *)
(* queue, the sockets and the account store do in between: a match is      *)
(* found, started, decided once, and its outcome is shown to the players   *)
(* only when the account store holds that very outcome.                    *)
(***************************************************************************)
CONSTANTS Sides,      \* the two players' colours, and so the possible winners
          NoOutcome   \* stands for "no outcome yet"

VARIABLES phase,      \* phase of the match in memory; "none" when there is none
          outcome,    \* the winner decided for the match in memory
          durable     \* the winner the account store holds for the identifier

lifecycleVars == <<phase, outcome, durable>>

LifecycleTypeOK ==
  /\ phase \in {"none", "found", "started", "finishing", "finished", "reset"}
  /\ outcome \in Sides \cup {NoOutcome}
  /\ durable \in Sides \cup {NoOutcome}

Init ==
  /\ phase = "none"
  /\ outcome = NoOutcome
  /\ durable = NoOutcome

\* Two waiting accounts are paired.
Pair ==
  /\ phase = "none"
  /\ phase' = "found"
  /\ UNCHANGED <<outcome, durable>>

\* Both players are ready.
Start ==
  /\ phase = "found"
  /\ phase' = "started"
  /\ UNCHANGED <<outcome, durable>>

\* The players did not both join in time.
CancelJoin ==
  /\ phase = "found"
  /\ phase' = "reset"
  /\ UNCHANGED <<outcome, durable>>

\* The match is decided while the store is not available.
Decide ==
  /\ phase = "started"
  /\ phase' = "finishing"
  /\ outcome' \in Sides
  /\ UNCHANGED durable

\* The match is decided and the outcome stored in the same step.
DecideAndPublish ==
  /\ phase = "started"
  /\ durable = NoOutcome
  /\ phase' = "finished"
  /\ outcome' \in Sides
  /\ durable' = outcome'

\* A later attempt stores the outcome decided before; the match may be so old
\* by then that the same step drops it from memory.
Publish ==
  /\ phase = "finishing"
  /\ durable = NoOutcome
  /\ durable' = outcome
  /\ \/ phase' = "finished" /\ UNCHANGED outcome
     \/ phase' = "none" /\ outcome' = NoOutcome

\* The match leaves the memory: its retention ran out.
Forget ==
  /\ phase \in {"finished", "reset"}
  /\ phase' = "none"
  /\ outcome' = NoOutcome
  /\ UNCHANGED durable

\* The process dies: what the store does not hold is gone.
Crash ==
  /\ phase # "none"
  /\ phase' = "none"
  /\ outcome' = NoOutcome
  /\ UNCHANGED durable

Next ==
  \/ Pair \/ Start \/ CancelJoin
  \/ Decide \/ DecideAndPublish \/ Publish
  \/ Forget \/ Crash

Spec == Init /\ [][Next]_lifecycleVars

\* The promise in one formula: what players are shown is what is stored.
ShownOutcomeIsDurable == phase = "finished" => durable = outcome /\ outcome # NoOutcome
=============================================================================
