--------------------------- MODULE CompletedTurns ---------------------------
(***************************************************************************)
(* The ledger of completed turns of completed-turn-ledger.mjs: a list of   *)
(* causes, each bound to the prefix of the match record that completed a   *)
(* turn.  Nothing a caller hands in is trusted: causes may be stale,       *)
(* repeated, planned on a record that went another way, or conflicting,    *)
(* and so may checkpoints.  A digest stands for the value it binds, so a   *)
(* cause carries its prefix.  Left out: encodings, shapes and schemas.     *)
(***************************************************************************)
EXTENDS Naturals, Sequences, SequencesExt

CONSTANTS Kinds,         \* completion kinds other than "resolved_battle"
          Neutral,       \* moves that anchor no completion: gauges, declarations
          MaxMoves,      \* MAX_RECORD_MOVES
          MaxCompletions \* MAX_COMPLETIONS

ASSUME LimitAssumption == MaxMoves \in Nat /\ MaxCompletions \in Nat
ASSUME KindAssumption == "resolved_battle" \notin Kinds

VARIABLES record,      \* all_moves of the match, only ever appended to
          ledger,      \* completions; completed_turns is their number
          checkpoints, \* snapshots somebody kept
          lives        \* how often the ledger was rebuilt with no current one
vars == <<record, ledger, checkpoints, lives>>

Sides == {"black", "white"}
Spin == [by |-> "both", anchors |-> "resolved_battle"]
Moves == [by : Sides, anchors : Kinds] \cup {Spin} \cup [by : {"both"}, anchors : Neutral]
Records == {r \in Seq(Moves) : Len(r) <= MaxMoves}

\* A cause: its ordinal, what ended whose turn, where the deciding move stands
\* (counted from 0), and the record up to the completion.
Cause == [ordinal : 1..MaxCompletions, kind : Kinds \cup {"resolved_battle"},
          ended : Sides, index : Nat, prefix : Records]
Checkpoint == [prefix : Records, completions : Seq(Cause)]

\* checkedFacts: what the deciding move has to be for a completion of a kind.
Anchors(move, kind, ended) ==
  IF kind = "resolved_battle" THEN move = Spin
                              ELSE move = [by |-> ended, anchors |-> kind]

\* checkedCause against a record.
CauseFits(c, r) ==
  /\ IsPrefix(c.prefix, r)
  /\ c.index < Len(c.prefix)
  /\ Anchors(c.prefix[c.index + 1], c.kind, c.ended)
  /\ c \in Cause

Count(causes, n) == IF n = 0 THEN 0 ELSE Len(causes[n].prefix)

\* Mutant: a completion only has to lie later than the one before it.
LaterOnly(c, causes, n) ==
  /\ c.ordinal = n + 1
  /\ Len(c.prefix) > Count(causes, n)
\* The completion after the first n: the next ordinal, and a deciding move
\* that no earlier turn used.
Follows(c, causes, n) ==
  /\ c.ordinal = n + 1
  /\ Len(c.prefix) > Count(causes, n)
  /\ c.index >= Count(causes, n)

\* checkedState.
LedgerFits(causes, r) ==
  /\ Len(causes) <= MaxCompletions
  /\ \A i \in 1..Len(causes) : CauseFits(causes[i], r) /\ Follows(causes[i], causes, i - 1)

\* causeFromFacts: a caller proposes on a record of its own, complete or with
\* the move it is about to append (plannedTurnCompletion).
Proposals(r) ==
  {[ordinal |-> o, kind |-> k, ended |-> s, index |-> i, prefix |-> r] :
     o \in 1..MaxCompletions, k \in Kinds \cup {"resolved_battle"},
     s \in Sides, i \in 0..Len(r)}
Views == {SubSeq(record, 1, n) : n \in 0..Len(record)}
         \cup {Append(SubSeq(record, 1, n), m) : n \in 0..Len(record), m \in Moves}

-----------------------------------------------------------------------------
\* createLedger: only for a record that is still empty.
Init == record = <<>> /\ ledger = <<>> /\ checkpoints = {} /\ lives = 0

\* The match appends a move; the ledger is not told.
Record(m) == /\ Len(record) < MaxMoves
             /\ record' = Append(record, m)
             /\ UNCHANGED <<ledger, checkpoints, lives>>

\* commitCompletion.  An ordinal already taken is acknowledged if it is the
\* same cause and refused otherwise; either way nothing changes.
Commit(c) == /\ Follows(c, ledger, Len(ledger))
             /\ CauseFits(c, record)
             /\ LedgerFits(ledger, record)
             /\ ledger' = Append(ledger, c)
             /\ LedgerFits(ledger', record)
             /\ UNCHANGED <<record, checkpoints, lives>>

\* snapshotLedger.
Snapshot == /\ LedgerFits(ledger, record)
            /\ checkpoints' = checkpoints \cup {[prefix |-> record, completions |-> ledger]}
            /\ UNCHANGED <<record, ledger, lives>>

CheckpointFits(cp) == IsPrefix(cp.prefix, record) /\ LedgerFits(cp.completions, cp.prefix)

\* Mutant: a checkpoint that is long enough replaces the present ledger.
LongEnough(cp) == Len(cp.completions) >= Len(ledger)
\* restoreLedger with a current state: no ordinal is rolled back and no
\* history replaced by another.
Continues(cp) == /\ Len(cp.completions) >= Len(ledger)
                 /\ SubSeq(cp.completions, 1, Len(ledger)) = ledger

Restore(cp) == /\ CheckpointFits(cp)
               /\ LedgerFits(ledger, record)
               /\ Continues(cp)
               /\ ledger' = cp.completions
               /\ UNCHANGED <<record, checkpoints, lives>>

\* restoreLedger and replayCompletions for a caller that has no ledger, with a
\* record that is the present one or an earlier part of it.
Reload(n, completions) ==
  /\ n \in 0..Len(record)
  /\ LedgerFits(completions, SubSeq(record, 1, n))
  /\ record' = SubSeq(record, 1, n)
  /\ ledger' = completions
  /\ lives' = lives + 1
  /\ UNCHANGED checkpoints

ReloadCheckpoint(n, cp) == /\ IsPrefix(cp.prefix, SubSeq(record, 1, n))
                           /\ LedgerFits(cp.completions, cp.prefix)
                           /\ Reload(n, cp.completions)
\* A journal: the facts of the completions, whose prefixes the record gives.
ReplayJournal(n, k) == Reload(n, SubSeq(ledger, 1, k))

Next == \/ \E m \in Moves : Record(m)
        \/ \E r \in Views : /\ Len(r) > Count(ledger, Len(ledger)) \* a shorter one completes nothing more
                          /\ \E c \in Proposals(r) : Commit(c)
        \/ Snapshot
        \/ \E cp \in checkpoints : Restore(cp)
        \/ \E n \in 0..Len(record), cp \in checkpoints : ReloadCheckpoint(n, cp)
        \/ \E n \in 0..Len(record), k \in 0..Len(ledger) : ReplayJournal(n, k)

Spec == Init /\ [][Next]_vars

-----------------------------------------------------------------------------
TypeOK == /\ record \in Records
          /\ ledger \in Seq(Cause)
          /\ checkpoints \subseteq Checkpoint
          /\ lives \in Nat

\* Each completed turn ends in this very record, the turns lie one after the
\* other without sharing a move, and they are numbered without a gap: no cause
\* planned on a record that went another way, and no move counted twice, ever
\* enters, whatever callers keep, repeat and mix up.
TurnsAreDisjoint ==
  \A i \in 1..Len(ledger) :
    /\ ledger[i].ordinal = i
    /\ IsPrefix(ledger[i].prefix, record)
    /\ \A j \in 1..(i - 1) : /\ Len(ledger[j].prefix) <= ledger[i].index
                             /\ Len(ledger[j].prefix) < Len(ledger[i].prefix)

\* While a match holds its ledger, nothing it is handed takes a completed turn
\* back or puts another in its place: commits and checkpoints only add.
HistoryStands == [][lives' = lives => IsPrefix(ledger, ledger')]_vars
=============================================================================
