-------------------------- MODULE BookkeepingProofs ---------------------------
(***************************************************************************)
(* What a match keeps beside its moves, for records of any length.         *)
(*                                                                         *)
(* The ledger of completed turns always fits the record (LedgerFits), and  *)
(* every ledger anybody holds, the checkpoints' included, is a list of     *)
(* disjoint turns (Disjoint): the second half is what lets a checkpoint or *)
(* a journal take the ledger's place.  Of a timed exclusion the invariant  *)
(* says that the turns counted so far are the movements behind the one     *)
(* that removed the figure (Counted).                                      *)
(***************************************************************************)
EXTENDS CompletedTurns, TimedExclusions, TLAPS

Disjoint(causes) ==
  \A i \in 1..Len(causes) : \A j \in 1..(i - 1) :
    /\ Len(causes[j].prefix) <= causes[i].index
    /\ Len(causes[j].prefix) < Len(causes[i].prefix)

IInv == /\ TypeOK
        /\ LedgerFits(ledger, record)
        /\ Disjoint(ledger)
        /\ \A cp \in checkpoints : Disjoint(cp.completions)

\* What it is to be a prefix, element by element.
LEMMA PrefixElements ==
  ASSUME NEW S, NEW s \in Seq(S), NEW t \in Seq(S)
  PROVE  IsPrefix(s, t) <=> Len(s) <= Len(t) /\ \A i \in 1..Len(s) : s[i] = t[i]
BY DEF IsPrefix

LEMMA PrefixTransitive ==
  ASSUME NEW S, NEW s \in Seq(S), NEW t \in Seq(S), NEW u \in Seq(S),
         IsPrefix(s, t), IsPrefix(t, u)
  PROVE  IsPrefix(s, u)
<1>1. Len(s) <= Len(t) /\ Len(t) <= Len(u) /\ Len(s) \in Nat /\ Len(t) \in Nat /\ Len(u) \in Nat
  BY PrefixElements
<1>2. \A i \in 1..Len(s) : s[i] = u[i]
  BY PrefixElements, <1>1
<1> QED BY <1>1, <1>2, PrefixElements

LEMMA AppendExtends ==
  ASSUME NEW S, NEW s \in Seq(S), NEW e \in S
  PROVE  IsPrefix(s, Append(s, e))
<1>1. Append(s, e) \in Seq(S) /\ Len(Append(s, e)) = Len(s) + 1 /\ Len(s) \in Nat
      /\ \A i \in 1..Len(s) : s[i] = Append(s, e)[i]
  OBVIOUS
<1>2. Len(s) <= Len(Append(s, e))
  BY <1>1
<1> QED BY <1>1, <1>2, PrefixElements

\* A record that has grown still fits what fitted it.
LEMMA FitsLonger ==
  ASSUME NEW causes \in Seq(Cause), NEW r \in Records, NEW t \in Records,
         IsPrefix(r, t), LedgerFits(causes, r)
  PROVE  LedgerFits(causes, t)
<1>1. ASSUME NEW i \in 1..Len(causes)
      PROVE  IsPrefix(causes[i].prefix, t)
  <2>1. causes[i] \in Cause
    OBVIOUS
  <2>2. causes[i].prefix \in Seq(Moves) /\ r \in Seq(Moves) /\ t \in Seq(Moves)
    BY <2>1 DEF Cause, Records
  <2>3. IsPrefix(causes[i].prefix, r)
    BY DEF LedgerFits, CauseFits
  <2> QED BY <2>2, <2>3, PrefixTransitive
<1> QED BY <1>1 DEF LedgerFits, CauseFits

LEMMA CutRecord ==
  ASSUME NEW r \in Records, NEW n \in 0..Len(r)
  PROVE  SubSeq(r, 1, n) \in Records
<1>1. r \in Seq(Moves) /\ Len(r) <= MaxMoves /\ Len(r) \in Nat
  BY DEF Records
<1>2. SubSeq(r, 1, n) \in Seq(Moves) /\ Len(SubSeq(r, 1, n)) = n
  BY <1>1
<1> QED BY <1>1, <1>2, LimitAssumption DEF Records

\* The first turns of disjoint turns are disjoint.
LEMMA CutDisjoint ==
  ASSUME NEW causes \in Seq(Cause), NEW k \in 0..Len(causes), Disjoint(causes)
  PROVE  SubSeq(causes, 1, k) \in Seq(Cause) /\ Disjoint(SubSeq(causes, 1, k))
<1>1. SubSeq(causes, 1, k) \in Seq(Cause) /\ Len(SubSeq(causes, 1, k)) = k
  OBVIOUS
<1>2. \A i \in 1..k : SubSeq(causes, 1, k)[i] = causes[i] /\ i \in 1..Len(causes)
  OBVIOUS
<1> QED BY <1>1, <1>2 DEF Disjoint

\* A completion that follows the last one is disjoint from all of them.
LEMMA AppendDisjoint ==
  ASSUME NEW causes \in Seq(Cause), NEW c \in Cause, NEW r \in Records,
         LedgerFits(causes, r), Disjoint(causes),
         Follows(c, causes, Len(causes)), c.index < Len(c.prefix)
  PROVE  Disjoint(Append(causes, c))
<1> DEFINE n == Len(causes)
           more == Append(causes, c)
<1>1. n \in Nat /\ Len(more) = n + 1 /\ more[n + 1] = c /\ \A i \in 1..n : more[i] = causes[i]
  OBVIOUS
<1>2. c.index \in Nat /\ c.prefix \in Seq(Moves) /\ Len(c.prefix) \in Nat
  BY DEF Cause, Records
<1>3. \A i \in 1..n : causes[i].index \in Nat /\ Len(causes[i].prefix) \in Nat
                      /\ causes[i].index < Len(causes[i].prefix)
  BY DEF Cause, Records, LedgerFits, CauseFits
<1>4. ASSUME NEW j \in 1..n
      PROVE  Len(causes[j].prefix) <= Len(causes[n].prefix)
  BY <1>1, <1>3 DEF Disjoint
<1>5. n # 0 => Len(causes[n].prefix) <= c.index
  BY <1>1 DEF Follows, Count
<1>6. ASSUME NEW j \in 1..n
      PROVE  Len(causes[j].prefix) <= c.index /\ Len(causes[j].prefix) < Len(c.prefix)
  BY <1>1, <1>2, <1>3, <1>4, <1>5
<1> HIDE DEF n, more
<1> SUFFICES ASSUME NEW i \in 1..Len(more), NEW j \in 1..(i - 1)
             PROVE  /\ Len(more[j].prefix) <= more[i].index
                    /\ Len(more[j].prefix) < Len(more[i].prefix)
  BY DEF Disjoint, more
<1>7. CASE i = n + 1
  BY <1>1, <1>6, <1>7
<1>8. CASE i # n + 1
  <2>1. i \in 1..n /\ j \in 1..n
    BY <1>1, <1>8
  <2>2. i \in 1..Len(causes)
    BY <2>1 DEF n
  <2> QED BY <1>1, <2>1, <2>2 DEF Disjoint
<1> QED BY <1>7, <1>8

-----------------------------------------------------------------------------
LEMMA InitHolds == Init => IInv
<1> SUFFICES ASSUME Init PROVE IInv
  OBVIOUS
<1>1. record \in Records
  BY LimitAssumption DEF Init, Records
<1>2. ledger \in Seq(Cause) /\ Len(ledger) = 0 /\ checkpoints = {} /\ lives \in Nat
  BY DEF Init
<1>3. LedgerFits(ledger, record) /\ Disjoint(ledger)
  BY <1>2, LimitAssumption DEF LedgerFits, Disjoint
<1>4. \A cp \in checkpoints : cp \in Checkpoint /\ Disjoint(cp.completions)
  BY <1>2
<1> QED BY <1>1, <1>2, <1>3, <1>4 DEF IInv, TypeOK

LEMMA RecordKeeps ==
  ASSUME IInv, NEW m \in Moves, Record(m)
  PROVE  IInv'
<1>1. record \in Seq(Moves) /\ Len(record) \in Nat /\ record' = Append(record, m)
  BY DEF IInv, TypeOK, Records, Record
<1>2. record' \in Records
  BY <1>1, LimitAssumption DEF Record, Records
<1>3. IsPrefix(record, record')
  BY <1>1, AppendExtends
<1>4. LedgerFits(ledger, record')
  BY <1>2, <1>3, FitsLonger DEF IInv, TypeOK
<1> QED BY <1>2, <1>4 DEF IInv, TypeOK, Record, LedgerFits, Disjoint

LEMMA CommitKeeps ==
  ASSUME IInv, NEW c, Commit(c)
  PROVE  IInv'
<1>1. c \in Cause /\ c.index < Len(c.prefix)
  BY DEF Commit, CauseFits
<1>2. ledger \in Seq(Cause) /\ record \in Records
  BY DEF IInv, TypeOK
<1>3. ledger' = Append(ledger, c) /\ ledger' \in Seq(Cause)
  BY <1>1, <1>2 DEF Commit
<1>4. Disjoint(ledger')
  BY <1>1, <1>2, <1>3, AppendDisjoint DEF IInv, Commit
<1>5. LedgerFits(ledger', record')
  BY DEF Commit
<1> QED BY <1>3, <1>4, <1>5 DEF IInv, TypeOK, Commit, Disjoint

LEMMA SnapshotKeeps ==
  ASSUME IInv, Snapshot
  PROVE  IInv'
<1> DEFINE cp == [prefix |-> record, completions |-> ledger]
<1>1. cp \in Checkpoint /\ Disjoint(cp.completions)
  BY DEF IInv, TypeOK, Checkpoint
<1>2. checkpoints' = checkpoints \cup {cp}
  BY DEF Snapshot
<1> QED BY <1>1, <1>2 DEF IInv, TypeOK, Snapshot, LedgerFits, Disjoint

LEMMA RestoreKeeps ==
  ASSUME IInv, NEW cp \in checkpoints, Restore(cp)
  PROVE  IInv'
<1>1. cp \in Checkpoint /\ Disjoint(cp.completions)
  BY DEF IInv, TypeOK
<1>2. cp.completions \in Seq(Cause) /\ cp.prefix \in Records
  BY <1>1 DEF Checkpoint
<1>3. LedgerFits(cp.completions, record)
  BY <1>2, FitsLonger DEF Restore, CheckpointFits, IInv, TypeOK
<1> QED BY <1>1, <1>2, <1>3 DEF IInv, TypeOK, Restore, LedgerFits, Disjoint

LEMMA ReloadKeeps ==
  ASSUME IInv, NEW n \in 0..Len(record), NEW completions \in Seq(Cause),
         Disjoint(completions), Reload(n, completions)
  PROVE  IInv'
<1>1. record' \in Records
  BY CutRecord DEF Reload, IInv, TypeOK
<1>2. ledger' = completions /\ lives' \in Nat /\ checkpoints' = checkpoints
  BY DEF Reload, IInv, TypeOK
<1>3. LedgerFits(ledger', record')
  BY DEF Reload
<1> QED BY <1>1, <1>2, <1>3 DEF IInv, TypeOK, Disjoint

LEMMA StepKeeps == IInv /\ [Next]_vars => IInv'
<1> SUFFICES ASSUME IInv, [Next]_vars PROVE IInv'
  OBVIOUS
<1>1. ASSUME NEW m \in Moves, Record(m) PROVE IInv'
  BY <1>1, RecordKeeps
<1>2. ASSUME NEW r \in Views, NEW c \in Proposals(r), Commit(c) PROVE IInv'
  BY <1>2, CommitKeeps
<1>3. ASSUME Snapshot PROVE IInv'
  BY <1>3, SnapshotKeeps
<1>4. ASSUME NEW cp \in checkpoints, Restore(cp) PROVE IInv'
  BY <1>4, RestoreKeeps
<1>5. ASSUME NEW n \in 0..Len(record), NEW cp \in checkpoints, ReloadCheckpoint(n, cp)
      PROVE  IInv'
  <2>1. cp.completions \in Seq(Cause) /\ Disjoint(cp.completions)
    BY DEF IInv, TypeOK, Checkpoint
  <2> QED BY <1>5, <2>1, ReloadKeeps DEF ReloadCheckpoint
<1>6. ASSUME NEW n \in 0..Len(record), NEW k \in 0..Len(ledger), ReplayJournal(n, k)
      PROVE  IInv'
  <2>1. ledger \in Seq(Cause) /\ Disjoint(ledger)
    BY DEF IInv, TypeOK
  <2>2. SubSeq(ledger, 1, k) \in Seq(Cause) /\ Disjoint(SubSeq(ledger, 1, k))
    BY <2>1, CutDisjoint
  <2> QED BY <1>6, <2>2, ReloadKeeps DEF ReplayJournal
<1>7. CASE UNCHANGED vars
  BY <1>7 DEF vars, IInv, TypeOK, LedgerFits, Disjoint
<1> QED BY <1>1, <1>2, <1>3, <1>4, <1>5, <1>6, <1>7 DEF Next

\* The ledger fits its record in every reachable state, and every ledger held
\* anywhere is a list of disjoint turns.
THEOREM Invariance == Spec => []IInv
BY InitHolds, StepKeeps, PTL DEF Spec

\* Type correctness of record, ledger and checkpoints.
THEOREM TypeCorrect == Spec => []TypeOK
<1>1. IInv => TypeOK
  BY DEF IInv
<1> QED BY <1>1, Invariance, PTL

\* No move decides two turns and no turn is of another record, whatever stale,
\* repeated or conflicting causes and checkpoints are handed in.
THEOREM DisjointTurns == Spec => []TurnsAreDisjoint
<1>1. IInv => TurnsAreDisjoint
  <2> SUFFICES ASSUME IInv, NEW i \in 1..Len(ledger)
               PROVE  /\ ledger[i].ordinal = i
                      /\ IsPrefix(ledger[i].prefix, record)
                      /\ \A j \in 1..(i - 1) :
                           /\ Len(ledger[j].prefix) <= ledger[i].index
                           /\ Len(ledger[j].prefix) < Len(ledger[i].prefix)
    BY DEF TurnsAreDisjoint
  <2>1. ledger[i].ordinal = (i - 1) + 1 /\ IsPrefix(ledger[i].prefix, record)
    BY DEF IInv, LedgerFits, Follows, CauseFits
  <2>2. ledger[i].ordinal = i
    BY <2>1
  <2>3. \A j \in 1..(i - 1) : /\ Len(ledger[j].prefix) <= ledger[i].index
                              /\ Len(ledger[j].prefix) < Len(ledger[i].prefix)
    BY DEF IInv, Disjoint
  <2> QED BY <2>1, <2>2, <2>3
<1> QED BY <1>1, Invariance, PTL

\* While a match holds its ledger, completed turns are neither taken back nor
\* replaced.
THEOREM HistoryKept == Spec => HistoryStands
<1>1. IInv /\ [Next]_vars => [lives' = lives => IsPrefix(ledger, ledger')]_vars
  <2> SUFFICES ASSUME IInv, Next, lives' = lives PROVE IsPrefix(ledger, ledger')
    OBVIOUS
  <2>1. ledger \in Seq(Cause) /\ Len(ledger) \in Nat /\ lives \in Nat
    BY DEF IInv, TypeOK
  <2>2. ASSUME NEW m \in Moves, Record(m) PROVE IsPrefix(ledger, ledger')
    BY <2>1, <2>2, PrefixElements DEF Record
  <2>3. ASSUME NEW r \in Views, NEW c \in Proposals(r), Commit(c) PROVE IsPrefix(ledger, ledger')
    <3>1. ledger' = Append(ledger, c) /\ c \in Cause
      BY <2>3 DEF Commit, CauseFits
    <3> QED BY <2>1, <3>1, AppendExtends
  <2>4. ASSUME Snapshot PROVE IsPrefix(ledger, ledger')
    BY <2>1, <2>4, PrefixElements DEF Snapshot
  <2>5. ASSUME NEW cp \in checkpoints, Restore(cp) PROVE IsPrefix(ledger, ledger')
    <3>1. cp.completions \in Seq(Cause)
      BY DEF IInv, TypeOK, Checkpoint
    <3>2. ledger' = cp.completions /\ Len(cp.completions) >= Len(ledger)
          /\ SubSeq(cp.completions, 1, Len(ledger)) = ledger
      BY <2>5 DEF Restore, Continues
    <3>3. \A i \in 1..Len(ledger) : SubSeq(cp.completions, 1, Len(ledger))[i] = cp.completions[i]
      BY <2>1, <3>1, <3>2
    <3> QED BY <2>1, <3>1, <3>2, <3>3, PrefixElements
  <2>6. ASSUME NEW n, NEW completions, Reload(n, completions) PROVE FALSE
    BY <2>1, <2>6 DEF Reload
  <2> QED BY <2>2, <2>3, <2>4, <2>5, <2>6 DEF Next, ReloadCheckpoint, ReplayJournal
<1> QED BY <1>1, Invariance, PTL DEF Spec, HistoryStands

-----------------------------------------------------------------------------
\* The timed exclusion.
Colours == {"black", "white"}
Move == [type : {"mp_move"}, side : Colours]
        \cup [type : {"declare_battle"}, from : All, to : All] \cup [type : {"spin"}]
Causes == [index : Nat, kind : {"resolved_battle", "nonbattle_mp_move"}, side : Colours]
Removal == [figure : All, actor : All, remaining : 1..7, cause : Causes]

TimedTypeOK == /\ moves \in Seq(Move)
               /\ places \in [All -> Spots \cup {OnBench, Excluded}]
               /\ boundary # NoTurn => boundary \in Causes
               /\ timed # NoTurn => timed \in Removal

\* Whose turn is the i-th after the one that removed the figure.
Opposite(side) == IF side = "black" THEN "white" ELSE "black"
TurnAfter(cause, i) == IF i % 2 = 1 THEN Opposite(cause.side) ELSE cause.side

\* The turns counted so far are the movements behind the removing one.
Counted ==
  timed # NoTurn =>
    /\ timed.remaining < 7 => boundary # NoTurn /\ boundary.side = TurnAfter(timed.cause, 6 - timed.remaining)
    /\ \A i \in 1..(6 - timed.remaining) :
         /\ timed.cause.index + i <= Len(moves)
         /\ moves[timed.cause.index + i] = [type |-> "mp_move", side |-> TurnAfter(timed.cause, i)]

TimedInv == TimedTypeOK /\ Counted

-----------------------------------------------------------------------------
LEMMA TimedInitHolds == TimedInit => TimedInv
BY DEF TimedInit, TimedInv, TimedTypeOK, Counted

\* A longer record says the same of the turns counted.
LEMMA LongerRecord ==
  ASSUME TimedInv, timed' = timed, boundary' = boundary,
         moves' \in Seq(Move), Len(moves) <= Len(moves'), \A i \in 1..Len(moves) : moves'[i] = moves[i]
  PROVE  Counted'
<1> SUFFICES ASSUME timed # NoTurn PROVE Counted'
  BY DEF Counted
<1>1. timed \in Removal /\ timed.remaining \in 1..7 /\ timed.cause.index \in Nat
  BY DEF TimedInv, TimedTypeOK, Removal, Causes
<1>2. Len(moves) \in Nat /\ Len(moves') \in Nat
  BY DEF TimedInv, TimedTypeOK
<1>3. ASSUME NEW i \in 1..(6 - timed.remaining)
      PROVE  /\ timed.cause.index + i <= Len(moves')
             /\ moves'[timed.cause.index + i] = [type |-> "mp_move", side |-> TurnAfter(timed.cause, i)]
  <2>1. /\ timed.cause.index + i <= Len(moves)
        /\ moves[timed.cause.index + i] = [type |-> "mp_move", side |-> TurnAfter(timed.cause, i)]
    BY DEF TimedInv, Counted
  <2>2. timed.cause.index + i \in 1..Len(moves)
    BY <1>1, <1>2, <2>1
  <2> QED BY <1>1, <1>2, <2>1, <2>2
<1> QED BY <1>3 DEF TimedInv, Counted

LEMMA BeginKeeps ==
  ASSUME TimedInv, NEW p \in All, NEW actor \in All, Begin1692Removal(p, actor)
  PROVE  TimedInv'
<1> DEFINE cause == CauseFor("resolved_battle", SideOf(actor))
           removal == [figure |-> p, actor |-> actor, remaining |-> 7, cause |-> cause]
<1>1. timed' = removal /\ places' = [places EXCEPT ![p] = Excluded] /\ moves' = moves /\ boundary' = boundary
  BY DEF Begin1692Removal
<1>2. Len(moves) \in Nat
  BY DEF TimedInv, TimedTypeOK
<1>3. removal \in Removal /\ removal.remaining = 7
  BY <1>2 DEF CauseFor, SideOf, Colours, Removal, Causes
<1> HIDE DEF removal
<1>4. TimedTypeOK'
  BY <1>1, <1>3 DEF TimedInv, TimedTypeOK
<1>5. Counted'
  <2>1. timed'.remaining = 7 /\ 1..(6 - timed'.remaining) = {}
    BY <1>1, <1>3
  <2> QED BY <2>1 DEF Counted
<1> QED BY <1>4, <1>5 DEF TimedInv

\* What telling the module of a turn does to the turns counted, up to the last.
LEMMA AdvanceCounts ==
  ASSUME TimedInv, NEW kind \in {"resolved_battle", "nonbattle_mp_move"}, NEW side \in Colours,
         AdvanceCompletedTurn(kind, side), timed # NoTurn
  PROVE  LET n == 7 - timed.remaining IN
         /\ boundary' \in Causes /\ boundary'.side = TurnAfter(timed.cause, n)
         /\ timed.remaining < 7 => Len(moves) = timed.cause.index + n
         /\ \A i \in 1..n :
              /\ timed.cause.index + i <= Len(moves)
              /\ moves[timed.cause.index + i] = [type |-> "mp_move", side |-> TurnAfter(timed.cause, i)]
<1> DEFINE n == 7 - timed.remaining
           cause == CauseFor(kind, side)
<1>1. timed.remaining \in 1..7 /\ timed.cause \in Causes /\ timed.cause.index \in Nat
      /\ timed.cause.side \in Colours /\ Len(moves) \in Nat
  BY DEF TimedInv, TimedTypeOK, Removal, Causes
<1>2. cause \in Causes /\ boundary' = cause /\ cause.index = Len(moves) /\ cause.side = side /\ cause.kind = kind
  BY <1>1 DEF CauseFor, Causes, AdvanceCompletedTurn
<1>3. CASE timed.remaining = 7
  <2>1. cause = timed.cause
    BY <1>3 DEF AdvanceCompletedTurn, Starting
  <2>2. n = 0 /\ TurnAfter(timed.cause, 0) = timed.cause.side
    BY <1>3 DEF TurnAfter
  <2> QED BY <1>2, <1>3, <2>1, <2>2
<1>4. CASE timed.remaining # 7
  <2>1. /\ boundary # NoTurn /\ boundary \in Causes /\ boundary.index \in Nat /\ boundary.side \in Colours
        /\ boundary.side = TurnAfter(timed.cause, n - 1)
    BY <1>1, <1>4 DEF TimedInv, TimedTypeOK, Counted, Causes
  <2>2. boundary.index >= timed.cause.index
        /\ timed.remaining = 6 - (boundary.index - timed.cause.index)
    BY <1>4 DEF AdvanceCompletedTurn, Sound
  <2>3. cause.index = boundary.index + 1 /\ cause.kind = "nonbattle_mp_move" /\ cause.side # boundary.side
    BY <1>4, <2>1 DEF AdvanceCompletedTurn, Starting, Adjoins
  <2>4. moves[Len(moves)] = [type |-> "mp_move", side |-> side]
    BY <1>2, <2>3 DEF AdvanceCompletedTurn, EndsTurn
  <2>5. Len(moves) = timed.cause.index + n /\ n \in 1..6
    BY <1>1, <1>2, <1>4, <2>1, <2>2, <2>3
  <2>6. side = TurnAfter(timed.cause, n)
    <3>1. \A i \in 1..6 : i % 2 = 1 <=> ~((i - 1) % 2 = 1)
      OBVIOUS
    <3>2. n % 2 = 1 <=> ~((n - 1) % 2 = 1)
      BY <2>5, <3>1
    <3>3. side # TurnAfter(timed.cause, n - 1)
      BY <1>2, <2>1, <2>3
    <3> QED BY <1>1, <3>2, <3>3 DEF TurnAfter, Opposite, Colours
  <2>7. ASSUME NEW i \in 1..n
        PROVE  /\ timed.cause.index + i <= Len(moves)
               /\ moves[timed.cause.index + i] = [type |-> "mp_move", side |-> TurnAfter(timed.cause, i)]
    <3>1. CASE i = n
      BY <1>1, <2>4, <2>5, <2>6, <3>1
    <3>2. CASE i # n
      <4>1. i \in 1..(6 - timed.remaining)
        BY <1>1, <3>2
      <4> QED BY <4>1 DEF TimedInv, Counted
    <3> QED BY <3>1, <3>2
  <2> QED BY <1>2, <2>5, <2>6, <2>7
<1> QED BY <1>3, <1>4

LEMMA AdvanceKeeps ==
  ASSUME TimedInv, NEW kind \in {"resolved_battle", "nonbattle_mp_move"}, NEW side \in Colours,
         AdvanceCompletedTurn(kind, side)
  PROVE  TimedInv'
<1>1. moves' = moves /\ boundary' \in Causes
  <2>1. Len(moves) \in Nat
    BY DEF TimedInv, TimedTypeOK
  <2> QED BY <2>1 DEF AdvanceCompletedTurn, CauseFor, Causes
<1>2. CASE timed = NoTurn
  BY <1>1, <1>2 DEF AdvanceCompletedTurn, TimedInv, TimedTypeOK, Counted
<1>3. CASE timed # NoTurn /\ timed.remaining > 1
  <2>1. timed' = [timed EXCEPT !.remaining = @ - 1] /\ places' = places /\ timed \in Removal
        /\ timed.remaining \in 2..7
    BY <1>3 DEF AdvanceCompletedTurn, TimedInv, TimedTypeOK, Removal
  <2>2. timed' \in Removal /\ timed'.remaining = timed.remaining - 1 /\ timed'.cause = timed.cause
    BY <2>1 DEF Removal
  <2>3. TimedTypeOK'
    BY <1>1, <2>1, <2>2 DEF TimedInv, TimedTypeOK
  <2>4. 6 - timed'.remaining = 7 - timed.remaining
    BY <2>1, <2>2
  <2>5. timed' # NoTurn => boundary' # NoTurn
    BY <1>3, <2>1, <2>2 DEF AdvanceCompletedTurn, Sound
  <2>6. Counted'
    BY <1>1, <1>3, <2>2, <2>4, <2>5, AdvanceCounts DEF Counted
  <2> QED BY <2>3, <2>6 DEF TimedInv
<1>4. CASE timed # NoTurn /\ timed.remaining = 1
  <2>1. timed' = NoTurn /\ places' = [places EXCEPT ![timed.figure] = OnBench]
    BY <1>4 DEF AdvanceCompletedTurn
  <2> QED BY <1>1, <2>1 DEF TimedInv, TimedTypeOK, Counted
<1> QED BY <1>2, <1>3, <1>4 DEF AdvanceCompletedTurn

LEMMA MovementKeeps ==
  ASSUME TimedInv, NEW p \in All, NEW to \in Spots, Movement(p, to)
  PROVE  TimedInv'
<1> DEFINE move == [type |-> "mp_move", side |-> SideOf(p)]
<1>1. move \in Move /\ moves \in Seq(Move)
  BY DEF Move, SideOf, Colours, TimedInv, TimedTypeOK
<1> HIDE DEF move
<1>2. moves' = Append(moves, move) /\ timed' = timed /\ boundary' = boundary
      /\ places' = [places EXCEPT ![p] = to]
  BY DEF Movement, move
<1>3. moves' \in Seq(Move) /\ Len(moves) <= Len(moves') /\ \A i \in 1..Len(moves) : moves'[i] = moves[i]
  BY <1>1, <1>2
<1>4. TimedTypeOK'
  BY <1>2, <1>3 DEF TimedInv, TimedTypeOK
<1> QED BY <1>2, <1>3, <1>4, LongerRecord DEF TimedInv

LEMMA BattleKeeps ==
  ASSUME TimedInv, NEW from \in All, NEW to \in All, Battle(from, to)
  PROVE  TimedInv'
<1> DEFINE more == <<[type |-> "declare_battle", from |-> from, to |-> to], [type |-> "spin"]>>
<1>1. more \in Seq(Move) /\ moves \in Seq(Move) /\ Len(more) = 2
  BY DEF Move, TimedInv, TimedTypeOK
<1> HIDE DEF more
<1>2. moves' = moves \o more /\ timed' = timed /\ boundary' = boundary /\ places' = places
  BY DEF Battle, more
<1>3. moves' \in Seq(Move) /\ Len(moves) <= Len(moves') /\ \A i \in 1..Len(moves) : moves'[i] = moves[i]
  BY <1>1, <1>2
<1>4. TimedTypeOK'
  BY <1>2, <1>3 DEF TimedInv, TimedTypeOK
<1> QED BY <1>2, <1>3, <1>4, LongerRecord DEF TimedInv

LEMMA TimedStepKeeps == TimedInv /\ [TimedNext]_timedVars => TimedInv'
<1> SUFFICES ASSUME TimedInv, [TimedNext]_timedVars PROVE TimedInv'
  OBVIOUS
<1>1. CASE TimedNext
  BY <1>1, BeginKeeps, BattleKeeps, AdvanceKeeps, MovementKeeps DEF TimedNext, Colours
<1>2. CASE UNCHANGED timedVars
  BY <1>2 DEF timedVars, TimedInv, TimedTypeOK, Counted
<1> QED BY <1>1, <1>2

THEOREM TimedInvariance == TimedSpec => []TimedInv
<1> QED BY TimedInitHolds, TimedStepKeeps, PTL DEF TimedSpec

\* Only a turn told to the module brings a figure back, and only the seventh.
Returns(p) ==
  /\ timed # NoTurn /\ timed.figure = p /\ places'[p] = OnBench
  /\ LET other == IF timed.cause.side = "black" THEN "white" ELSE "black" IN
     SubSeq(moves, timed.cause.index + 1, Len(moves)) =
       [i \in 1..6 |-> [type |-> "mp_move",
                        side |-> IF i % 2 = 1 THEN other ELSE timed.cause.side]]

LEMMA OnlyAdvanceReturns ==
  ASSUME TimedInv, TimedNext, NEW p \in All, places[p] = Excluded, places'[p] # Excluded
  PROVE  Returns(p)
<1>1. ~(\E q, r \in All : Begin1692Removal(q, r) \/ Battle(q, r))
  BY DEF Begin1692Removal, Battle, TimedInv, TimedTypeOK
<1>2. ~(\E q \in All, to \in Spots : Movement(q, to))
  BY DEF Movement, TimedInv, TimedTypeOK
<1>3. PICK kind \in {"resolved_battle", "nonbattle_mp_move"}, side \in Colours : AdvanceCompletedTurn(kind, side)
  BY <1>1, <1>2 DEF TimedNext, Colours
<1>4. timed # NoTurn /\ timed.remaining = 1 /\ places' = [places EXCEPT ![timed.figure] = OnBench]
  BY <1>3 DEF AdvanceCompletedTurn
<1>5. timed.figure = p /\ places'[p] = OnBench
  BY <1>4 DEF TimedInv, TimedTypeOK
<1>6. /\ Len(moves) = timed.cause.index + 6
      /\ \A i \in 1..6 : moves[timed.cause.index + i] = [type |-> "mp_move", side |-> TurnAfter(timed.cause, i)]
  BY <1>3, <1>4, AdvanceCounts
<1>7. timed.cause.index \in Nat /\ moves \in Seq(Move)
  BY <1>4 DEF TimedInv, TimedTypeOK, Removal, Causes
<1> DEFINE tail == SubSeq(moves, timed.cause.index + 1, Len(moves))
<1>8. tail = [i \in 1..6 |-> moves[timed.cause.index + i]]
  <2> DEFINE c == timed.cause.index
  <2>1. c \in Nat /\ moves \in Seq(Move) /\ Len(moves) = c + 6 /\ tail = SubSeq(moves, c + 1, c + 6)
    BY <1>6, <1>7
  <2> HIDE DEF c
  <2>2. SubSeq(moves, c + 1, c + 6) = [i \in 1..((c + 6) - (c + 1) + 1) |-> moves[(c + 1) + i - 1]]
    BY <2>1
  <2>3. (c + 6) - (c + 1) + 1 = 6 /\ \A i \in 1..6 : (c + 1) + i - 1 = c + i
    BY <2>1
  <2>4. SubSeq(moves, c + 1, c + 6) = [i \in 1..6 |-> moves[c + i]]
    BY <2>2, <2>3
  <2> QED BY <2>1, <2>4 DEF c
<1>9. tail = [i \in 1..6 |-> [type |-> "mp_move", side |-> TurnAfter(timed.cause, i)]]
  BY <1>6, <1>8
<1> QED BY <1>4, <1>5, <1>9 DEF Returns, TurnAfter, Opposite

\* A figure comes back on the seventh completed turn and at no other time, for
\* any figures, places and length of the match.
THEOREM SeventhTurn == TimedSpec => BackOnTheSeventhTurn
<1> DEFINE Step == \A p \in All : places[p] = Excluded /\ places'[p] # Excluded => Returns(p)
<1>1. TimedInv /\ [TimedNext]_timedVars => [Step]_timedVars
  BY OnlyAdvanceReturns
<1> QED BY <1>1, TimedInvariance, PTL DEF TimedSpec, BackOnTheSeventhTurn, Returns
=============================================================================
