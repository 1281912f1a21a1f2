---------------------------- MODULE MCBookkeeping ----------------------------
(***************************************************************************)
(* What a match keeps beside its moves, one part at a time; the parts share *)
(* nothing.  The ledger: short records of one ending kind.  The Center: three *)
(* figures against one on three points, enough for a full Center and three  *)
(* knockouts by one battle.  The timed exclusion: a record that is just long *)
(* enough for a turn before the removal and the seven it takes.             *)
(***************************************************************************)
EXTENDS CompletedTurns, Center, TimedExclusions, TLC

CONSTANTS b1, w1, w2, s1, s2, s3,  \* figures and points of the timed exclusion
          MaxLives, MaxCheckpoints, MaxUntold, MarksOn

VARIABLE part
allVars == <<vars, centerVars, timedVars, part>>

TimedIdle == /\ moves = <<>> /\ places = [p \in All |-> OnBench] /\ boundary = NoTurn
             /\ timed = NoTurn /\ untimed = {}

MCInit == \/ part = "ledger" /\ Init /\ CenterInit /\ TimedIdle
          \/ part = "center" /\ CenterInit /\ Init /\ TimedIdle
          \/ part = "timed" /\ TimedInit /\ Init /\ CenterInit

\* The sides are alike in the ledger: black is the first to move in it.
ShortLedger == /\ record # <<>> => record[1].by # "white"
               /\ lives <= MaxLives /\ Cardinality(checkpoints) <= MaxCheckpoints
ToldInTime == Len(moves) <= MaxUntold + IF boundary = NoTurn THEN 0 ELSE boundary.index

MCNext ==
  /\ UNCHANGED part
  /\ \/ part = "ledger" /\ Next /\ ShortLedger' /\ UNCHANGED <<centerVars, timedVars>>
     \/ part = "center" /\ CenterNext /\ UNCHANGED <<vars, timedVars>>
     \/ part = "timed" /\ TimedNext /\ ToldInTime' /\ UNCHANGED <<vars, centerVars>>

MCSpec == MCInit /\ [][MCNext]_allVars

\* A board with other marks is still checked, but not played on.
Bounded == board.cursed \cup board.battled \subseteq MarksOn
=============================================================================
