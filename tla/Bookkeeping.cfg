CONSTANTS
  b1 = b1
  w1 = w1
  w2 = w2
  s1 = s1
  s2 = s2
  s3 = s3
  Kinds = {"null_move"}
  Neutral = {}
  MaxMoves = 3
  MaxCompletions = 2
  MaxLives = 1
  MaxCheckpoints = 1
  Blacks = 3
  Whites = 1
  Field = 3
  Immune = {1}
  AttackWaits = {}
  MostFallen = 1
  Nobody = Nobody
  Black = {b1}
  White = {w1, w2}
  Spots = {s1, s2, s3}
  OnBench = OnBench
  Excluded = Excluded
  NoTurn = NoTurn
  MaxRecord = 9
  MaxUntold = 3
  MarksOn = {0, 3}
SPECIFICATION MCSpec
CONSTRAINT Bounded
CHECK_DEADLOCK FALSE
INVARIANTS TurnsAreDisjoint BoardIsSound KnockoutsNeverBlock
PROPERTIES HistoryStands StagedIsBatch BackOnTheSeventhTurn
