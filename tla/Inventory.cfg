CONSTANTS
  f1 = f1
  f2 = f2
  f3 = f3
  f4 = f4
  m1 = m1
  m2 = m2
  m3 = m3
  p1 = p1
  p2 = p2
  Starter = Starter
  None = None
  Figures <- MCFigures
  Catalog <- MCCatalog
  Matches <- MCMatches
  Unlock = 1
  Plates <- MCPlates
  Cost <- MCCost
  StarterFigures <- MCStarterFigures
  StarterPlates <- MCStarterPlates
  InitialDecks = 2
  MaxDecks = 3
  MaxFigures = 2
  MaxPlates = 2
  MaxCost = 2
  GemCost = 2
  StartGems = 3
  Null = Null
  u1 = u1
  u2 = u2
  d1 = d1
  d2 = d2
  d3 = d3
  Users <- MCUsers
  Devices <- MCDevices
  MaxPending = 2
  MaxLinks = 2
  LinkLife = 2
  SessionLife = 2
  CleanupEvery = 2
SYMMETRY Symmetry
CONSTRAINT Small
SPECIFICATION MCSpec
CHECK_DEADLOCK FALSE
INVARIANTS SlotsAreDistinct EveryChestPays HistoryIsTrue DecksAreLegal CredentialsMatchOwner
PROPERTIES CredentialsStand OnlyExpiryFailsALogin RefusalIsJust
