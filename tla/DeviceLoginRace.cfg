CONSTANTS
  u1 = u1
  u2 = u2
  d1 = d1
  d2 = d2
  d3 = d3
  Null = Null
  Users <- MCUsers
  Devices <- MCDevices
  MaxPending = 2
  MaxLinks = 2
  LinkLife = 2
  SessionLife = 2
  CleanupEvery = 2
SYMMETRY Symmetry
SPECIFICATION Spec
INVARIANTS LoginNeverFails
