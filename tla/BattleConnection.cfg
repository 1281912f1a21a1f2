\* Three connections for two players, and results that wait for the store,
\* are told, retained longer than the delay between two commits, and dismissed.
CONSTANTS
  c1 = c1
  c2 = c2
  c3 = c3
  b1 = b1
  b1b = b1b
  b2 = b2
  None = None
  Conns = {c1, c2, c3}
  Bearers = {b1, b2}
  Owner <- OneDevice
  JoinTimeout = 1
  ReconnectGrace = 2
  ResultRetention = 2
  RetryDelay = 1
  TicketLife = 1
  Lateness = 1
SPECIFICATION Spec
INVARIANTS
  OneLiveConnection
  AbsenceIsTimed
  DismissedIsOut
  ToldIsStored
PROPERTIES
  GraceIsNotExtended
  FirstToLeaveLoses
  ImplementsLifecycle
SYMMETRY ConnSymmetry
