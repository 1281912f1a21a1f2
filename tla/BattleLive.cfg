\* Liveness: an absence and a revocation come to an end.
CONSTANTS
  c1 = c1
  c2 = c2
  c3 = c3
  b1 = b1
  b1b = b1b
  b2 = b2
  None = None
  Conns = {c1, c2}
  Bearers = {b1, b2}
  Owner <- OneDevice
  JoinTimeout = 1
  ReconnectGrace = 1
  ResultRetention = 1
  RetryDelay = 1
  TicketLife = 1
  Lateness = 0
SPECIFICATION FairSpec
PROPERTIES ConnectionsSettle
