\* Liveness: two accounts, two identifiers.
CONSTANTS
  u1 = u1
  u2 = u2
  u3 = u3
  s1 = s1
  s1b = s1b
  s2 = s2
  s3 = s3
  m1 = m1
  m2 = m2
  m3 = m3
  None = None
  Users = {u1, u2}
  Sessions = {s1, s2}
  Owner <- OneDevice
  MatchIds = {m1, m2}
  QueueLease = 1
  JoinTimeout = 1
  ResultRetention = 2
  RetryDelay = 1
SPECIFICATION FairSpec
PROPERTIES MatchesSettle
