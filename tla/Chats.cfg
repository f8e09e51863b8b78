SPECIFICATION MCSpec
CONSTANTS
  u1 = u1
  u2 = u2
  p1 = p1
  Users = {u1, u2}
  Adder = u1
  Topics = {t1}
  General = General
  Repos = {p1, p2}
  Senders = {w1}
  Parts = 2
  MaxAttempts = 2
  MaxRows = 2
  MaxIntegs = 2
  MaxJobs = 1
  MaxMoves = 1
  MaxFaults = 1
CHECK_DEADLOCK FALSE
INVARIANTS
  TypeOK
  QueuedWhereConnected
  GivenUpForCause
  WholeAndOncePerTry
PROPERTIES
  MigrationKeeps
  UpgradeFollowed
