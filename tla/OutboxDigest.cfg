SPECIFICATION Spec
CONSTANTS
  Rows = {r1, r2, r3}
  Workers = {w1, w2}
  i1 = i1
  i2 = i2
  c1 = c1
  c2 = c2
  Integrations = {i1}
  Chats = {c1}
  ChatOf <- OneChat
  BatchSize = 2
  MaxAttempts = 1
  MaxItems = 2
  ChatPerMinute = 1
  Minute = 1
  Schedule <- ShortSchedule
  MaxLate = 0
  Faults = {}
  NoJob = NoJob
SYMMETRY Symmetry
INVARIANTS
  SinglePendingDigest
