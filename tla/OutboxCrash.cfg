SPECIFICATION FairSpec
CONSTANTS
  Rows = {r1, r2, r3}
  Workers = {w1}
  i1 = i1
  i2 = i2
  c1 = c1
  c2 = c2
  Integrations = {i1}
  Chats = {c1}
  ChatOf <- OneChat
  BatchSize = 3
  MaxAttempts = 1
  MaxItems = 1
  ChatPerMinute = 1
  Minute = 2
  Schedule <- ShortSchedule
  MaxLate = 0
  Faults = {"crash"}
  NoJob = NoJob
PROPERTIES
  EveryEventSettles
