SPECIFICATION MCSpec
CONSTANTS
  Rows = {1, 2, 3, 4}
  Workers = {w1}
  i1 = i1
  i2 = i2
  c1 = c1
  c2 = c2
  Integrations = {i1, i2}
  Chats = {c1, c2}
  ChatOf <- TwoChats
  BatchSize = 1
  MaxAttempts = 2
  MaxItems = 2
  ChatPerMinute = 1
  Minute = 2
  Schedule <- ShortSchedule
  MaxLate = 0
  Faults = {}
  NoJob = NoJob
PROPERTIES
  EveryEventSettles
  EventsStayInTheirChat
