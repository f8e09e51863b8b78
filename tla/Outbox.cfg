SPECIFICATION Spec
CONSTANTS
  Rows = {r1, r2, r3}
  Workers = {w1, w2}
  i1 = i1
  i2 = i2
  c1 = c1
  c2 = c2
  Integrations = {i1}
  Chats = {c1}
  ChatOf <- OneChat
  BatchSize = 2
  MaxAttempts = 2
  MaxItems = 2
  ChatPerMinute = 1
  Minute = 1
  Schedule <- ShortSchedule
  MaxLate = 0
  Faults = {"db", "net", "crash"}
  NoJob = NoJob
SYMMETRY Symmetry
INVARIANTS
  TypeOK
  ClaimedOnce
  RateValve
  AttemptBudget
  ToldOnceAndOnlyOfFailures
  CarriedOnce
PROPERTIES
  NoResendAfterAck
  ImplementsDeliveryQueue
  OutcomeIsFinal
  EventsLeaveAccountedFor
