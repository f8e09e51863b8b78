SPECIFICATION Spec
CONSTANTS
  MaxUser = 3
  MaxBroadcast = 1
  Batch = 2
  Blockers = {2}
  Links = {l1}
  NoLink = NoLink
  MaxStarts = 1
  MaxLost = 1
  Faults = {"db", "net", "stop"}
INVARIANTS
  TypeOK
  NobodySkipped
  OnceUnlessInterrupted
  NumbersAreTrue
  CancelBites
  ToldOnceDone
  FunnelNarrows
PROPERTIES
  FinalIsFinal
  BroadcastEnds
