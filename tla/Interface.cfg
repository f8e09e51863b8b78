SPECIFICATION MCSpec
CONSTANTS
  Insts = {g1, g2}
  Users = {u1, u2}
  NoUser = NoUser
  Tokens = {t1, t2}
  TTL = 1
  Redirects = {k1, k2}
  Callers = {k1, k2}
  Life = 2
  Margin = 1
  Request = 1
  Conns = {1, 2, 3}
  Taps = {k1, k2}
  MaxTime = 2
  People = {ann, bob, cat}
  ann = ann
  bob = bob
  cat = cat
  NoOne = NoOne
  Deleted = Deleted
  BotAdmins = {ann}
  ChatOwner = bob
  Managers = {ann}
  Tasks = {k1, k2}
  Messages = {m1, t1, t2}
  m1 = m1
  NoMessage = NoMessage
  ListTTL = 1
  Prompts = 2
  MaxUpdates = 2
  MaxChanges = 1
  MaxDepth = 6
SYMMETRY Symmetry
CHECK_DEADLOCK FALSE
INVARIANTS
  TypesOK
  OwnedThroughLink
  TokenOutlivesRequest
  UnusedBounded
  AdmittedOnly
  PromptAnsweredOnce
PROPERTIES
  OwnerNeverReplaced
  FreshRights
  TappedIsTheOneThatChanges
