SPECIFICATION MCSpec
CONSTANTS
  i1 = i1
  i2 = i2
  i3 = i3
  i4 = i4
  c1 = c1
  gh = gh
  gl1 = gl1
  gl2 = gl2
  ann = ann
  Handlers = {1, 2}
  Posts <- AllPosts
  Connections = {gh, gl1, gl2}
  Forge <- Forges
  Integrations = {i1, i2, i3, i4}
  ConnectionOf <- Owners
  Chats = {c1}
  ChatOf <- OneChat
  MaxSends = 2
  Changes = {"mute", "filter", "delete", "break", "toggle"}
  Faults = {"db", "crash"}
  Nothing = Nothing
INVARIANTS
  TypeOK
  QueuedOnce
  StarsBounded
PROPERTIES
  DeliveryNotLost
\* The forges send a bounded number of times.
CHECK_DEADLOCK FALSE
