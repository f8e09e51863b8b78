SPECIFICATION FairSpec
CONSTANTS
  i1 = i1
  i2 = i2
  c1 = c1
  gh = gh
  ann = ann
  Handlers = {h1}
  Posts <- OnePush
  Connections = {gh}
  Forge <- OneInstallation
  Integrations = {i1, i2}
  ConnectionOf <- AllOfGitHub
  Chats = {c1}
  ChatOf <- OneChat
  MaxSends = 3
  Changes = {"delete"}
  Faults = {}
  Nothing = Nothing
PROPERTIES
  DeliveryNotLost
\* The forges send a bounded number of times.
CHECK_DEADLOCK FALSE
