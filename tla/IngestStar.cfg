SPECIFICATION Spec
CONSTANTS
  i1 = i1
  i2 = i2
  c1 = c1
  gh = gh
  ann = ann
  Handlers = {h1, h2}
  Posts <- StarTwice
  Connections = {gh}
  Forge <- OneInstallation
  Integrations = {i1}
  ConnectionOf <- AllOfGitHub
  Chats = {c1}
  ChatOf <- OneChat
  MaxSends = 1
  Changes = {}
  Faults = {}
  Nothing = Nothing
INVARIANTS
  StarOnce
\* The forges send a bounded number of times.
CHECK_DEADLOCK FALSE
