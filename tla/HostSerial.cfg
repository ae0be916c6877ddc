\* Requests to one host, each after the thread of the one before has ended.
SPECIFICATION FairSpec
CONSTANTS
  i1 = i1
  i2 = i2
  n1 = n1
  n2 = n2
  c1 = c1
  c2 = c2
  Ids = {i1, i2}
  Nets = {n1, n2}
  Comps = {c1, c2}
  Keys <- HostKeys
  Maps <- HostMaps
  Blueprints <- DocsSerial
  NoBlueprint = NoBlueprint
  NoComp = NoComp
  Removed = Removed
  NoId = NoId
  Threads = {t1}
  NoThread = NoThread
  MaxRequests = 4
  MaxFaults = 2
  Serial = TRUE
INVARIANTS
  HostTypeOK
  IdsDistinct
  BridgesKnown
  BootsOwnConfig
  DestructedIsDown
PROPERTIES
  OnlyMissAbandons
  HandlersEnd
