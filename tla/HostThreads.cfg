\* Overlapping requests. A thread may wait for ever on an abandoned lock.
CHECK_DEADLOCK FALSE
SPECIFICATION Spec
CONSTANTS
  i1 = i1
  i2 = i2
  n1 = n1
  n2 = n2
  c1 = c1
  c2 = c2
  Ids = {i1, i2}
  Nets = {n1, n2}
  Comps = {c1, c2}
  Keys <- HostKeys
  Maps <- HostMaps
  Blueprints <- DocsThreads
  NoBlueprint = NoBlueprint
  NoComp = NoComp
  Removed = Removed
  NoId = NoId
  Threads = {t1, t2}
  NoThread = NoThread
  MaxRequests = 3
  MaxFaults = 1
  Serial = FALSE
SYMMETRY SymThreads
INVARIANTS
  Exclusion
