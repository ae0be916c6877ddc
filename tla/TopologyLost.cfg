\* A topo request while a destruct runs.
SPECIFICATION Spec
CONSTANTS
  a = a
  b = b
  i1 = i1
  i2 = i2
  n1 = n1
  n2 = n2
  t1 = t1
  t2 = t2
  Names = {a}
  DocIds = {i1, i2}
  Nets = {n1, n2}
  Docs <- DocsPlain
  None = None
  Topos = {t1, t2}
  NoTopo = NoTopo
  Switched = {t1}
  BpThreads = {}
  MzThreads = {m1, m2}
  NoThread = NoThread
  InitVnis = 1
  MaxFaults = 0
  MaxRequests = 3
  MaxKills = 0
  Serial = FALSE
PROPERTIES
  OnlyTopoSetsTopology
