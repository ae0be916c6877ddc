\* Clients that wait for each answer.
SPECIFICATION Spec
CONSTANTS
  a = a
  b = b
  i1 = i1
  i2 = i2
  n1 = n1
  n2 = n2
  t1 = t1
  t2 = t2
  Names = {a, b}
  DocIds = {i1, i2}
  Nets = {n1, n2}
  Docs <- DocsTwins
  None = None
  Topos = {t1, t2}
  NoTopo = NoTopo
  Switched = {t1}
  BpThreads = {p1}
  MzThreads = {m1}
  NoThread = NoThread
  InitVnis = 2
  MaxFaults = 0
  MaxRequests = 4
  MaxKills = 0
  Serial = TRUE
INVARIANTS
  IdleTablesAgree
