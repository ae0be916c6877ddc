\* Save, delete, construct and destruct of one name, interleaved.
SPECIFICATION Spec
CONSTANTS
  a = a
  b = b
  i1 = i1
  i2 = i2
  n1 = n1
  n2 = n2
  t1 = t1
  t2 = t2
  Names = {a}
  DocIds = {i1, i2}
  Nets = {n1, n2}
  Docs <- DocsAll
  None = None
  Topos = {t1}
  NoTopo = NoTopo
  Switched = {t1}
  BpThreads = {p1}
  MzThreads = {m1, m2}
  NoThread = NoThread
  InitVnis = 1
  MaxFaults = 1
  MaxRequests = 4
  MaxKills = 1
  Serial = FALSE
SYMMETRY SymMz
INVARIANTS
  TypeOK
  NoOrphanMaterialization
  VniNeverShared
  MemoryMatchesTable
PROPERTIES
  ImplementsBlueprintLife
