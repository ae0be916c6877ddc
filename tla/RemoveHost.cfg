\* A host is added to a topology and removed again.
SPECIFICATION Spec
CONSTANTS
  CompNames = {"a", "b", "c"}
  NetNames = {"lan", "wan"}
  HostNames = {"h1", "h2"}
  SwNames = {"s1", "s2"}
  Ifxs <- MCIfxs
  Space <- MCSpace
  DefaultSpace = 4
  MaxDraws = 2
  NoMac = NoMac
  Slots = {"b1", "b2"}
  BaseBlueprints <- MCBlueprints
  BaseTopologies <- MCTopologies
  MaxEdits = 0
  Octet = 4
  Specs <- MCSpecs
  Scale = 120
  Overloaded <- VectorOverloaded
  Free <- FreeNorm
  NoHost = NoHost
INVARIANTS
  RemoveUndoesAdd
CHECK_DEADLOCK FALSE
