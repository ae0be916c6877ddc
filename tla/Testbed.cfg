\* Two blueprints built, sent and embedded in topologies of two hosts.
SPECIFICATION FairSpec
CONSTANTS
  CompNames = {"a", "b", "c"}
  NetNames = {"lan", "wan"}
  HostNames = {"h1", "h2"}
  SwNames = {"s1", "s2"}
  Ifxs <- MCIfxs
  Space <- MCSpace
  DefaultSpace = 4
  MaxDraws = 2
  NoMac = NoMac
  Slots = {"b1", "b2"}
  BaseBlueprints <- MCBlueprints
  BaseTopologies <- MCTopologies
  MaxEdits = 1
  Octet = 4
  Specs <- MCSpecs
  Scale = 120
  Overloaded <- VectorOverloaded
  Free <- FreeNorm
  NoHost = NoHost
INVARIANTS
  TestbedTypeOK
  ConnectionsResolve
  RoundTripKeepsConnections
  NoHostOverloaded
  ChartHoldsEmbedded
  LostOnlyMultiHomed
  NeighboursShareSwitch
  AddressesUsable
PROPERTIES
  DeadLinksStayDead
  ImplementsPlacement
  EmbedEnds
\* embed() may end the process.
CHECK_DEADLOCK FALSE
