----------------------------- MODULE MCTestbed -----------------------------
(***************************************************************************)
(* Instances of Testbed for TLC: computers and hosts of a few cores, and   *)
(* the graphs that the program starts from.                                *)
(***************************************************************************)
EXTENDS Testbed, Load, TLC

GB(n) == [size |-> n, unit |-> "gb"]
MB(n) == [size |-> n, unit |-> "mb"]

\* Hosts of two and three cores.  Computer a takes one core, b and c two; b
\* also takes most of the memory of a host.
MCSpecs ==
  ("a" :> [cores |-> 1, memory |-> MB(1024), disk |-> GB(10), nics |-> <<MB(512)>>])
  @@ ("b" :> [cores |-> 2, memory |-> GB(3), disk |-> GB(10), nics |-> <<GB(1)>>])
  @@ ("c" :> [cores |-> 2, memory |-> GB(1), disk |-> GB(10), nics |-> <<GB(1)>>])
  @@ ("h1" :> [cores |-> 2, memory |-> GB(4), disk |-> GB(40), nics |-> <<GB(0), GB(5)>>])
  @@ ("h2" :> [cores |-> 3, memory |-> GB(4), disk |-> GB(40), nics |-> <<GB(0), GB(5)>>])

MCIfxs == [x \in {"a", "b", "c"} |-> {"eth0"}]

\* The last part of an address is taken modulo 4: of the addresses after 11
\* the first ends in 0.  wan begins where b and a of Small end.
MCSpace == ("lan" :> 11) @@ ("wan" :> 13)

\* Objects of the first draw.
Comp(x) == <<x, 1>>
Lan == <<"lan", 1>>
Wan == <<"wan", 1>>

Linked(b, x, n) == Connect(b, Comp(x), "eth0", n)

\* b and a on the lan, b first.
Small ==
  LET b == AddNetwork(AddComputer(AddComputer(NewBlueprint,
                        Comp("a")), Comp("b")), Lan)
  IN Linked(Linked(b, "b", Lan), "a", Lan)

\* The same, with b on another network too.
Gateway == Linked(AddNetwork(Small, <<"wan", 2>>), "b", <<"wan", 2>>)

Other ==
  Linked(AddNetwork(AddComputer(NewBlueprint, Comp("c")), Wan), "c", Wan)

\* Hosts linked to the switches that wires names for each.
Star(wires) ==
  LET t == AddSwitch(AddSwitch(AddHost(AddHost(NewTopology,
             <<"h1", 1>>), <<"h2", 1>>), <<"s1", 1>>), <<"s2", 1>>)
  IN FoldLeft(LAMBDA u, w : ConnectHost(u, <<w[1], 1>>, <<w[2], 1>>), t, wires)

\* In the second a computer was removed, in the third another was added that
\* is on no network.
MCBlueprints ==
  {("b1" :> Gateway) @@ ("b2" :> Other),
   ("b1" :> RemoveComputer(Gateway, "a")) @@ ("b2" :> Other),
   ("b1" :> AddComputer(Small, <<"a", 2>>)) @@ ("b2" :> NewBlueprint)}

MCTopologies ==
  {Star(<<<<"h1", "s1">>, <<"h2", "s1">>>>),
   Star(<<<<"h1", "s1">>, <<"h2", "s2">>>>),
   Star(<<<<"h1", "s1">>, <<"h2", "s2">>, <<"h1", "s2">>>>)}

=============================================================================
