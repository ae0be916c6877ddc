--------------------------- MODULE MCHostControl ---------------------------
(***************************************************************************)
(* Instances of HostControl for TLC.                                       *)
(***************************************************************************)
EXTENDS HostControl, TLC

CONSTANTS i1, i2,         \* blueprints
          n1, n2,         \* networks
          c1, c2          \* computers

OneNet == [id |-> i1, nets |-> {n1}, comps |-> {}, linked |-> {}]
OtherNet == [id |-> i2, nets |-> {n2}, comps |-> {}, linked |-> {}]
BothNets == [id |-> i1, nets |-> {n1, n2}, comps |-> {}, linked |-> {}]
BothComps == [id |-> i1, nets |-> {}, comps |-> {c1, c2}, linked |-> {}]

\* A computer before and after it is linked to a network, and with the link
\* but without the network.
Alone == [id |-> i1, nets |-> {}, comps |-> {c1}, linked |-> {}]
Linked == [id |-> i1, nets |-> {n1}, comps |-> {c1}, linked |-> {c1}]
Dangling == [id |-> i1, nets |-> {}, comps |-> {c1}, linked |-> {c1}]

DocsSerial == {OneNet, BothNets, BothComps, Alone, Linked, Dangling}
DocsThreads == {OneNet, OtherNet, Alone, BothComps}
DocsNets == {OneNet, OtherNet}

HostKeys == Nets \cup Comps
SymThreads == Permutations(Threads)
HostMaps == {"bridge", "qk", "vhost", "live"}

=============================================================================
