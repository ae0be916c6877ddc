---------------------------- MODULE ObjectGraph ----------------------------
(***************************************************************************)
(* Blueprints and testbed topologies as core/blueprint.cxx and             *)
(* core/topo.cxx keep them: maps from ids to objects, and a list of links  *)
(* between endpoints.  An id is <<name, draw>>: every object draws a fresh *)
(* one (a random UUID in the code), and the name makes it readable.  The   *)
(* attributes that go with a name (cores, memory, backplane) are left to   *)
(* module Load.                                                            *)
(***************************************************************************)
EXTENDS Naturals, Sequences, FiniteSets, SequencesExt

CONSTANTS
  CompNames, NetNames, HostNames, SwNames,
  Ifxs,        \* computer name -> names of the interfaces it is given
  Space,       \* network name -> first address of its address space
  DefaultSpace,\* the one a Network is born with
  MaxDraws,    \* bound: ids drawn under one name
  NoMac        \* an endpoint without a mac address

ASSUME NamesAssumption ==
  /\ MaxDraws \in Nat
  /\ \A S \in {CompNames, NetNames, HostNames, SwNames} : IsFiniteSet(S)
  /\ CompNames \cap NetNames = {} /\ HostNames \cap SwNames = {}
  /\ (CompNames \cup NetNames) \cap (HostNames \cup SwNames) = {}

ASSUME SpaceAssumption == Space \in [NetNames -> Nat] /\ DefaultSpace \in Nat

Names == CompNames \cup NetNames \cup HostNames \cup SwNames
Draws == 1 .. MaxDraws
CompIds == CompNames \X Draws
NetIds == NetNames \X Draws
HostIds == HostNames \X Draws
SwIds == SwNames \X Draws

Endpoint(id, mac) == [id |-> id, mac |-> mac]

\* a == e.  Not symmetric: an e without mac does not match an a with one.
SameEndpoint(a, e) == a.id = e.id /\ (a.mac # NoMac => a.mac = e.mac)

\* The second id of a link that has the first on the other side, as neighbors.
Far(l, id) == IF l[1].id = id THEN l[2] ELSE l[1]

-----------------------------------------------------------------------------
\* Blueprint

\* A mac address is drawn with its interface; the draw tells them apart.
Mac(c, ifx, draw) == <<c, ifx, draw>>

NewBlueprint == [computers |-> <<>>, networks |-> <<>>, links |-> <<>>]

\* computer(name), and add_ifx for each interface of Ifxs.
AddComputer(b, c) ==
  [b EXCEPT !.computers =
     [x \in DOMAIN @ \cup {c} |->
        IF x = c THEN [i \in Ifxs[c[1]] \cup {"cifx"} |-> Mac(c, i, 1)]
                 ELSE @[x]]]

\* network(name).ipv4(...)
AddNetwork(b, n) ==
  [b EXCEPT !.networks =
     [x \in DOMAIN @ \cup {n} |-> IF x = n THEN Space[n[1]] ELSE @[x]]]

Connect(b, c, ifx, n) ==
  [b EXCEPT !.links =
     Append(@, <<Endpoint(c, b.computers[c][ifx]), Endpoint(n, NoMac)>>)]

ConnectNets(b, n, m) ==
  [b EXCEPT !.links = Append(@, <<Endpoint(n, NoMac), Endpoint(m, NoMac)>>)]

\* Every computer of the name goes; the links stay.
RemoveComputer(b, name) ==
  [b EXCEPT !.computers =
     [c \in {x \in DOMAIN @ : x[1] # name} |-> @[c]]]

RemoveNetwork(b, name) ==
  [b EXCEPT !.networks =
     [n \in {x \in DOMAIN @ : x[1] # name} |-> @[n]]]

\* clone() keeps ids, macs and links, and forgets the address spaces.
CloneBlueprint(b) ==
  [b EXCEPT !.networks = [n \in DOMAIN @ |-> DefaultSpace]]

\* The other ends of the links of an object, by the position of the link.
Neighbors(b, id) ==
  LET mine == {i \in DOMAIN b.links : id \in {b.links[i][1].id, b.links[i][2].id}}
  IN [i \in mine |-> Far(b.links[i], id)]

\* The networks a computer is linked to.
ConnectedNetworks(b, c) ==
  {e.id : e \in Range(Neighbors(b, c))} \cap DOMAIN b.networks

\* The connections of a network: endpoints at computers of the blueprint.
ConnectedComputers(b, n) ==
  RestrictValues(Neighbors(b, n), LAMBDA e : e.id \in DOMAIN b.computers)

\* connectedComputers throws: getInterfaceByMac does not find a mac.
Broken(b, n) ==
  \E l \in Range(b.links) :
    LET e == Far(l, n)
    IN /\ n \in {l[1].id, l[2].id}
       /\ e.id \in DOMAIN b.computers
       /\ e.mac \notin Range(b.computers[e.id])

\* The computers that some network of the blueprint is linked to.
Connected(b) ==
  {c \in DOMAIN b.computers :
     \E n \in DOMAIN b.networks :
       \E e \in Range(ConnectedComputers(b, n)) : e.id = c}

\* json(): arrays of objects.
BlueprintJson(b) ==
  [computers |->
     {[id |-> c, interfaces |->
         {[name |-> i, mac |-> b.computers[c][i]] :
            i \in DOMAIN b.computers[c]}] : c \in DOMAIN b.computers},
   networks |-> {[id |-> n, ipv4 |-> b.networks[n]] : n \in DOMAIN b.networks},
   links |-> b.links]

\* Mutant: it keeps the mac addresses it is born with.
BugKeepsNewMacs(j) ==
  [i \in {x.name : x \in j.interfaces} |-> Mac(j.id, i, 2)]

\* A parsed computer is a new one, with an id and a cifx of its own, whose
\* id and interfaces are then set from the document.
ComputerFromJson(j) ==
  LET born == [i \in {"cifx"} |-> Mac(j.id, "cifx", 2)]
      read == [i \in {x.name : x \in j.interfaces} |->
                 (CHOOSE x \in j.interfaces : x.name = i).mac]
  IN [i \in DOMAIN born \cup DOMAIN read |->
        IF i \in DOMAIN read THEN read[i] ELSE born[i]]

\* Mutant: the address space is not read.
BugForgetsSpace(j) ==
  [computers |->
     [c \in {x.id : x \in j.computers} |->
        ComputerFromJson(CHOOSE x \in j.computers : x.id = c)],
   networks |-> [n \in {x.id : x \in j.networks} |-> DefaultSpace],
   links |-> j.links]

BlueprintFromJson(j) ==
  [computers |->
     [c \in {x.id : x \in j.computers} |->
        ComputerFromJson(CHOOSE x \in j.computers : x.id = c)],
   networks |->
     [n \in {x.id : x \in j.networks} |->
        (CHOOSE x \in j.networks : x.id = n).ipv4],
   links |-> j.links]

-----------------------------------------------------------------------------
\* TestbedTopology

NewTopology == [hosts |-> {}, switches |-> {}, links |-> <<>>]

AddHost(t, h) == [t EXCEPT !.hosts = @ \cup {h}]

AddSwitch(t, s) == [t EXCEPT !.switches = @ \cup {s}]

\* The interface of the host gives the endpoint a mac address.
ConnectHost(t, h, s) ==
  [t EXCEPT !.links = Append(@, <<Endpoint(h, Mac(h, "ifx", 1)),
                                  Endpoint(s, NoMac)>>)]

ConnectSwitches(t, s, r) ==
  [t EXCEPT !.links = Append(@, <<Endpoint(s, NoMac), Endpoint(r, NoMac)>>)]

RemoveEndpointLink(t, e) ==
  [t EXCEPT !.links =
     SelectSeq(@, LAMBDA l : ~SameEndpoint(l[1], e) /\ ~SameEndpoint(l[2], e))]

\* Neither removes the object itself, only the links that match its id.
RemoveSw(t, s) == RemoveEndpointLink(t, Endpoint(s, NoMac))

RemoveHost(t, h) == RemoveEndpointLink(t, Endpoint(h, NoMac))

\* Host and switch sets compare names: of several objects of one name, found
\* at the links in turn, the first is in the set.
FirstOfName(S, found) ==
  {x \in S :
     \E i \in DOMAIN found :
       /\ x \in found[i]
       /\ \A j \in 1 .. i - 1 : \A y \in S \cap found[j] : y[1] # x[1]}

ConnectedHosts(t, s) ==
  LET here(l) == {e \in 1 .. 2 : SameEndpoint(l[e], Endpoint(s, NoMac))}
  IN FirstOfName(t.hosts,
       [i \in DOMAIN t.links |->
          {t.links[i][3 - e].id : e \in here(t.links[i])}])

\* connect() puts the host first.  For a host on the second side the code
\* reads past the two endpoints; no operation makes such a link.
ConnectedSwitches(t, h) ==
  FirstOfName(t.switches,
    [i \in DOMAIN t.links |->
       IF t.links[i][1].id = h THEN {t.links[i][2].id} ELSE {}])

\* Links are not compared, nor the order of anything.
SameTopology(a, b) == a.hosts = b.hosts /\ a.switches = b.switches

\* Hosts and switches are written without their ids and draw new ones when
\* they are read; the links are written and read with the ids they had.
Redrawn(S, drawn) ==
  {<<x[1], drawn[x[1]] + Cardinality({y \in S : y[1] = x[1] /\ y[2] <= x[2]})>> :
     x \in S}

TopologyRead(t, drawn) ==
  [t EXCEPT !.hosts = Redrawn(@, drawn), !.switches = Redrawn(@, drawn)]

DrawnAfterRead(t, drawn) ==
  [n \in DOMAIN drawn |->
     drawn[n] + Cardinality({x \in t.hosts \cup t.switches : x[1] = n})]

=============================================================================
