------------------------------ MODULE Testbed ------------------------------
(***************************************************************************)
(* A program builds blueprints and a topology (stage "edit"), and embeds   *)
(* the blueprints in the topology, as test/core/model_embed.cxx does and   *)
(* construct of the materialization service is written to.  embed() and    *)
(* unembed() take the chart by value, so that a call works on copies and   *)
(* the caller's chart changes when it returns, or not at all when it       *)
(* throws.  One action of embed() is one iteration of its packing loop.    *)
(***************************************************************************)
EXTENDS ObjectGraph, Integers

CONSTANTS
  Slots,              \* the program's blueprints
  BaseBlueprints,     \* what the program has built before the first step ...
  BaseTopologies,
  MaxEdits,           \* bound: further edits
  Octet,              \* addresses a multiple of this are skipped; 256 in the code
  Overloaded(_, _),   \* machines are too much for a host
  Free(_, _),         \* how free a host is
  NoHost

\* Load is a sum over machines: less of it is no more.
ASSUME LoadAssumption ==
  \A h \in HostIds :
    /\ ~Overloaded(h, {})
    /\ \A S \in SUBSET CompIds :
         ~Overloaded(h, S) => \A T \in SUBSET S : ~Overloaded(h, T)

ASSUME FreeAssumption ==
  \A h \in HostIds : \A S \in SUBSET CompIds : Free(h, S) \in Int

ASSUME NoHostAssumption == NoHost \notin HostIds

\* After an address that is skipped comes one that is not.
ASSUME OctetAssumption == Octet \in Nat /\ Octet > 1

VARIABLES
  bp, tt,             \* the program's blueprints and topology
  drawn,              \* ids drawn so far, by name
  edits,
  stage,              \* "edit", "idle", "pack", "address" or "undefined"
  machines, carried,  \* the chart: machines by host, networks by switch
  embedded,           \* the blueprints in the chart
  slot,               \* the call: its blueprint,
  cs,                 \*   computers not yet packed, next one first,
  order,              \*   switches still to be tried,
  copies,             \*   the copies of host embeddings, by switch and host,
  work,               \*   the machines of the chart that will be returned
  outcome,            \* how the last call ended
  addr                \* addresses of the interfaces of each blueprint, by mac

graphs == <<bp, tt, drawn, edits>>
chart == <<machines, carried, embedded>>
call == <<slot, cs, order, copies, work>>
vars == <<graphs, stage, chart, call, outcome, addr>>

-----------------------------------------------------------------------------
\* The program's edits

DrawnIn(blueprints, t) ==
  LET ends(links) == {l[1].id : l \in Range(links)} \cup
                     {l[2].id : l \in Range(links)}
      ids == t.hosts \cup t.switches \cup
             UNION {DOMAIN blueprints[k].computers \cup
                    DOMAIN blueprints[k].networks \cup
                    ends(blueprints[k].links) : k \in Slots}
  IN [n \in Names |-> Cardinality({x \in ids : x[1] = n})]

BlueprintOK(b) ==
  /\ DOMAIN b = {"computers", "networks", "links"}
  /\ DOMAIN b.computers \subseteq CompIds
  /\ DOMAIN b.networks \subseteq NetIds

TopologyOK(t) ==
  /\ DOMAIN t = {"hosts", "switches", "links"}
  /\ t.hosts \subseteq HostIds
  /\ t.switches \subseteq SwIds

\* No two blueprints share an object, and ids are drawn in their order.
ASSUME BaseAssumption ==
  /\ Slots # {}
  /\ MaxEdits \in Nat
  /\ \A t \in BaseTopologies : TopologyOK(t)
  /\ \A b \in BaseBlueprints :
       /\ DOMAIN b = Slots
       /\ \A k \in Slots : BlueprintOK(b[k])
       /\ \A k, j \in Slots : k # j =>
            /\ DOMAIN b[k].computers \cap DOMAIN b[j].computers = {}
            /\ DOMAIN b[k].networks \cap DOMAIN b[j].networks = {}
       /\ \A k \in Slots : \A n \in DOMAIN b[k].networks : b[k].networks[n] \in Nat
       /\ \A t \in BaseTopologies :
            /\ DrawnIn(b, t) \in [Names -> 0 .. MaxDraws]
            /\ \A k \in Slots : \A c \in DOMAIN b[k].computers :
                 c[2] <= DrawnIn(b, t)[c[1]]

\* The links of a blueprint lead to ids that were drawn, and to macs that the
\* computers have.
LinksOK(b, d) ==
  /\ b.links \in Seq(Range(b.links))
  /\ \A l \in Range(b.links) : \A e \in {l[1], l[2]} :
       /\ e.id \in CompIds \cup NetIds
       /\ e.id[2] <= d[e.id[1]]
       /\ e.id \in DOMAIN b.computers => e.mac \in Range(b.computers[e.id])
  /\ \A c \in DOMAIN b.computers : Ifxs[c[1]] \subseteq DOMAIN b.computers[c]
  /\ \A n \in DOMAIN b.networks : n[2] <= d[n[1]]
  /\ b.networks = [n \in DOMAIN b.networks |-> b.networks[n]]

ASSUME LinksAssumption ==
  \A b \in BaseBlueprints, t \in BaseTopologies, k \in Slots :
    LinksOK(b[k], DrawnIn(b, t))

Edit ==
  /\ stage = "edit"
  /\ edits < MaxEdits
  /\ edits' = edits + 1
  /\ UNCHANGED <<stage, chart, call, outcome, addr>>

Draw(name) ==
  /\ drawn[name] < MaxDraws
  /\ drawn' = [drawn EXCEPT ![name] = @ + 1]

\* Mutant: the id is made from the name.
BugNamedId(name) == <<name, 1>>

Fresh(name) == <<name, drawn[name] + 1>>

EditBlueprint(k, b) == bp' = [bp EXCEPT ![k] = b] /\ UNCHANGED tt

NewComputer(k, name) ==
  Draw(name) /\ EditBlueprint(k, AddComputer(bp[k], Fresh(name)))

NewNetwork(k, name) ==
  Draw(name) /\ EditBlueprint(k, AddNetwork(bp[k], Fresh(name)))

LinkComputer(k) ==
  \E c \in DOMAIN bp[k].computers, n \in DOMAIN bp[k].networks :
    \E i \in Ifxs[c[1]] : EditBlueprint(k, Connect(bp[k], c, i, n))

LinkNetworks(k) ==
  \E n, m \in DOMAIN bp[k].networks : EditBlueprint(k, ConnectNets(bp[k], n, m))

DropComputer(k, name) == EditBlueprint(k, RemoveComputer(bp[k], name))

DropNetwork(k, name) == EditBlueprint(k, RemoveNetwork(bp[k], name))

Clone(k) == EditBlueprint(k, CloneBlueprint(bp[k]))

\* Written to a file, saved, and fetched by a service.
SendBlueprint(k) ==
  EditBlueprint(k, BlueprintFromJson(BlueprintJson(bp[k])))

EditTopology(t) == tt' = t /\ UNCHANGED bp

NewHost(name) == Draw(name) /\ EditTopology(AddHost(tt, Fresh(name)))

NewSwitch(name) == Draw(name) /\ EditTopology(AddSwitch(tt, Fresh(name)))

Plug == \E h \in tt.hosts, s \in tt.switches : EditTopology(ConnectHost(tt, h, s))

Trunk == \E s, r \in tt.switches : EditTopology(ConnectSwitches(tt, s, r))

DropSwitch == \E s \in tt.switches : EditTopology(RemoveSw(tt, s))

DropHost == \E h \in tt.hosts : EditTopology(RemoveHost(tt, h))

SendTopology ==
  /\ DrawnAfterRead(tt, drawn) \in [Names -> 0 .. MaxDraws]
  /\ drawn' = DrawnAfterRead(tt, drawn)
  /\ EditTopology(TopologyRead(tt, drawn))

BuildBlueprint(k) ==
  \/ \E name \in CompNames : NewComputer(k, name)
  \/ \E name \in NetNames : NewNetwork(k, name)
  \/ UNCHANGED drawn /\ \/ LinkComputer(k) \/ LinkNetworks(k)
                        \/ \E name \in CompNames : DropComputer(k, name)
                        \/ \E name \in NetNames : DropNetwork(k, name)
                        \/ Clone(k) \/ SendBlueprint(k)

BuildTopology ==
  \/ \E name \in HostNames : NewHost(name)
  \/ \E name \in SwNames : NewSwitch(name)
  \/ SendTopology
  \/ UNCHANGED drawn /\ (Plug \/ Trunk \/ DropSwitch \/ DropHost)

Build == Edit /\ (BuildTopology \/ \E k \in Slots : BuildBlueprint(k))

\* EChart ec{tt}
Chart ==
  /\ stage = "edit"
  /\ stage' = "idle"
  /\ UNCHANGED <<graphs, chart, call, outcome, addr>>

-----------------------------------------------------------------------------
\* embed(b, e, tt)

\* Networks from the one with most connections to the one with fewest.
ByConnections(b) ==
  LET size(n) == Cardinality(DOMAIN ConnectedComputers(b, n))
  IN {ns \in SetToSeqs(DOMAIN b.networks) :
        \A i, j \in DOMAIN ns : i < j => size(ns[i]) >= size(ns[j])}

\* In the lists of those networks, one after the other, c comes before d.
Earlier(b, ns, c, d) ==
  LET list == [i \in DOMAIN ns |-> ConnectedComputers(b, ns[i])]
  IN \E i \in DOMAIN ns : \E p \in DOMAIN list[i] :
       /\ list[i][p].id = c
       /\ \A j \in 1 .. i : \A q \in DOMAIN list[j] :
            list[j][q].id = d => j = i /\ p < q

\* Each connected computer once, in that order.
InPackingOrder(b, s) ==
  /\ s \in SetToSeqs(Connected(b))
  /\ \E ns \in ByConnections(b) :
       \A i, j \in DOMAIN s : i < j => Earlier(b, ns, s[i], s[j])

\* Sum of the free shares of the hosts of a switch.
AggregateFree(s) ==
  LET free == [h \in ConnectedHosts(tt, s) |-> Free(h, machines[h])]
  IN SumFunction(free)

\* Switches by ascending average.  Of a switch without hosts it is 0/0, with
\* which no order is wrong.
InSwitchOrder(s) ==
  LET size(x) == Cardinality(ConnectedHosts(tt, x))
  IN /\ s \in SetToSeqs(tt.switches)
     /\ \/ \E x \in tt.switches : size(x) = 0
        \/ \A i, j \in DOMAIN s :
             i < j => AggregateFree(s[i]) * size(s[j]) <=
                      AggregateFree(s[j]) * size(s[i])

Embed(k) ==
  /\ stage = "idle"
  /\ k \notin embedded
  /\ \A n \in DOMAIN bp[k].networks : ~Broken(bp[k], n)
  /\ stage' = "pack"
  /\ slot' = k
  /\ \E s \in SetToSeqs(Connected(bp[k])) : InPackingOrder(bp[k], s) /\ cs' = s
  /\ \E s \in SetToSeqs(tt.switches) : InSwitchOrder(s) /\ order' = s
  /\ copies' = [s \in SwIds |-> machines]
  /\ work' = machines
  /\ UNCHANGED <<graphs, chart, outcome, addr>>

EndCall(how) ==
  /\ outcome' = how
  /\ cs' = <<>>
  /\ order' = <<>>
  /\ copies' = [s \in SwIds |-> [h \in HostIds |-> {}]]
  /\ work' = [h \in HostIds |-> {}]
  /\ UNCHANGED <<graphs, slot>>

Throw(what) ==
  /\ stage' = "idle"
  /\ EndCall(what)
  /\ UNCHANGED <<chart, addr>>

\* Mutant: the computer that overloads the host is taken too.
BugTakesOneMore(h, m) ==
  LET with(n) == copies[Head(order)][h] \cup {cs[i] : i \in 1 .. n}
  IN /\ \A n \in 1 .. m - 1 : ~Overloaded(h, with(n))
     /\ m < Len(cs) => Overloaded(h, with(m))

\* pack(): the next m computers, and no more, fit on top of the copy.
Takes(h, m) ==
  LET with(n) == copies[Head(order)][h] \cup {cs[i] : i \in 1 .. n}
  IN /\ \A n \in 1 .. m : ~Overloaded(h, with(n))
     /\ m < Len(cs) => Overloaded(h, with(m + 1))

Freest(s, h) ==
  /\ h \in ConnectedHosts(tt, s)
  /\ \A g \in ConnectedHosts(tt, s) :
       Free(h, copies[s][h]) >= Free(g, copies[s][g])

\* Mutant: a host that is tried again starts empty.
BugStartsEmpty(h, m) ==
  /\ stage = "pack"
  /\ cs # <<>> /\ order # <<>>
  /\ Freest(Head(order), h)
  /\ Takes(h, m)
  /\ LET he == {cs[i] : i \in 1 .. m}
     IN /\ copies' = [copies EXCEPT ![Head(order)] = [@ EXCEPT ![h] = he]]
        /\ work' = [work EXCEPT ![h] = he]
  /\ cs' = SubSeq(cs, m + 1, Len(cs))
  /\ order' = IF m = 0 THEN Tail(order) ELSE order
  /\ UNCHANGED <<graphs, stage, chart, slot, outcome, addr>>

\* Mutant: a switch is tried until its hosts take the computers.
BugNeverGivesUp(h, m) ==
  /\ stage = "pack"
  /\ cs # <<>> /\ order # <<>>
  /\ Freest(Head(order), h)
  /\ Takes(h, m)
  /\ LET he == copies[Head(order)][h] \cup {cs[i] : i \in 1 .. m}
     IN /\ copies' = [copies EXCEPT ![Head(order)] = [@ EXCEPT ![h] = he]]
        /\ work' = [work EXCEPT ![h] = he]
  /\ cs' = SubSeq(cs, m + 1, Len(cs))
  /\ UNCHANGED <<graphs, stage, chart, slot, order, outcome, addr>>

\* The freest host of the switch takes what fits, from its copy.  If that is
\* nothing the switch is done with.
PackHost(h, m) ==
  /\ stage = "pack"
  /\ cs # <<>> /\ order # <<>>
  /\ Freest(Head(order), h)
  /\ Takes(h, m)
  /\ LET he == copies[Head(order)][h] \cup {cs[i] : i \in 1 .. m}
     IN /\ copies' = [copies EXCEPT ![Head(order)] = [@ EXCEPT ![h] = he]]
        /\ work' = [work EXCEPT ![h] = he]
  /\ cs' = SubSeq(cs, m + 1, Len(cs))
  /\ order' = IF m = 0 THEN Tail(order) ELSE order
  /\ UNCHANGED <<graphs, stage, chart, slot, outcome, addr>>

\* front() of an empty vector.
FrontOfEmpty ==
  /\ stage = "pack"
  /\ cs # <<>> /\ order # <<>>
  /\ ConnectedHosts(tt, Head(order)) = {}
  /\ stage' = "undefined"
  /\ UNCHANGED <<graphs, chart, call, outcome, addr>>

\* Mutant: what could be packed stays.
BugKeepsPartial ==
  /\ stage = "pack"
  /\ cs # <<>> /\ order = <<>>
  /\ stage' = "idle"
  /\ machines' = work
  /\ EndCall("failed")
  /\ UNCHANGED <<carried, embedded, addr>>

EmbeddingFailed ==
  /\ stage = "pack"
  /\ cs # <<>> /\ order = <<>>
  /\ Throw("failed")

HostsOf(c) == {h \in HostIds : c \in work[h]}

\* getEmbedding() does not find a computer that was packed.
NotFound ==
  /\ stage = "pack"
  /\ cs = <<>>
  /\ \E c \in Connected(bp[slot]) : HostsOf(c) = {}
  /\ Throw("lost")

\* Mutant: a switch is given the computers of the network.
BugCarriesComputers(b, s) ==
  LET at(e) == \E h \in HostsOf(e.id) : s \in ConnectedSwitches(tt, h)
  IN {e.id : e \in {x \in UNION {Range(ConnectedComputers(b, n)) :
                                  n \in DOMAIN b.networks} : at(x)}}

\* Mutant: from three connections on.
BugThreeConnections(b, s) ==
  LET at(e) == \E h \in HostsOf(e.id) : s \in ConnectedSwitches(tt, h)
  IN {n \in DOMAIN b.networks :
        LET cxs == ConnectedComputers(b, n)
        IN Cardinality({i \in DOMAIN cxs : at(cxs[i])}) > 2}

\* A switch carries a network that has two connections at hosts of it.
Spanned(b, s) ==
  LET at(e) == \E h \in HostsOf(e.id) : s \in ConnectedSwitches(tt, h)
  IN {n \in DOMAIN b.networks :
        LET cxs == ConnectedComputers(b, n)
        IN \E i, j \in DOMAIN cxs : i # j /\ at(cxs[i]) /\ at(cxs[j])}

Commit ==
  /\ stage = "pack"
  /\ cs = <<>>
  /\ \A c \in Connected(bp[slot]) : HostsOf(c) # {}
  /\ stage' = "address"
  /\ machines' = work
  /\ carried' = [s \in SwIds |->
                   IF s \in tt.switches THEN carried[s] \cup Spanned(bp[slot], s)
                                        ELSE carried[s]]
  /\ embedded' = embedded \cup {slot}
  /\ EndCall("embedded")
  /\ UNCHANGED addr

\* Mutant: no address is skipped.
BugSkipsNothing(a) == a

\* construct then numbers the interfaces, network by network in the order of
\* a hash table; the Interface is shared with the blueprint's.
SkipZero(a) == IF a % Octet = 0 THEN a + 1 ELSE a

\* The loop's next address after the links up to each.
NextAddress(b, n) ==
  LET f[p \in 0 .. Len(b.links)] ==
        IF p = 0 THEN b.networks[n]
        ELSE IF p \in DOMAIN ConnectedComputers(b, n) THEN SkipZero(f[p - 1]) + 1
        ELSE f[p - 1]
  IN f

AddressAt(b, n) ==
  [p \in DOMAIN ConnectedComputers(b, n) |-> SkipZero(NextAddress(b, n)[p - 1])]

Macs(b, n) == {e.mac : e \in Range(ConnectedComputers(b, n))}

Addresses(b, ns) ==
  LET last(mac) == CHOOSE j \in DOMAIN ns :
                     /\ mac \in Macs(b, ns[j])
                     /\ \A i \in j + 1 .. Len(ns) : mac \notin Macs(b, ns[i])
      at(n, mac) == {p \in DOMAIN ConnectedComputers(b, n) :
                       ConnectedComputers(b, n)[p].mac = mac}
      final(n, mac) == AddressAt(b, n)[Max(at(n, mac))]
  IN [mac \in UNION {Macs(b, n) : n \in DOMAIN b.networks} |->
        final(ns[last(mac)], mac)]

AssignAddresses ==
  /\ stage = "address"
  /\ stage' = "idle"
  /\ \E ns \in SetToSeqs(DOMAIN bp[slot].networks) :
       addr' = [addr EXCEPT ![slot] = Addresses(bp[slot], ns)]
  /\ UNCHANGED <<graphs, chart, call, outcome>>

-----------------------------------------------------------------------------
\* unembed(b, e)

Placed == UNION {machines[h] : h \in HostIds}

\* Mutant: machines are erased from a copy that is not put back.
BugErasesFromCopy(k) ==
  /\ stage = "idle"
  /\ k \in embedded
  /\ DOMAIN bp[k].computers \subseteq Placed
  /\ embedded' = embedded \ {k}
  /\ outcome' = "unembedded"
  /\ UNCHANGED <<graphs, stage, machines, carried, call, addr>>

Unembed(k) ==
  /\ stage = "idle"
  /\ k \in embedded
  /\ \/ /\ DOMAIN bp[k].computers \subseteq Placed
        /\ machines' = [h \in HostIds |-> machines[h] \ DOMAIN bp[k].computers]
        /\ carried' = [s \in SwIds |-> carried[s] \ DOMAIN bp[k].networks]
        /\ embedded' = embedded \ {k}
        /\ outcome' = "unembedded"
     \* getEmbedding() of a computer that is on no network
     \/ /\ ~(DOMAIN bp[k].computers \subseteq Placed)
        /\ outcome' = "missing"
        /\ UNCHANGED chart
  /\ UNCHANGED <<graphs, stage, call, addr>>

-----------------------------------------------------------------------------

Init ==
  /\ bp \in BaseBlueprints
  /\ tt \in BaseTopologies
  /\ drawn = DrawnIn(bp, tt)
  /\ edits = 0
  /\ stage = "edit"
  /\ machines = [h \in HostIds |-> {}]
  /\ carried = [s \in SwIds |-> {}]
  /\ embedded = {}
  /\ slot = CHOOSE k \in Slots : TRUE
  /\ cs = <<>>
  /\ order = <<>>
  /\ copies = [s \in SwIds |-> [h \in HostIds |-> {}]]
  /\ work = [h \in HostIds |-> {}]
  /\ outcome = "none"
  /\ addr = [k \in Slots |-> <<>>]

Pack == \E h \in HostIds, m \in 0 .. Len(cs) : PackHost(h, m)

EmbedStep ==
  Pack \/ FrontOfEmpty \/ EmbeddingFailed \/ NotFound \/ Commit

Next ==
  \/ Build
  \/ Chart
  \/ \E k \in Slots : Embed(k) \/ Unembed(k)
  \/ EmbedStep
  \/ AssignAddresses

Spec == Init /\ [][Next]_vars

\* A call runs to its end.
FairSpec == Spec /\ WF_vars(EmbedStep \/ AssignAddresses)

-----------------------------------------------------------------------------
\* Properties

\* Types of all variables but the graphs, whose ids alone are typed.
TestbedTypeOK ==
  /\ DOMAIN bp = Slots
  /\ \A k \in Slots : BlueprintOK(bp[k])
  /\ TopologyOK(tt)
  /\ drawn \in [Names -> 0 .. MaxDraws]
  /\ edits \in 0 .. MaxEdits
  /\ stage \in {"edit", "idle", "pack", "address", "undefined"}
  /\ machines \in [HostIds -> SUBSET CompIds]
  /\ carried \in [SwIds -> SUBSET NetIds]
  /\ embedded \subseteq Slots
  /\ slot \in Slots
  /\ cs \in Seq(CompIds)
  /\ order \in Seq(SwIds)
  /\ copies \in [SwIds -> [HostIds -> SUBSET CompIds]]
  /\ work \in [HostIds -> SUBSET CompIds]
  /\ outcome \in {"none", "embedded", "failed", "lost", "unembedded", "missing"}

\* connectedComputers never throws: whatever was built, removed, cloned and
\* sent, a link's mac address is one of the computer it leads to.
ConnectionsResolve ==
  \A k \in Slots : \A n \in DOMAIN bp[k].networks : ~Broken(bp[k], n)

\* Of a blueprint that is sent, what embed and construct look at arrives:
\* the connections of each network, in their order, and its addresses.
RoundTripKeepsConnections ==
  \A k \in Slots :
    LET r == BlueprintFromJson(BlueprintJson(bp[k]))
    IN /\ r.networks = bp[k].networks
       /\ \A n \in DOMAIN bp[k].networks :
            ConnectedComputers(r, n) = ConnectedComputers(bp[k], n)
       /\ \A c \in DOMAIN bp[k].computers :
            ConnectedNetworks(r, c) = ConnectedNetworks(bp[k], c)

\* removeComputer and removeNetwork leave links behind; no later object of
\* the same name is ever reached through one.
Dangling(b, l) ==
  \E e \in {l[1], l[2]} : e.id \notin DOMAIN b.computers \cup DOMAIN b.networks

DeadLinksStayDead ==
  [][\A k \in Slots : \A i \in DOMAIN bp[k].links :
       Dangling(bp[k], bp[k].links[i]) => Dangling(bp[k]', bp[k].links[i])]_vars

\* What the test deter-is-not-deter3 expects of a new host that is removed.
RemoveUndoesAdd ==
  \A name \in HostNames :
    drawn[name] < MaxDraws =>
      SameTopology(RemoveHost(AddHost(tt, Fresh(name)), Fresh(name)), tt)

\* No host takes more than it has, neither in the chart of the caller nor in
\* the one that embed works on nor in the copies it packs.
NoHostOverloaded ==
  \A h \in HostIds :
    /\ ~Overloaded(h, machines[h])
    /\ ~Overloaded(h, work[h])
    /\ \A s \in SwIds : ~Overloaded(h, copies[s][h])

\* The chart has exactly the connected computers of the blueprints that are
\* embedded, each on one host, whatever was embedded and unembedded between.
ChartHoldsEmbedded ==
  /\ Placed = UNION {Connected(bp[k]) : k \in embedded}
  /\ \A h, g \in HostIds : h # g => machines[h] \cap machines[g] = {}

\* embed() loses a computer it had packed only in a topology with a host on
\* two switches, which the second packs from a copy that the first did not
\* touch.
MultiHomed ==
  \E s, r \in tt.switches :
    s # r /\ ConnectedHosts(tt, s) \cap ConnectedHosts(tt, r) # {}

LostOnlyMultiHomed == outcome = "lost" => MultiHomed

\* Two computers of one network at hosts of one switch reach each other
\* there, as long as their blueprint is embedded.
NeighboursShareSwitch ==
  \A k \in embedded :
    \A n \in DOMAIN bp[k].networks : \A s \in tt.switches :
      LET at == {c \in {e.id : e \in Range(ConnectedComputers(bp[k], n))} :
                   \E h \in HostIds : c \in machines[h] /\
                                      s \in ConnectedSwitches(tt, h)}
      IN Cardinality(at) > 1 => n \in carried[s]

\* Two interfaces of a network have different addresses, none of them 0 in
\* its last part, if neither interface is on another network too.
Exclusively(b, n, mac) ==
  \A m \in DOMAIN b.networks \ {n} : mac \notin Macs(b, m)

AddressesUsable ==
  \A k \in Slots : \A n \in DOMAIN bp[k].networks :
    \A x, y \in Macs(bp[k], n) \cap DOMAIN addr[k] :
      /\ addr[k][x] % Octet # 0
      /\ /\ x # y
         /\ Exclusively(bp[k], n, x)
         /\ Exclusively(bp[k], n, y)
         => addr[k][x] # addr[k][y]

\* embed and unembed are what Placement promises: a blueprint's computers that
\* are on a network get their hosts together or not at all, and stay until an
\* unembed that takes them all; one that is on none gets no host, and
\* because of it unembed never succeeds.
Place ==
  [c \in CompIds |->
     IF c \in Placed THEN CHOOSE h \in HostIds : c \in machines[h] ELSE NoHost]

Loose(b) == DOMAIN b.computers \ Connected(b)

Tenants ==
  [k \in embedded |-> [wired |-> Connected(bp[k]), loose |-> Loose(bp[k])]]

Abstract == INSTANCE Placement WITH place <- Place, tenants <- Tenants

ImplementsPlacement == Abstract!Spec

\* The loops of embed() end, whatever order the ties are taken in.
EmbedEnds == (stage = "pack") ~> (stage \in {"idle", "undefined"})

=============================================================================
