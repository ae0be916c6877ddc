--------------------------- MODULE TestbedProofs ---------------------------
(***************************************************************************)
(* Proofs about Testbed: no host takes more than it has, the chart holds   *)
(* the computers of the blueprints that are embedded, and embed() and      *)
(* unembed() do what Placement promises.                                   *)
(***************************************************************************)
EXTENDS Testbed, FiniteSetTheorems, TLAPS

-----------------------------------------------------------------------------
(* The graphs                                                              *)

\* An id was drawn before it was used.
OldIds(b, d) == \A c \in DOMAIN b.computers : c[2] <= d[c[1]]

Apart ==
  \A k, j \in Slots : k # j =>
    DOMAIN bp[k].computers \cap DOMAIN bp[j].computers = {}

DrawnOK == drawn \in [Names -> 0 .. MaxDraws]

GraphInv ==
  /\ DOMAIN bp = Slots /\ DrawnOK /\ Apart /\ TopologyOK(tt)
  /\ \A k \in Slots : BlueprintOK(bp[k]) /\ OldIds(bp[k], drawn)

LEMMA FreshIds ==
  ASSUME DrawnOK, NEW name \in Names, Draw(name)
  PROVE  /\ DrawnOK'
         /\ \A n \in Names : drawn[n] <= drawn'[n]
         /\ Fresh(name)[1] = name /\ Fresh(name)[2] \in Draws
         /\ Fresh(name)[2] > drawn[name] /\ Fresh(name)[2] <= drawn'[name]
         /\ Fresh(name) = <<Fresh(name)[1], Fresh(name)[2]>>
<1>1. MaxDraws \in Nat  BY NamesAssumption
<1>2. drawn[name] \in 0 .. MaxDraws /\ drawn[name] < MaxDraws
  BY DEF DrawnOK, Draw
<1>3. drawn' = [drawn EXCEPT ![name] = drawn[name] + 1]  BY DEF Draw
<1>4. DrawnOK'  BY <1>1, <1>2, <1>3 DEF DrawnOK
<1>5. \A n \in Names : drawn[n] <= drawn'[n]
  BY <1>1, <1>2, <1>3 DEF DrawnOK
<1>6. drawn'[name] = drawn[name] + 1  BY <1>3 DEF DrawnOK
<1> QED  BY <1>1, <1>2, <1>4, <1>5, <1>6 DEF Fresh, Draws

\* Edits of one blueprint that draw no id and add no computer.
LEMMA BlueprintKeeps ==
  ASSUME GraphInv, NEW k \in Slots, NEW b, EditBlueprint(k, b),
         BlueprintOK(b), UNCHANGED drawn,
         DOMAIN b.computers \subseteq DOMAIN bp[k].computers
  PROVE  GraphInv'
<1> USE DEF GraphInv
<1>1. bp' = [bp EXCEPT ![k] = b] /\ tt' = tt  BY DEF EditBlueprint
<1>2. DOMAIN bp' = Slots /\ \A j \in Slots : bp'[j] = IF j = k THEN b ELSE bp[j]
  BY <1>1
<1>3. Apart'
  <2> SUFFICES ASSUME NEW i \in Slots, NEW j \in Slots, i # j
               PROVE  DOMAIN bp'[i].computers \cap DOMAIN bp'[j].computers = {}
    BY DEF Apart
  <2>1. /\ DOMAIN bp'[i].computers \subseteq DOMAIN bp[i].computers
        /\ DOMAIN bp'[j].computers \subseteq DOMAIN bp[j].computers
    BY <1>2
  <2> QED  BY <2>1 DEF Apart
<1>4. \A j \in Slots : BlueprintOK(bp'[j])  BY <1>2
<1>5. \A j \in Slots : OldIds(bp'[j], drawn)  BY <1>2 DEF OldIds
<1> QED  BY <1>1, <1>2, <1>3, <1>4, <1>5 DEF DrawnOK

\* Setting one part of a blueprint.
LEMMA SetComputers ==
  ASSUME NEW b, BlueprintOK(b), NEW x, DOMAIN x \subseteq CompIds
  PROVE  /\ BlueprintOK([b EXCEPT !.computers = x])
         /\ [b EXCEPT !.computers = x].computers = x
BY DEF BlueprintOK

LEMMA SetNetworks ==
  ASSUME NEW b, BlueprintOK(b), NEW x, DOMAIN x \subseteq NetIds
  PROVE  /\ BlueprintOK([b EXCEPT !.networks = x])
         /\ [b EXCEPT !.networks = x].computers = b.computers
BY DEF BlueprintOK

LEMMA SetLinks ==
  ASSUME NEW b, BlueprintOK(b), NEW x
  PROVE  /\ BlueprintOK([b EXCEPT !.links = x])
         /\ [b EXCEPT !.links = x].computers = b.computers
BY DEF BlueprintOK

LEMMA NewComputerKeeps ==
  ASSUME GraphInv, NEW k \in Slots, NEW name \in CompNames,
         NewComputer(k, name)
  PROVE  GraphInv'
<1> USE DEF GraphInv
<1> DEFINE c == Fresh(name)
           b == AddComputer(bp[k], c)
<1>1. name \in Names  BY DEF Names
<1>2. Draw(name) /\ EditBlueprint(k, b)  BY DEF NewComputer
<1>3. /\ DrawnOK' /\ \A n \in Names : drawn[n] <= drawn'[n]
      /\ c[1] = name /\ c[2] \in Draws
      /\ c[2] > drawn[name] /\ c[2] <= drawn'[name]
      /\ c = <<c[1], c[2]>>
  BY <1>1, <1>2, FreshIds
<1>4. c \in CompIds  BY <1>3 DEF CompIds
<1> HIDE DEF c
<1>5. BlueprintOK(b) /\ DOMAIN b.computers = DOMAIN bp[k].computers \cup {c}
  <2> DEFINE x == [y \in DOMAIN bp[k].computers \cup {c} |->
                     IF y = c THEN [i \in Ifxs[c[1]] \cup {"cifx"} |-> Mac(c, i, 1)]
                              ELSE bp[k].computers[y]]
  <2>1. BlueprintOK(bp[k])  OBVIOUS
  <2>2. DOMAIN x = DOMAIN bp[k].computers \cup {c}  OBVIOUS
  <2>3. DOMAIN x \subseteq CompIds  BY <1>4, <2>1, <2>2 DEF BlueprintOK
  <2>4. b = [bp[k] EXCEPT !.computers = x]  BY DEF AddComputer
  <2> HIDE DEF x, b, GraphInv
  <2> QED  BY <2>1, <2>2, <2>3, <2>4, SetComputers
<1> HIDE DEF b
<1>6. bp' = [bp EXCEPT ![k] = b] /\ tt' = tt  BY <1>2 DEF EditBlueprint
<1>7. DOMAIN bp' = Slots /\ \A j \in Slots : bp'[j] = IF j = k THEN b ELSE bp[j]
  BY <1>6
<1>8. \A j \in Slots : c \notin DOMAIN bp[j].computers
  <2> SUFFICES ASSUME NEW j \in Slots, c \in DOMAIN bp[j].computers PROVE FALSE
    OBVIOUS
  <2>1. c[2] <= drawn[name]  BY <1>3 DEF OldIds
  <2>2. drawn[name] \in Nat  BY <1>1, NamesAssumption DEF DrawnOK
  <2> QED  BY <1>3, <2>1, <2>2 DEF Draws
<1>9. Apart'
  <2> SUFFICES ASSUME NEW i \in Slots, NEW j \in Slots, i # j
               PROVE  DOMAIN bp'[i].computers \cap DOMAIN bp'[j].computers = {}
    BY DEF Apart
  <2>1. DOMAIN bp[i].computers \cap DOMAIN bp[j].computers = {}  BY DEF Apart
  <2> QED  BY <1>5, <1>7, <1>8, <2>1
<1>10. \A j \in Slots : OldIds(bp[j], drawn')
  <2> SUFFICES ASSUME NEW j \in Slots, NEW d \in DOMAIN bp[j].computers
               PROVE  d[2] <= drawn'[d[1]]
    BY DEF OldIds
  <2>1. d \in CompIds  BY DEF BlueprintOK
  <2>2. d[1] \in Names /\ d[2] \in Nat  BY <2>1 DEF CompIds, Names, Draws
  <2>3. d[2] <= drawn[d[1]]  BY DEF OldIds
  <2>4. drawn[d[1]] \in Nat /\ drawn'[d[1]] \in Nat
    BY <1>3, <2>2, NamesAssumption DEF DrawnOK
  <2> QED  BY <1>3, <2>2, <2>3, <2>4
<1>11. OldIds(b, drawn')
  BY <1>3, <1>5, <1>10 DEF OldIds
<1>12. \A j \in Slots : BlueprintOK(bp'[j]) /\ OldIds(bp'[j], drawn')
  BY <1>5, <1>7, <1>10, <1>11
<1> QED  BY <1>3, <1>6, <1>7, <1>9, <1>12

LEMMA NewNetworkKeeps ==
  ASSUME GraphInv, NEW k \in Slots, NEW name \in NetNames,
         NewNetwork(k, name)
  PROVE  GraphInv'
<1> USE DEF GraphInv
<1> DEFINE n == Fresh(name)
           b == AddNetwork(bp[k], n)
<1>1. name \in Names  BY DEF Names
<1>2. Draw(name) /\ EditBlueprint(k, b)  BY DEF NewNetwork
<1>3. /\ DrawnOK' /\ \A x \in Names : drawn[x] <= drawn'[x]
      /\ n[1] = name /\ n[2] \in Draws /\ n = <<n[1], n[2]>>
  BY <1>1, <1>2, FreshIds
<1>4. n \in NetIds  BY <1>3 DEF NetIds
<1> HIDE DEF n
<1>5. BlueprintOK(b) /\ b.computers = bp[k].computers
  <2> DEFINE x == [y \in DOMAIN bp[k].networks \cup {n} |->
                     IF y = n THEN Space[n[1]] ELSE bp[k].networks[y]]
  <2>1. BlueprintOK(bp[k])  OBVIOUS
  <2>2. DOMAIN x = DOMAIN bp[k].networks \cup {n}  OBVIOUS
  <2>3. DOMAIN x \subseteq NetIds  BY <1>4, <2>1, <2>2 DEF BlueprintOK
  <2>4. b = [bp[k] EXCEPT !.networks = x]  BY DEF AddNetwork
  <2> HIDE DEF x, b, GraphInv
  <2> QED  BY <2>1, <2>3, <2>4, SetNetworks
<1> HIDE DEF b
<1>6. bp' = [bp EXCEPT ![k] = b] /\ tt' = tt  BY <1>2 DEF EditBlueprint
<1>7. DOMAIN bp' = Slots /\ \A j \in Slots : bp'[j] = IF j = k THEN b ELSE bp[j]
  BY <1>6
<1>8. Apart'
  <2> SUFFICES ASSUME NEW i \in Slots, NEW j \in Slots, i # j
               PROVE  DOMAIN bp'[i].computers \cap DOMAIN bp'[j].computers = {}
    BY DEF Apart
  <2>1. DOMAIN bp[i].computers \cap DOMAIN bp[j].computers = {}  BY DEF Apart
  <2> QED  BY <1>5, <1>7, <2>1
<1>9. \A j \in Slots : OldIds(bp[j], drawn')
  <2> SUFFICES ASSUME NEW j \in Slots, NEW d \in DOMAIN bp[j].computers
               PROVE  d[2] <= drawn'[d[1]]
    BY DEF OldIds
  <2>1. d \in CompIds  BY DEF BlueprintOK
  <2>2. d[1] \in Names /\ d[2] \in Nat  BY <2>1 DEF CompIds, Names, Draws
  <2>3. d[2] <= drawn[d[1]]  BY DEF OldIds
  <2>4. drawn[d[1]] \in Nat /\ drawn'[d[1]] \in Nat
    BY <1>3, <2>2, NamesAssumption DEF DrawnOK
  <2> QED  BY <1>3, <2>2, <2>3, <2>4
<1>10. OldIds(b, drawn')  BY <1>5, <1>9 DEF OldIds
<1>11. \A j \in Slots : BlueprintOK(bp'[j]) /\ OldIds(bp'[j], drawn')
  BY <1>5, <1>7, <1>9, <1>10
<1> QED  BY <1>3, <1>6, <1>7, <1>8, <1>11

\* What is removed, linked, cloned or sent keeps its ids.
LEMMA EditKeeps ==
  ASSUME GraphInv, NEW k \in Slots, UNCHANGED drawn,
         \/ LinkComputer(k) \/ LinkNetworks(k) \/ Clone(k) \/ SendBlueprint(k)
         \/ \E name : DropComputer(k, name) \/ DropNetwork(k, name)
  PROVE  GraphInv'
<1> DEFINE q == bp[k]
<1>0. BlueprintOK(q)  BY DEF GraphInv
<1>1. ASSUME NEW l, EditBlueprint(k, [q EXCEPT !.links = l]) PROVE GraphInv'
  <2> DEFINE b == [q EXCEPT !.links = l]
  <2>1. BlueprintOK(b) /\ b.computers = q.computers  BY <1>0, SetLinks
  <2> HIDE DEF b
  <2> QED  BY <1>1, <2>1, BlueprintKeeps DEF b
<1>2. CASE LinkComputer(k)
  <2>1. PICK c \in DOMAIN q.computers, n \in DOMAIN q.networks :
          \E i \in Ifxs[c[1]] : EditBlueprint(k, Connect(q, c, i, n))
    BY <1>2 DEF LinkComputer
  <2>2. PICK i \in Ifxs[c[1]] : EditBlueprint(k, Connect(q, c, i, n))
    BY <2>1
  <2> QED  BY <1>1, <2>2 DEF Connect
<1>3. CASE LinkNetworks(k)
  <2>1. PICK m \in DOMAIN q.networks, n \in DOMAIN q.networks :
          EditBlueprint(k, ConnectNets(q, n, m))
    BY <1>3 DEF LinkNetworks
  <2> QED  BY <1>1, <2>1 DEF ConnectNets
<1>4. ASSUME NEW x, DOMAIN x \subseteq DOMAIN q.networks,
             EditBlueprint(k, [q EXCEPT !.networks = x])
      PROVE  GraphInv'
  <2> DEFINE b == [q EXCEPT !.networks = x]
  <2>1. DOMAIN x \subseteq NetIds  BY <1>0, <1>4 DEF BlueprintOK
  <2>2. BlueprintOK(b) /\ b.computers = q.computers  BY <1>0, <2>1, SetNetworks
  <2> HIDE DEF b
  <2> QED  BY <1>4, <2>2, BlueprintKeeps DEF b
<1>5. CASE Clone(k)
  <2> DEFINE x == [n \in DOMAIN q.networks |-> DefaultSpace]
  <2>1. DOMAIN x \subseteq DOMAIN q.networks  OBVIOUS
  <2>2. EditBlueprint(k, [q EXCEPT !.networks = x])
    BY <1>5 DEF Clone, CloneBlueprint
  <2> HIDE DEF x
  <2> QED  BY <1>4, <2>1, <2>2
<1>6. ASSUME NEW name, DropNetwork(k, name) PROVE GraphInv'
  <2> DEFINE x == [n \in {y \in DOMAIN q.networks : y[1] # name} |-> q.networks[n]]
  <2>1. DOMAIN x \subseteq DOMAIN q.networks  OBVIOUS
  <2>2. EditBlueprint(k, [q EXCEPT !.networks = x])
    BY <1>6 DEF DropNetwork, RemoveNetwork
  <2> HIDE DEF x
  <2> QED  BY <1>4, <2>1, <2>2
<1>7. ASSUME NEW name, DropComputer(k, name) PROVE GraphInv'
  <2> DEFINE x == [c \in {y \in DOMAIN q.computers : y[1] # name} |-> q.computers[c]]
             b == [q EXCEPT !.computers = x]
  <2>1. DOMAIN x \subseteq DOMAIN q.computers  OBVIOUS
  <2>2. EditBlueprint(k, b)  BY <1>7 DEF DropComputer, RemoveComputer
  <2>3. DOMAIN x \subseteq CompIds  BY <1>0, <2>1 DEF BlueprintOK
  <2> HIDE DEF x
  <2>4. BlueprintOK(b) /\ b.computers = x  BY <1>0, <2>3, SetComputers
  <2> HIDE DEF b
  <2> QED  BY <2>1, <2>2, <2>4, BlueprintKeeps
<1>8. CASE SendBlueprint(k)
  <2> DEFINE j == BlueprintJson(q)
             b == BlueprintFromJson(j)
  <2>1. {x.id : x \in j.computers} = DOMAIN q.computers
    <3> DEFINE doc(c) ==
          [id |-> c,
           interfaces |-> {[name |-> i, mac |-> q.computers[c][i]] :
                             i \in DOMAIN q.computers[c]}]
    <3>1. j.computers = {doc(c) : c \in DOMAIN q.computers}
      BY DEF BlueprintJson
    <3>2. \A c : doc(c).id = c  OBVIOUS
    <3> HIDE DEF doc, j
    <3> QED  BY <3>1, <3>2
  <2>2. {x.id : x \in j.networks} = DOMAIN q.networks
    <3> DEFINE doc(n) == [id |-> n, ipv4 |-> q.networks[n]]
    <3>1. j.networks = {doc(n) : n \in DOMAIN q.networks}
      BY DEF BlueprintJson
    <3>2. \A n : doc(n).id = n  OBVIOUS
    <3> HIDE DEF doc, j
    <3> QED  BY <3>1, <3>2
  <2> HIDE DEF j
  <2>3. /\ DOMAIN b = {"computers", "networks", "links"}
        /\ DOMAIN b.computers = {x.id : x \in j.computers}
        /\ DOMAIN b.networks = {x.id : x \in j.networks}
    BY DEF BlueprintFromJson
  <2> HIDE DEF b
  <2>4. DOMAIN b.computers = DOMAIN q.computers /\ BlueprintOK(b)
    BY <1>0, <2>1, <2>2, <2>3 DEF BlueprintOK
  <2>5. EditBlueprint(k, b)  BY <1>8 DEF SendBlueprint, b, j
  <2> QED  BY <2>4, <2>5, BlueprintKeeps
<1> QED  BY <1>2, <1>3, <1>5, <1>6, <1>7, <1>8

LEMMA FiniteIds ==
  ASSUME NEW S \in {CompNames, NetNames, HostNames, SwNames}
  PROVE  IsFiniteSet(S \X Draws)
<1>1. IsFiniteSet(S)  BY NamesAssumption
<1>2. IsFiniteSet(Draws)  BY NamesAssumption, FS_Interval DEF Draws
<1> QED  BY <1>1, <1>2, FS_Product

LEMMA TopologyKeeps ==
  ASSUME GraphInv, NEW t, EditTopology(t), TopologyOK(t), DrawnOK',
         \A n \in Names : drawn[n] <= drawn'[n]
  PROVE  GraphInv'
<1> USE DEF GraphInv
<1>1. tt' = t /\ bp' = bp  BY DEF EditTopology
<1>2. \A j \in Slots : OldIds(bp[j], drawn')
  <2> SUFFICES ASSUME NEW j \in Slots, NEW d \in DOMAIN bp[j].computers
               PROVE  d[2] <= drawn'[d[1]]
    BY DEF OldIds
  <2>1. d \in CompIds  BY DEF BlueprintOK
  <2>2. d[1] \in Names /\ d[2] \in Nat  BY <2>1 DEF CompIds, Names, Draws
  <2>3. d[2] <= drawn[d[1]]  BY DEF OldIds
  <2>4. drawn[d[1]] \in Nat /\ drawn'[d[1]] \in Nat
    BY <2>2, NamesAssumption DEF DrawnOK
  <2> QED  BY <2>2, <2>3, <2>4
<1> QED  BY <1>1, <1>2 DEF Apart

\* What draws its ids anew when it is read draws ids that there are.
LEMMA RedrawnIds ==
  ASSUME TopologyOK(tt), DrawnOK, DrawnAfterRead(tt, drawn) \in [Names -> 0 .. MaxDraws],
         NEW W \in {HostNames, SwNames}, NEW S, S \subseteq W \X Draws,
         S \subseteq tt.hosts \cup tt.switches
  PROVE  Redrawn(S, drawn) \subseteq W \X Draws
<1> DEFINE before(x) == {y \in S : y[1] = x[1] /\ y[2] <= x[2]}
           named(n) == {x \in tt.hosts \cup tt.switches : x[1] = n}
<1>1. IsFiniteSet(tt.hosts \cup tt.switches)
  <2>1. IsFiniteSet(HostIds) /\ IsFiniteSet(SwIds)
    BY FiniteIds DEF HostIds, SwIds
  <2>2. IsFiniteSet(tt.hosts) /\ IsFiniteSet(tt.switches)
    BY <2>1, FS_Subset DEF TopologyOK
  <2> QED  BY <2>2, FS_Union
<1> SUFFICES ASSUME NEW x \in S
             PROVE  <<x[1], drawn[x[1]] + Cardinality(before(x))>> \in W \X Draws
  BY DEF Redrawn
<1>2. x[1] \in W /\ x[2] \in Nat /\ x[1] \in Names  BY DEF Names, Draws
<1>3. before(x) \subseteq named(x[1])  OBVIOUS
<1>4. IsFiniteSet(named(x[1]))
  <2>1. named(x[1]) \subseteq tt.hosts \cup tt.switches  OBVIOUS
  <2> HIDE DEF named
  <2> QED  BY <1>1, <2>1, FS_Subset
<1>5. x \in before(x)  BY <1>2
<1>6. DOMAIN drawn = Names /\ drawn[x[1]] \in Nat
  BY <1>2, NamesAssumption DEF DrawnOK
<1>7. drawn[x[1]] + Cardinality(named(x[1])) \in 0 .. MaxDraws
  <2>1. DrawnAfterRead(tt, drawn)[x[1]] =
          drawn[x[1]] + Cardinality(named(x[1]))
    BY <1>2, <1>6 DEF DrawnAfterRead
  <2> HIDE DEF named
  <2> QED  BY <1>2, <2>1
<1> HIDE DEF before, named
<1>8. /\ IsFiniteSet(before(x))
      /\ Cardinality(before(x)) <= Cardinality(named(x[1]))
  BY <1>3, <1>4, FS_Subset
<1>9. Cardinality(before(x)) \in Nat /\ Cardinality(named(x[1])) \in Nat
  BY <1>4, <1>8, FS_CardinalityType
<1>10. Cardinality(before(x)) # 0  BY <1>5, <1>8, FS_EmptySet
<1>11. drawn[x[1]] + Cardinality(before(x)) \in Draws
  BY <1>6, <1>7, <1>8, <1>9, <1>10, NamesAssumption DEF Draws
<1> QED  BY <1>2, <1>11

LEMMA SendTopologyKeeps ==
  ASSUME GraphInv, SendTopology
  PROVE  GraphInv'
<1> USE DEF GraphInv
<1> DEFINE t == TopologyRead(tt, drawn)
           d == DrawnAfterRead(tt, drawn)
<1>1. d \in [Names -> 0 .. MaxDraws] /\ drawn' = d /\ EditTopology(t)
  BY DEF SendTopology
<1>2. DrawnOK'  BY <1>1 DEF DrawnOK
<1>3. TopologyOK(t)
  <2>1. Redrawn(tt.hosts, drawn) \subseteq HostIds
    BY <1>1, RedrawnIds DEF TopologyOK, HostIds
  <2>2. Redrawn(tt.switches, drawn) \subseteq SwIds
    BY <1>1, RedrawnIds DEF TopologyOK, SwIds
  <2> DEFINE u == [tt EXCEPT !.hosts = Redrawn(tt.hosts, drawn)]
  <2>3. u.hosts = Redrawn(tt.hosts, drawn) /\ DOMAIN u = DOMAIN tt
        /\ u.switches = tt.switches
    BY DEF TopologyOK
  <2>4. t = [u EXCEPT !.switches = Redrawn(tt.switches, drawn)]
    BY <2>3 DEF TopologyRead
  <2> HIDE DEF u, t
  <2>5. /\ DOMAIN t = DOMAIN tt /\ t.hosts = u.hosts
        /\ t.switches = Redrawn(tt.switches, drawn)
    BY <2>3, <2>4 DEF TopologyOK
  <2> QED  BY <2>1, <2>2, <2>3, <2>5 DEF TopologyOK
<1>4. \A n \in Names : drawn[n] <= d[n]
  <2> SUFFICES ASSUME NEW n \in Names PROVE drawn[n] <= d[n]
    OBVIOUS
  <2> DEFINE S == {x \in tt.hosts \cup tt.switches : x[1] = n}
  <2>1. IsFiniteSet(HostIds) /\ IsFiniteSet(SwIds)
    BY FiniteIds DEF HostIds, SwIds
  <2>2. IsFiniteSet(tt.hosts) /\ IsFiniteSet(tt.switches)
    BY <2>1, FS_Subset DEF TopologyOK
  <2>3. IsFiniteSet(tt.hosts \cup tt.switches)  BY <2>2, FS_Union
  <2>4. S \subseteq tt.hosts \cup tt.switches  OBVIOUS
  <2>5. d[n] = drawn[n] + Cardinality(S)
    BY DEF DrawnAfterRead, DrawnOK
  <2> HIDE DEF S, d
  <2>6. Cardinality(S) \in Nat  BY <2>3, <2>4, FS_Subset, FS_CardinalityType
  <2>7. drawn[n] \in Nat  BY NamesAssumption DEF DrawnOK
  <2> QED  BY <2>5, <2>6, <2>7
<1> HIDE DEF t, d
<1> QED  BY <1>1, <1>2, <1>3, <1>4, TopologyKeeps

LEMMA BuildTopologyKeeps ==
  ASSUME GraphInv, BuildTopology
  PROVE  GraphInv'
<1> USE DEF GraphInv
<1>0. /\ DrawnOK /\ TopologyOK(tt)
      /\ \A n \in Names : drawn[n] \in Nat /\ drawn[n] <= drawn[n]
  BY NamesAssumption DEF DrawnOK
<1>1. ASSUME NEW name \in HostNames, NewHost(name) PROVE GraphInv'
  <2> DEFINE t == AddHost(tt, Fresh(name))
  <2>1. Draw(name) /\ EditTopology(t)  BY <1>1 DEF NewHost
  <2>2. /\ DrawnOK' /\ \A n \in Names : drawn[n] <= drawn'[n]
        /\ Fresh(name) \in HostIds
    <3>1. name \in Names  BY DEF Names
    <3>2. /\ DrawnOK' /\ \A n \in Names : drawn[n] <= drawn'[n]
          /\ Fresh(name)[1] = name /\ Fresh(name)[2] \in Draws
          /\ Fresh(name) = <<Fresh(name)[1], Fresh(name)[2]>>
      BY <2>1, <3>1, FreshIds
    <3> QED  BY <3>2 DEF HostIds
  <2>3. TopologyOK(t)  BY <2>2 DEF AddHost, TopologyOK
  <2> HIDE DEF t
  <2> QED  BY <2>1, <2>2, <2>3, TopologyKeeps
<1>2. ASSUME NEW name \in SwNames, NewSwitch(name) PROVE GraphInv'
  <2> DEFINE t == AddSwitch(tt, Fresh(name))
  <2>1. Draw(name) /\ EditTopology(t)  BY <1>2 DEF NewSwitch
  <2>2. /\ DrawnOK' /\ \A n \in Names : drawn[n] <= drawn'[n]
        /\ Fresh(name) \in SwIds
    <3>1. name \in Names  BY DEF Names
    <3>2. /\ DrawnOK' /\ \A n \in Names : drawn[n] <= drawn'[n]
          /\ Fresh(name)[1] = name /\ Fresh(name)[2] \in Draws
          /\ Fresh(name) = <<Fresh(name)[1], Fresh(name)[2]>>
      BY <2>1, <3>1, FreshIds
    <3> QED  BY <3>2 DEF SwIds
  <2>3. TopologyOK(t)  BY <2>2 DEF AddSwitch, TopologyOK
  <2> HIDE DEF t
  <2> QED  BY <2>1, <2>2, <2>3, TopologyKeeps
<1>3. ASSUME NEW l, EditTopology([tt EXCEPT !.links = l]), UNCHANGED drawn
      PROVE  GraphInv'
  <2> DEFINE t == [tt EXCEPT !.links = l]
  <2>1. TopologyOK(t)  BY DEF TopologyOK
  <2>2. DrawnOK' /\ \A n \in Names : drawn[n] <= drawn'[n]
    BY <1>0, <1>3 DEF DrawnOK
  <2> HIDE DEF t
  <2> QED  BY <1>3, <2>1, <2>2, TopologyKeeps DEF t
<1>4. CASE UNCHANGED drawn /\ Plug
  <2>1. PICK h \in tt.hosts, s \in tt.switches : EditTopology(ConnectHost(tt, h, s))
    BY <1>4 DEF Plug
  <2> QED  BY <1>3, <1>4, <2>1 DEF ConnectHost
<1>5. CASE UNCHANGED drawn /\ Trunk
  <2>1. PICK r \in tt.switches, s \in tt.switches :
          EditTopology(ConnectSwitches(tt, s, r))
    BY <1>5 DEF Trunk
  <2> QED  BY <1>3, <1>5, <2>1 DEF ConnectSwitches
<1>6. CASE UNCHANGED drawn /\ (DropSwitch \/ DropHost)
  <2>1. PICK e : EditTopology(RemoveEndpointLink(tt, e))
    BY <1>6 DEF DropSwitch, DropHost, RemoveSw, RemoveHost
  <2> QED  BY <1>3, <1>6, <2>1 DEF RemoveEndpointLink
<1> HIDE DEF GraphInv
<1> QED
  BY <1>1, <1>2, <1>4, <1>5, <1>6, SendTopologyKeeps DEF BuildTopology

LEMMA BuildKeeps ==
  ASSUME GraphInv, Build
  PROVE  GraphInv'
<1>1. ASSUME NEW k \in Slots, BuildBlueprint(k) PROVE GraphInv'
  BY <1>1, NewComputerKeeps, NewNetworkKeeps, EditKeeps DEF BuildBlueprint
<1> QED  BY <1>1, BuildTopologyKeeps DEF Build

-----------------------------------------------------------------------------
(* The chart and the call that is in progress                              *)

CallTypes ==
  /\ edits \in 0 .. MaxEdits
  /\ stage \in {"edit", "idle", "pack", "address", "undefined"}
  /\ machines \in [HostIds -> SUBSET CompIds]
  /\ carried \in [SwIds -> SUBSET NetIds]
  /\ embedded \subseteq Slots
  /\ slot \in Slots
  /\ cs \in Seq(CompIds)
  /\ order \in Seq(SwIds)
  /\ copies \in [SwIds -> [HostIds -> SUBSET CompIds]]
  /\ work \in [HostIds -> SUBSET CompIds]
  /\ outcome \in {"none", "embedded", "failed", "lost", "unembedded", "missing"}

\* While blueprints are edited none is embedded.
Beginning ==
  stage = "edit" => embedded = {} /\ \A h \in HostIds : machines[h] = {}

\* What the copies of a host have, beyond what the chart has there, was
\* packed in this call, each computer into one copy; and what will be
\* returned of a host is the chart's or one of the copies.
Packing ==
  stage = "pack" =>
    /\ slot \notin embedded
    /\ \A i \in 1 .. Len(cs) : cs[i] \in Connected(bp[slot])
    /\ \A i, j \in 1 .. Len(cs) : i # j => cs[i] # cs[j]
    /\ \A s \in SwIds, h \in HostIds :
         /\ machines[h] \subseteq copies[s][h]
         /\ copies[s][h] \subseteq machines[h] \cup Connected(bp[slot])
         /\ \A i \in 1 .. Len(cs) : cs[i] \notin copies[s][h]
    /\ \A s, t \in SwIds, h, g \in HostIds : \A c \in Connected(bp[slot]) :
         c \in copies[s][h] /\ c \in copies[t][g] => s = t /\ h = g
    /\ \A h \in HostIds :
         work[h] = machines[h] \/ \E s \in SwIds : work[h] = copies[s][h]

TestbedInv ==
  /\ GraphInv /\ CallTypes /\ Beginning /\ Packing
  /\ NoHostOverloaded /\ ChartHoldsEmbedded

LEMMA ConnectedAre ==
  ASSUME NEW b
  PROVE  Connected(b) \subseteq DOMAIN b.computers
BY DEF Connected

\* No computer of a blueprint that is not embedded has a place.
LEMMA Strangers ==
  ASSUME TestbedInv, NEW k \in Slots, k \notin embedded
  PROVE  /\ Connected(bp[k]) \cap Placed = {}
         /\ DOMAIN bp[k].computers \cap Placed = {}
         /\ Connected(bp[k]) \subseteq CompIds
<1>1. /\ Placed = UNION {Connected(bp[j]) : j \in embedded}
      /\ embedded \subseteq Slots
  BY DEF TestbedInv, ChartHoldsEmbedded, CallTypes
<1>2. \A j \in Slots : j # k =>
        DOMAIN bp[k].computers \cap DOMAIN bp[j].computers = {}
  BY DEF TestbedInv, GraphInv, Apart
<1>3. DOMAIN bp[k].computers \subseteq CompIds
  BY DEF TestbedInv, GraphInv, BlueprintOK
<1>4. ASSUME NEW c \in Placed, c \in DOMAIN bp[k].computers PROVE FALSE
  <2>1. PICK j \in embedded : c \in Connected(bp[j])  BY <1>1, <1>4
  <2>2. c \in DOMAIN bp[j].computers /\ j \in Slots /\ j # k
    BY <1>1, <2>1, ConnectedAre
  <2> QED  BY <1>2, <1>4, <2>2
<1> QED  BY <1>3, <1>4, ConnectedAre

LEMMA OwnComputers ==
  ASSUME TestbedInv, NEW k \in Slots
  PROVE  Connected(bp[k]) \subseteq CompIds /\ Loose(bp[k]) \subseteq CompIds
BY ConnectedAre DEF TestbedInv, GraphInv, BlueprintOK, Loose

LEMMA GraphsStay ==
  ASSUME GraphInv, UNCHANGED graphs
  PROVE  GraphInv'
BY DEF GraphInv, graphs, DrawnOK, Apart

LEMMA SeqsOf ==
  ASSUME NEW S, IsFiniteSet(S), NEW s \in SetToSeqs(S)
  PROVE  /\ s \in Seq(S) /\ \A i \in 1 .. Len(s) : s[i] \in S
         /\ \A i, j \in 1 .. Len(s) : i # j => s[i] # s[j]
<1>1. Cardinality(S) \in Nat  BY FS_CardinalityType
<1> QED  BY <1>1 DEF SetToSeqs

LEMMA EmbedKeeps ==
  ASSUME TestbedInv, NEW k \in Slots, Embed(k)
  PROVE  TestbedInv'
<1> USE DEF TestbedInv
<1> DEFINE mine == Connected(bp[k])
<1>0. /\ k \notin embedded /\ stage' = "pack" /\ slot' = k
      /\ copies' = [s \in SwIds |-> machines] /\ work' = machines
      /\ UNCHANGED <<graphs, chart, outcome, addr>>
  BY DEF Embed
<1>1. /\ cs' \in Seq(CompIds) /\ \A i \in 1 .. Len(cs') : cs'[i] \in mine
      /\ \A i, j \in 1 .. Len(cs') : i # j => cs'[i] # cs'[j]
  <2>1. cs' \in SetToSeqs(mine)  BY DEF Embed
  <2>2. mine \subseteq CompIds  BY <1>0, Strangers
  <2>3. IsFiniteSet(CompIds)  BY FiniteIds DEF CompIds
  <2> HIDE DEF mine
  <2>4. IsFiniteSet(mine)  BY <2>2, <2>3, FS_Subset
  <2>5. cs' \in Seq(mine)  BY <2>1, <2>4, SeqsOf
  <2> QED  BY <2>1, <2>2, <2>4, <2>5, SeqsOf
<1>2. order' \in Seq(SwIds)
  <2>1. order' \in SetToSeqs(tt.switches)  BY DEF Embed
  <2>2. IsFiniteSet(SwIds) /\ tt.switches \subseteq SwIds
    BY FiniteIds DEF SwIds, GraphInv, TopologyOK
  <2>3. order' \in Seq(tt.switches)  BY <2>1, <2>2, FS_Subset, SeqsOf
  <2> QED  BY <2>2, <2>3
<1>3. /\ machines' = machines /\ embedded' = embedded /\ bp' = bp
      /\ machines \in [HostIds -> SUBSET CompIds]
      /\ mine \cap Placed = {}
      /\ \A s \in SwIds : copies'[s] = machines
  BY <1>0, Strangers DEF chart, graphs, CallTypes
<1> HIDE DEF mine
<1>4. GraphInv'  BY <1>0, GraphsStay
<1>5. CallTypes'
  BY <1>0, <1>1, <1>2, <1>3 DEF CallTypes, graphs, chart
<1>6. Beginning'  BY <1>0 DEF Beginning
<1>7. \A h \in HostIds : \A c \in mine : c \notin machines[h]
  BY <1>3 DEF Placed
<1>8. Packing'
  <2> SUFFICES
        /\ k \notin embedded
        /\ \A i \in 1 .. Len(cs') : cs'[i] \in mine
        /\ \A i, j \in 1 .. Len(cs') : i # j => cs'[i] # cs'[j]
        /\ \A s \in SwIds, h \in HostIds :
             /\ machines[h] \subseteq copies'[s][h]
             /\ copies'[s][h] \subseteq machines[h] \cup mine
             /\ \A i \in 1 .. Len(cs') : cs'[i] \notin copies'[s][h]
        /\ \A s, t \in SwIds, h, g \in HostIds : \A c \in mine :
             c \in copies'[s][h] /\ c \in copies'[t][g] => s = t /\ h = g
        /\ \A h \in HostIds : work'[h] = machines[h]
    BY <1>0, <1>3 DEF Packing, mine
  <2> QED  BY <1>0, <1>1, <1>3, <1>7
<1>9. NoHostOverloaded'  BY <1>0, <1>3 DEF NoHostOverloaded
<1>10. ChartHoldsEmbedded'  BY <1>3 DEF ChartHoldsEmbedded, Placed
<1> QED  BY <1>4, <1>5, <1>6, <1>8, <1>9, <1>10

LEMMA PackHostKeeps ==
  ASSUME TestbedInv, NEW h \in HostIds, NEW m \in 0 .. Len(cs), PackHost(h, m)
  PROVE  TestbedInv'
<1> USE DEF TestbedInv
<1> DEFINE s == Head(order)
           new == {cs[i] : i \in 1 .. m}
           he == copies[s][h] \cup new
           mine == Connected(bp[slot])
<1>0. /\ stage = "pack" /\ order # <<>> /\ Takes(h, m)
      /\ copies' = [copies EXCEPT ![s] = [copies[s] EXCEPT ![h] = he]]
      /\ work' = [work EXCEPT ![h] = he]
      /\ cs' = SubSeq(cs, m + 1, Len(cs))
      /\ order' = IF m = 0 THEN Tail(order) ELSE order
      /\ UNCHANGED <<graphs, stage, chart, slot, outcome, addr>>
  BY DEF PackHost
<1>1. /\ cs \in Seq(CompIds) /\ Len(cs) \in Nat /\ m \in Nat /\ m <= Len(cs)
      /\ order \in Seq(SwIds) /\ s \in SwIds
      /\ \A i \in 1 .. Len(cs) : cs[i] \in CompIds
  BY <1>0 DEF CallTypes
<1>2. /\ copies \in [SwIds -> [HostIds -> SUBSET CompIds]]
      /\ work \in [HostIds -> SUBSET CompIds]
      /\ machines \in [HostIds -> SUBSET CompIds]
  BY DEF CallTypes
<1>3. he \in SUBSET CompIds  BY <1>1, <1>2
<1> DEFINE row == [copies[s] EXCEPT ![h] = he]
<1>4. /\ row \in [HostIds -> SUBSET CompIds]
      /\ \A g \in HostIds : row[g] = IF g = h THEN he ELSE copies[s][g]
  BY <1>1, <1>2, <1>3
<1>5. copies' = [copies EXCEPT ![s] = row]  BY <1>0
<1>6. \A i \in 1 .. Len(cs) : cs[i] \in new <=> i <= m
  <2>1. \A i, j \in 1 .. Len(cs) : i # j => cs[i] # cs[j]
    BY <1>0 DEF Packing
  <2> SUFFICES ASSUME NEW i \in 1 .. Len(cs) PROVE cs[i] \in new <=> i <= m
    OBVIOUS
  <2> HIDE DEF TestbedInv
  <2>2. ASSUME cs[i] \in new PROVE i <= m
    <3>1. PICK j \in 1 .. m : cs[j] = cs[i]  BY <2>2
    <3>2. j \in 1 .. Len(cs)  BY <1>1
    <3>3. j = i  BY <2>1, <3>1, <3>2
    <3> QED  BY <3>3, <1>1
  <2>3. ASSUME i <= m PROVE cs[i] \in new
    <3>1. i \in 1 .. m  BY <2>3, <1>1
    <3> QED  BY <3>1
  <2> QED  BY <2>2, <2>3
<1>7. /\ new \subseteq mine
      /\ \A t \in SwIds, g \in HostIds : new \cap copies[t][g] = {}
  <2>1. /\ \A i \in 1 .. Len(cs) : cs[i] \in mine
        /\ \A t \in SwIds, g \in HostIds :
             \A i \in 1 .. Len(cs) : cs[i] \notin copies[t][g]
    BY <1>0 DEF Packing
  <2>2. \A i \in 1 .. m : i \in 1 .. Len(cs)  BY <1>1
  <2> HIDE DEF TestbedInv, mine
  <2> QED  BY <2>1, <2>2
<1>8. he = copies[s][h] \cup new  OBVIOUS
<1>9. ~Overloaded(h, he)
  <2>1. CASE m = 0
    <3>1. he = copies[s][h]  BY <2>1
    <3> QED  BY <1>1, <3>1 DEF NoHostOverloaded
  <2>2. CASE m # 0
    <3>1. m \in 1 .. m  BY <1>1, <2>2
    <3> QED  BY <1>0, <3>1 DEF Takes
  <2> QED  BY <2>1, <2>2
<1> HIDE DEF s, he, row, new
<1>10. /\ copies' \in [SwIds -> [HostIds -> SUBSET CompIds]]
       /\ \A t \in SwIds, g \in HostIds :
            copies'[t][g] = IF t = s /\ g = h THEN he ELSE copies[t][g]
  <2>1. copies' \in [SwIds -> [HostIds -> SUBSET CompIds]]
    BY <1>1, <1>2, <1>4, <1>5
  <2>2. \A t \in SwIds : copies'[t] = IF t = s THEN row ELSE copies[t]
    BY <1>2, <1>5
  <2> QED  BY <1>4, <2>1, <2>2
<1>11. /\ work' \in [HostIds -> SUBSET CompIds]
       /\ \A g \in HostIds : work'[g] = IF g = h THEN he ELSE work[g]
  BY <1>0, <1>2, <1>3
<1>12. /\ cs' \in Seq(CompIds) /\ Len(cs') = Len(cs) - m
       /\ \A i \in 1 .. Len(cs') : /\ cs'[i] = cs[i + m]
                                   /\ i + m \in 1 .. Len(cs) /\ i + m > m
  <2>1. cs' = SubSeq(cs, m + 1, Len(cs)) /\ m + 1 \in 1 .. Len(cs) + 1
    BY <1>0, <1>1
  <2>2. Len(cs') = Len(cs) - m  BY <1>1, <2>1
  <2>3. cs' \in Seq(CompIds)  BY <1>1, <2>1
  <2>4. ASSUME NEW i \in 1 .. Len(cs')
        PROVE  cs'[i] = cs[i + m] /\ i + m \in 1 .. Len(cs) /\ i + m > m
    <3>1. i + m \in 1 .. Len(cs) /\ i + m > m  BY <1>1, <2>2
    <3>2. cs'[i] = cs[m + 1 + i - 1]  BY <1>1, <2>1, <2>2
    <3>3. m + 1 + i - 1 = i + m  BY <1>1, <2>2
    <3> QED  BY <3>1, <3>2, <3>3
  <2> QED  BY <2>2, <2>3, <2>4
<1>13. order' \in Seq(SwIds)  BY <1>0, <1>1
<1>14. /\ machines' = machines /\ embedded' = embedded /\ carried' = carried
       /\ bp' = bp /\ slot' = slot /\ stage' = stage /\ edits' = edits
       /\ outcome' = outcome
  BY <1>0 DEF graphs, chart
<1>15. GraphInv'  BY <1>0, GraphsStay
<1>16. CallTypes'  BY <1>10, <1>11, <1>12, <1>13, <1>14 DEF CallTypes
<1>17. Beginning'  BY <1>14 DEF Beginning
<1>18. Packing'
  <2> HIDE DEF TestbedInv
  <2>0. /\ slot \notin embedded
        /\ \A i \in 1 .. Len(cs) : cs[i] \in mine
        /\ \A i, j \in 1 .. Len(cs) : i # j => cs[i] # cs[j]
        /\ \A t \in SwIds, g \in HostIds :
             /\ machines[g] \subseteq copies[t][g]
             /\ copies[t][g] \subseteq machines[g] \cup mine
             /\ \A i \in 1 .. Len(cs) : cs[i] \notin copies[t][g]
        /\ \A t, u \in SwIds, f, g \in HostIds : \A c \in mine :
             c \in copies[t][f] /\ c \in copies[u][g] => t = u /\ f = g
        /\ \A g \in HostIds :
             work[g] = machines[g] \/ \E t \in SwIds : work[g] = copies[t][g]
    BY <1>0 DEF Packing, TestbedInv
  <2> HIDE DEF mine
  <2>1. \A i \in 1 .. Len(cs') : cs'[i] \in mine  BY <1>12, <2>0
  <2>2. \A i, j \in 1 .. Len(cs') : i # j => cs'[i] # cs'[j]
    <3> SUFFICES ASSUME NEW i \in 1 .. Len(cs'), NEW j \in 1 .. Len(cs'), i # j
                 PROVE  cs'[i] # cs'[j]
      OBVIOUS
    <3>1. i + m # j + m  BY <1>1
    <3> QED  BY <1>12, <2>0, <3>1
  <2>3. \A t \in SwIds, g \in HostIds :
          /\ machines[g] \subseteq copies'[t][g]
          /\ copies'[t][g] \subseteq machines[g] \cup mine
    BY <1>7, <1>8, <1>10, <2>0
  <2>4. \A t \in SwIds, g \in HostIds :
          \A i \in 1 .. Len(cs') : cs'[i] \notin copies'[t][g]
    <3> SUFFICES ASSUME NEW t \in SwIds, NEW g \in HostIds,
                        NEW i \in 1 .. Len(cs')
                 PROVE  cs'[i] \notin copies'[t][g]
      OBVIOUS
    <3>1. cs'[i] = cs[i + m] /\ i + m \in 1 .. Len(cs) /\ ~(i + m <= m)
      BY <1>1, <1>12
    <3>2. cs'[i] \notin new  BY <1>6, <3>1
    <3>3. cs'[i] \notin copies[t][g] /\ cs'[i] \notin copies[s][h]
      BY <1>1, <2>0, <3>1
    <3> QED  BY <1>8, <1>10, <3>2, <3>3
  <2>5. \A t, u \in SwIds, f, g \in HostIds : \A c \in mine :
          c \in copies'[t][f] /\ c \in copies'[u][g] => t = u /\ f = g
    <3> SUFFICES ASSUME NEW t \in SwIds, NEW u \in SwIds, NEW f \in HostIds,
                        NEW g \in HostIds, NEW c \in mine,
                        c \in copies'[t][f], c \in copies'[u][g]
                 PROVE  t = u /\ f = g
      OBVIOUS
    <3>1. CASE c \in new
      <4>1. \A v \in SwIds, e \in HostIds :
              c \in copies'[v][e] => v = s /\ e = h
        BY <1>7, <1>10, <3>1
      <4> QED  BY <4>1
    <3>2. CASE c \notin new
      <4>1. \A v \in SwIds, e \in HostIds :
              c \in copies'[v][e] => c \in copies[v][e]
        BY <1>8, <1>10, <3>2
      <4> QED  BY <2>0, <4>1
    <3> QED  BY <3>1, <3>2
  <2>6. \A g \in HostIds :
          work'[g] = machines[g] \/ \E t \in SwIds : work'[g] = copies'[t][g]
    <3> SUFFICES ASSUME NEW g \in HostIds
                 PROVE  \/ work'[g] = machines[g]
                        \/ \E t \in SwIds : work'[g] = copies'[t][g]
      OBVIOUS
    <3>1. CASE g = h
      <4>1. work'[g] = copies'[s][g]  BY <1>1, <1>10, <1>11, <3>1
      <4> QED  BY <1>1, <4>1
    <3>2. CASE g # h
      <4>1. work'[g] = work[g] /\ \A t \in SwIds : copies'[t][g] = copies[t][g]
        BY <1>10, <1>11, <3>2
      <4> QED  BY <2>0, <4>1
    <3> QED  BY <3>1, <3>2
  <2> QED
    BY <1>14, <2>0, <2>1, <2>2, <2>3, <2>4, <2>5, <2>6 DEF Packing, mine
<1>19. NoHostOverloaded'
  BY <1>9, <1>10, <1>11, <1>14 DEF NoHostOverloaded
<1>20. ChartHoldsEmbedded'  BY <1>14 DEF ChartHoldsEmbedded, Placed
<1> QED  BY <1>15, <1>16, <1>17, <1>18, <1>19, <1>20

\* Calls that end without a change of the chart.
LEMMA ThrowKeeps ==
  ASSUME TestbedInv, NEW what \in {"failed", "lost"}, Throw(what)
  PROVE  TestbedInv'
<1> USE DEF TestbedInv
<1>1. /\ stage' = "idle" /\ outcome' = what /\ cs' = <<>> /\ order' = <<>>
      /\ copies' = [s \in SwIds |-> [h \in HostIds |-> {}]]
      /\ work' = [h \in HostIds |-> {}]
      /\ UNCHANGED <<graphs, slot, chart>>
  BY DEF Throw, EndCall
<1>2. /\ machines' = machines /\ embedded' = embedded /\ carried' = carried
      /\ bp' = bp /\ slot' = slot /\ edits' = edits
  BY <1>1 DEF graphs, chart
<1>3. GraphInv'  BY <1>1, GraphsStay
<1>4. CallTypes'
  <2>1. /\ copies' \in [SwIds -> [HostIds -> SUBSET CompIds]]
        /\ work' \in [HostIds -> SUBSET CompIds]
    BY <1>1
  <2>2. cs' \in Seq(CompIds) /\ order' \in Seq(SwIds)  BY <1>1
  <2>3. outcome' \in {"none", "embedded", "failed", "lost", "unembedded", "missing"}
    BY <1>1
  <2> QED  BY <1>1, <1>2, <2>1, <2>2, <2>3 DEF CallTypes
<1>5. Beginning' /\ Packing'  BY <1>1 DEF Beginning, Packing
<1>6. NoHostOverloaded'
  BY <1>1, <1>2, LoadAssumption DEF NoHostOverloaded
<1>7. ChartHoldsEmbedded'  BY <1>2 DEF ChartHoldsEmbedded, Placed
<1> QED  BY <1>3, <1>4, <1>5, <1>6, <1>7

\* What commit makes of the chart: all that was there and the new computers.
LEMMA Committed ==
  ASSUME TestbedInv, Commit
  PROVE  /\ machines' = work /\ work \in [HostIds -> SUBSET CompIds]
         /\ bp' = bp /\ embedded' = embedded \cup {slot}
         /\ slot \in Slots /\ slot \notin embedded
         /\ Placed' = Placed \cup Connected(bp[slot])
         /\ Connected(bp[slot]) \cap Placed = {}
         /\ Connected(bp[slot]) \subseteq CompIds
         /\ \A h \in HostIds : /\ machines[h] \subseteq work[h]
                               /\ work[h] \subseteq machines[h] \cup Connected(bp[slot])
                               /\ ~Overloaded(h, work[h])
         /\ \A h, g \in HostIds : h # g => work[h] \cap work[g] = {}
<1> USE DEF TestbedInv
<1> DEFINE mine == Connected(bp[slot])
<1>0. /\ stage = "pack" /\ machines' = work
      /\ embedded' = embedded \cup {slot}
      /\ \A c \in mine : HostsOf(c) # {}
      /\ slot \in Slots /\ bp' = bp
  BY DEF Commit, CallTypes, EndCall, graphs
<1>1. /\ slot \notin embedded
      /\ \A t \in SwIds, g \in HostIds :
           /\ machines[g] \subseteq copies[t][g]
           /\ copies[t][g] \subseteq machines[g] \cup mine
      /\ \A t, u \in SwIds, f, g \in HostIds : \A c \in mine :
           c \in copies[t][f] /\ c \in copies[u][g] => t = u /\ f = g
      /\ \A g \in HostIds :
           work[g] = machines[g] \/ \E t \in SwIds : work[g] = copies[t][g]
  BY <1>0 DEF Packing
<1>2. mine \cap Placed = {} /\ mine \subseteq CompIds
  BY <1>0, <1>1, Strangers
<1>3. work \in [HostIds -> SUBSET CompIds] /\ \A h \in HostIds : ~Overloaded(h, work[h])
  BY DEF CallTypes, NoHostOverloaded
<1>4. \A h, g \in HostIds : h # g => machines[h] \cap machines[g] = {}
  BY DEF ChartHoldsEmbedded
<1> HIDE DEF TestbedInv, mine
<1>5. \A h \in HostIds : /\ machines[h] \subseteq work[h]
                         /\ work[h] \subseteq machines[h] \cup mine
  BY <1>1
<1>6. \A c \in mine : \E h \in HostIds : c \in work[h]
  BY <1>0 DEF HostsOf
<1>7. Placed' = Placed \cup mine  BY <1>0, <1>5, <1>6 DEF Placed
<1>8. \A h, g \in HostIds : h # g => work[h] \cap work[g] = {}
  <2> SUFFICES ASSUME NEW h \in HostIds, NEW g \in HostIds, NEW c,
                      c \in work[h], c \in work[g]
               PROVE  h = g
    OBVIOUS
  <2>1. CASE c \in mine
    <3>1. \A f \in HostIds : c \notin machines[f]  BY <1>2, <2>1 DEF Placed
    <3>2. PICK s \in SwIds : c \in copies[s][h]  BY <1>1, <3>1
    <3>3. PICK t \in SwIds : c \in copies[t][g]  BY <1>1, <3>1
    <3> QED  BY <1>1, <2>1, <3>2, <3>3
  <2>2. CASE c \notin mine
    <3>1. c \in machines[h] /\ c \in machines[g]  BY <1>5, <2>2
    <3> QED  BY <1>4, <3>1
  <2> QED  BY <2>1, <2>2
<1> QED  BY <1>0, <1>1, <1>2, <1>3, <1>5, <1>7, <1>8 DEF mine

LEMMA CommitKeeps ==
  ASSUME TestbedInv, Commit
  PROVE  TestbedInv'
<1> USE DEF TestbedInv
<1>1. /\ stage' = "address" /\ outcome' = "embedded"
      /\ cs' = <<>> /\ order' = <<>> /\ slot' = slot
      /\ copies' = [s \in SwIds |-> [h \in HostIds |-> {}]]
      /\ work' = [h \in HostIds |-> {}]
      /\ edits' = edits /\ UNCHANGED graphs
  BY DEF Commit, EndCall, graphs
<1>2. carried' \in [SwIds -> SUBSET NetIds]
  <2>1. carried' = [s \in SwIds |->
                      IF s \in tt.switches THEN carried[s] \cup Spanned(bp[slot], s)
                                           ELSE carried[s]]
    BY DEF Commit
  <2>2. \A s : Spanned(bp[slot], s) \subseteq DOMAIN bp[slot].networks
    BY DEF Spanned
  <2>3. DOMAIN bp[slot].networks \subseteq NetIds
    BY DEF GraphInv, BlueprintOK, CallTypes
  <2>4. \A s \in SwIds : carried[s] \subseteq NetIds  BY DEF CallTypes
  <2> HIDE DEF TestbedInv
  <2> QED  BY <2>1, <2>2, <2>3, <2>4
<1>3. GraphInv'  BY <1>1, GraphsStay
<1>4. CallTypes'
  <2>1. /\ copies' \in [SwIds -> [HostIds -> SUBSET CompIds]]
        /\ work' \in [HostIds -> SUBSET CompIds]
    BY <1>1
  <2>2. cs' \in Seq(CompIds) /\ order' \in Seq(SwIds)  BY <1>1
  <2>3. /\ outcome' \in {"none", "embedded", "failed", "lost", "unembedded", "missing"}
        /\ stage' \in {"edit", "idle", "pack", "address", "undefined"}
    BY <1>1
  <2>4. machines' \in [HostIds -> SUBSET CompIds]  BY Committed
  <2>5. embedded' \subseteq Slots  BY Committed DEF CallTypes
  <2>6. slot' \in Slots /\ edits' \in 0 .. MaxEdits  BY <1>1 DEF CallTypes
  <2> QED  BY <1>2, <2>1, <2>2, <2>3, <2>4, <2>5, <2>6 DEF CallTypes
<1>5. Beginning' /\ Packing'  BY <1>1 DEF Beginning, Packing
<1>6. NoHostOverloaded'
  <2>1. \A h \in HostIds : ~Overloaded(h, machines'[h])  BY Committed
  <2> QED  BY <1>1, <2>1, LoadAssumption DEF NoHostOverloaded
<1>7. ChartHoldsEmbedded'
  <2> HIDE DEF TestbedInv
  <2>1. /\ Placed' = Placed \cup Connected(bp[slot])
        /\ embedded' = embedded \cup {slot} /\ bp' = bp
    BY Committed
  <2>2. \A h, g \in HostIds : h # g => machines'[h] \cap machines'[g] = {}
    BY Committed
  <2>3. Placed = UNION {Connected(bp[k]) : k \in embedded}
    BY DEF TestbedInv, ChartHoldsEmbedded
  <2>4. Placed' = UNION {Connected(bp[k]) : k \in embedded'}
    BY <2>1, <2>3
  <2> QED  BY <2>1, <2>2, <2>4 DEF ChartHoldsEmbedded
<1> QED  BY <1>3, <1>4, <1>5, <1>6, <1>7

LEMMA UnembedKeeps ==
  ASSUME TestbedInv, NEW k \in Slots, Unembed(k)
  PROVE  TestbedInv'
<1> USE DEF TestbedInv
<1> DEFINE gone == DOMAIN bp[k].computers
<1>0. /\ stage = "idle" /\ k \in embedded
      /\ UNCHANGED <<graphs, stage, call, addr>>
      /\ bp' = bp /\ edits' = edits /\ slot' = slot /\ cs' = cs /\ order' = order
      /\ copies' = copies /\ work' = work /\ stage' = stage
  BY DEF Unembed, graphs, call
<1>1. GraphInv'  BY <1>0, GraphsStay
<1>2. Beginning' /\ Packing'  BY <1>0 DEF Beginning, Packing
<1>3. CASE /\ machines' = [h \in HostIds |-> machines[h] \ gone]
           /\ carried' = [s \in SwIds |-> carried[s] \ DOMAIN bp[k].networks]
           /\ embedded' = embedded \ {k}
           /\ outcome' = "unembedded"
  <2>1. /\ machines' \in [HostIds -> SUBSET CompIds]
        /\ carried' \in [SwIds -> SUBSET NetIds]
        /\ embedded' \subseteq Slots
    BY <1>3 DEF CallTypes
  <2>2. CallTypes'  BY <1>0, <1>3, <2>1 DEF CallTypes
  <2>3. \A h \in HostIds : machines'[h] = machines[h] \ gone  BY <1>3
  <2>4. NoHostOverloaded'
    <3>1. ASSUME NEW h \in HostIds PROVE ~Overloaded(h, machines'[h])
      <4>1. ~Overloaded(h, machines[h]) /\ machines[h] \in SUBSET CompIds
        BY DEF NoHostOverloaded, CallTypes
      <4>2. machines'[h] \in SUBSET machines[h]  BY <2>3
      <4> QED  BY <4>1, <4>2, LoadAssumption
    <3> QED  BY <1>0, <3>1 DEF NoHostOverloaded
  <2>5. ChartHoldsEmbedded'
    <3>1. /\ Placed = UNION {Connected(bp[j]) : j \in embedded}
          /\ \A h, g \in HostIds : h # g => machines[h] \cap machines[g] = {}
      BY DEF ChartHoldsEmbedded
    <3>2. Placed' = Placed \ gone  BY <2>3 DEF Placed
    <3>3. \A j \in embedded : j # k => Connected(bp[j]) \cap gone = {}
      <4>1. \A j \in embedded : j # k => DOMAIN bp[j].computers \cap gone = {}
        BY <1>0 DEF GraphInv, Apart, CallTypes
      <4> HIDE DEF TestbedInv, gone
      <4> QED  BY <4>1, ConnectedAre
    <3>4. Connected(bp[k]) \subseteq gone  BY ConnectedAre
    <3>5. \A h, g \in HostIds : h # g => machines'[h] \cap machines'[g] = {}
      BY <2>3, <3>1
    <3> HIDE DEF TestbedInv, gone
    <3>6. Placed \ gone = UNION {Connected(bp[j]) : j \in embedded \ {k}}
      BY <3>1, <3>3, <3>4
    <3> QED  BY <1>0, <1>3, <3>2, <3>5, <3>6 DEF ChartHoldsEmbedded
  <2> QED  BY <1>1, <1>2, <2>2, <2>4, <2>5
<1>4. CASE outcome' = "missing" /\ UNCHANGED chart
  <2>1. machines' = machines /\ carried' = carried /\ embedded' = embedded
    BY <1>4 DEF chart
  <2>2. CallTypes'  BY <1>0, <1>4, <2>1 DEF CallTypes
  <2>3. NoHostOverloaded'  BY <1>0, <2>1 DEF NoHostOverloaded
  <2>4. ChartHoldsEmbedded'  BY <1>0, <2>1 DEF ChartHoldsEmbedded, Placed
  <2> QED  BY <1>1, <1>2, <2>2, <2>3, <2>4
<1> QED  BY <1>3, <1>4 DEF Unembed

\* Steps that leave the chart and the copies of the call alone.
LEMMA SameChart ==
  ASSUME TestbedInv, GraphInv', UNCHANGED <<chart, call, outcome>>,
         edits' \in 0 .. MaxEdits,
         \/ bp' = bp /\ stage' = stage
         \/ bp' = bp /\ stage' \in {"idle", "undefined"}
         \/ stage = "edit" /\ stage' = "edit"
  PROVE  TestbedInv'
<1> USE DEF TestbedInv
<1>1. /\ machines' = machines /\ carried' = carried /\ embedded' = embedded
      /\ slot' = slot /\ cs' = cs /\ order' = order /\ copies' = copies
      /\ work' = work /\ outcome' = outcome
  BY DEF chart, call
<1>2. stage' \in {"edit", "idle", "pack", "address", "undefined"}
  BY DEF CallTypes
<1>3. CallTypes'  BY <1>1, <1>2 DEF CallTypes
<1>4. NoHostOverloaded'  BY <1>1 DEF NoHostOverloaded
<1>5. Placed' = Placed  BY <1>1 DEF Placed
<1>6. CASE bp' = bp
  <2>1. Beginning' /\ Packing'  BY <1>1, <1>6 DEF Beginning, Packing
  <2>2. ChartHoldsEmbedded'  BY <1>1, <1>5, <1>6 DEF ChartHoldsEmbedded
  <2> QED  BY <1>3, <1>4, <2>1, <2>2
<1>7. CASE stage = "edit" /\ stage' = "edit"
  <2>1. Beginning' /\ Packing'  BY <1>1, <1>7 DEF Beginning, Packing
  <2>2. embedded = {} /\ Placed = {}  BY <1>7 DEF Beginning, Placed
  <2>3. ChartHoldsEmbedded'  BY <1>1, <1>5, <2>2 DEF ChartHoldsEmbedded
  <2> QED  BY <1>3, <1>4, <2>1, <2>3
<1> QED  BY <1>6, <1>7

LEMMA NextKeeps == TestbedInv /\ [Next]_vars => TestbedInv'
<1> SUFFICES ASSUME TestbedInv, [Next]_vars PROVE TestbedInv'  OBVIOUS
<1>0. GraphInv /\ edits \in 0 .. MaxEdits  BY DEF TestbedInv, CallTypes
<1>1. CASE Build
  <2>1. GraphInv'  BY <1>0, <1>1, BuildKeeps
  <2>2. /\ stage = "edit" /\ stage' = stage
        /\ edits < MaxEdits /\ edits' = edits + 1
        /\ UNCHANGED <<chart, call, outcome>>
    BY <1>1 DEF Build, Edit
  <2>3. edits' \in 0 .. MaxEdits  BY <1>0, <2>2, BaseAssumption
  <2> QED  BY <2>1, <2>2, <2>3, SameChart
<1>2. CASE Chart
  <2>1. GraphInv' /\ edits' = edits /\ bp' = bp
    BY <1>0, <1>2, GraphsStay DEF Chart, graphs
  <2>2. stage' = "idle" /\ UNCHANGED <<chart, call, outcome>>  BY <1>2 DEF Chart
  <2> QED  BY <1>0, <2>1, <2>2, SameChart
<1>3. CASE FrontOfEmpty
  <2>1. GraphInv' /\ edits' = edits /\ bp' = bp
    BY <1>0, <1>3, GraphsStay DEF FrontOfEmpty, graphs
  <2>2. stage' = "undefined" /\ UNCHANGED <<chart, call, outcome>>
    BY <1>3 DEF FrontOfEmpty
  <2> QED  BY <1>0, <2>1, <2>2, SameChart
<1>4. CASE AssignAddresses
  <2>1. GraphInv' /\ edits' = edits /\ bp' = bp
    BY <1>0, <1>4, GraphsStay DEF AssignAddresses, graphs
  <2>2. stage' = "idle" /\ UNCHANGED <<chart, call, outcome>>
    BY <1>4 DEF AssignAddresses
  <2> QED  BY <1>0, <2>1, <2>2, SameChart
<1>5. CASE UNCHANGED vars
  <2>1. /\ GraphInv' /\ edits' = edits /\ bp' = bp /\ stage' = stage
        /\ UNCHANGED <<chart, call, outcome>>
    BY <1>0, <1>5, GraphsStay DEF vars, graphs
  <2> QED  BY <1>0, <2>1, SameChart
<1>6. CASE Pack
  <2>1. PICK h \in HostIds, m \in 0 .. Len(cs) : PackHost(h, m)
    BY <1>6 DEF Pack
  <2> QED  BY <2>1, PackHostKeeps
<1>7. CASE EmbeddingFailed  BY <1>7, ThrowKeeps DEF EmbeddingFailed
<1>8. CASE NotFound  BY <1>8, ThrowKeeps DEF NotFound
<1>9. CASE Commit  BY <1>9, CommitKeeps
<1>10. ASSUME NEW k \in Slots, Embed(k) PROVE TestbedInv'  BY <1>10, EmbedKeeps
<1>11. ASSUME NEW k \in Slots, Unembed(k) PROVE TestbedInv'
  BY <1>11, UnembedKeeps
<1> QED
  BY <1>1, <1>2, <1>3, <1>4, <1>5, <1>6, <1>7, <1>8, <1>9, <1>10, <1>11
     DEF Next, EmbedStep

LEMMA InitHolds == Init => TestbedInv
<1> SUFFICES ASSUME Init PROVE TestbedInv  OBVIOUS
<1>1. /\ bp \in BaseBlueprints /\ tt \in BaseTopologies
      /\ drawn = DrawnIn(bp, tt) /\ edits = 0 /\ stage = "edit"
      /\ machines = [h \in HostIds |-> {}] /\ carried = [s \in SwIds |-> {}]
      /\ embedded = {} /\ slot = CHOOSE k \in Slots : TRUE
      /\ cs = <<>> /\ order = <<>>
      /\ copies = [s \in SwIds |-> [h \in HostIds |-> {}]]
      /\ work = [h \in HostIds |-> {}] /\ outcome = "none"
  BY DEF Init
<1>2. GraphInv
  BY <1>1, BaseAssumption DEF GraphInv, DrawnOK, Apart, OldIds
<1>3. CallTypes
  <2>1. slot \in Slots /\ edits \in 0 .. MaxEdits  BY <1>1, BaseAssumption
  <2>2. /\ machines \in [HostIds -> SUBSET CompIds]
        /\ carried \in [SwIds -> SUBSET NetIds]
        /\ copies \in [SwIds -> [HostIds -> SUBSET CompIds]]
        /\ work \in [HostIds -> SUBSET CompIds]
    BY <1>1
  <2>3. cs \in Seq(CompIds) /\ order \in Seq(SwIds)  BY <1>1
  <2> QED  BY <1>1, <2>1, <2>2, <2>3 DEF CallTypes
<1>4. Beginning /\ Packing  BY <1>1 DEF Beginning, Packing
<1>5. NoHostOverloaded  BY <1>1, LoadAssumption DEF NoHostOverloaded
<1>6. ChartHoldsEmbedded
  <2>1. Placed = {}  BY <1>1 DEF Placed
  <2> QED  BY <1>1, <2>1 DEF ChartHoldsEmbedded
<1> QED  BY <1>2, <1>3, <1>4, <1>5, <1>6 DEF TestbedInv

-----------------------------------------------------------------------------
(* embed() and unembed() as Placement has them                             *)

\* Place as a function of the chart.
PlaceIn(m) ==
  LET placed == UNION {m[h] : h \in HostIds}
  IN [c \in CompIds |->
        IF c \in placed THEN CHOOSE h \in HostIds : c \in m[h] ELSE NoHost]

LEMMA PlaceInIs ==
  ASSUME NEW m, \A h, g \in HostIds : h # g => m[h] \cap m[g] = {}
  PROVE  /\ PlaceIn(m) \in [CompIds -> HostIds \cup {NoHost}]
         /\ \A c \in CompIds, h \in HostIds : PlaceIn(m)[c] = h <=> c \in m[h]
         /\ \A c \in CompIds :
              PlaceIn(m)[c] = NoHost <=> \A h \in HostIds : c \notin m[h]
<1> DEFINE placed == UNION {m[h] : h \in HostIds}
           pick(c) == CHOOSE h \in HostIds : c \in m[h]
<1>1. \A c : c \in placed <=> \E h \in HostIds : c \in m[h]  OBVIOUS
<1>2. \A c : c \in placed => pick(c) \in HostIds /\ c \in m[pick(c)]
  BY <1>1
<1>3. PlaceIn(m) = [c \in CompIds |-> IF c \in placed THEN pick(c) ELSE NoHost]
  BY DEF PlaceIn
<1> HIDE DEF placed, pick
<1>4. \A c \in CompIds : PlaceIn(m)[c] = IF c \in placed THEN pick(c) ELSE NoHost
  BY <1>3
<1>5. PlaceIn(m) \in [CompIds -> HostIds \cup {NoHost}]  BY <1>2, <1>3
<1>6. ASSUME NEW c \in CompIds, NEW h \in HostIds
      PROVE  PlaceIn(m)[c] = h <=> c \in m[h]
  BY <1>1, <1>2, <1>4, NoHostAssumption
<1>7. ASSUME NEW c \in CompIds
      PROVE  PlaceIn(m)[c] = NoHost <=> \A h \in HostIds : c \notin m[h]
  BY <1>1, <1>2, <1>4, NoHostAssumption
<1> QED  BY <1>5, <1>6, <1>7

LEMMA PlaceIs ==
  /\ Place = PlaceIn(machines) /\ Place' = PlaceIn(machines')
BY DEF Place, PlaceIn, Placed

\* Two maps that put every computer on the same host are one.
LEMMA SamePlaces ==
  ASSUME NEW p \in [CompIds -> HostIds \cup {NoHost}],
         NEW q \in [CompIds -> HostIds \cup {NoHost}],
         \A c \in CompIds : p[c] = q[c]
  PROVE  p = q
OBVIOUS

LEMMA CommitAdmits ==
  ASSUME TestbedInv, Commit
  PROVE  Abstract!Admit(slot)
<1> DEFINE S == Connected(bp[slot])
           L == Loose(bp[slot])
<1>0. /\ machines' = work /\ bp' = bp /\ embedded' = embedded \cup {slot}
      /\ slot \in Slots /\ slot \notin embedded
      /\ S \cap Placed = {} /\ S \subseteq CompIds
      /\ Placed' = Placed \cup S
      /\ \A h \in HostIds : /\ machines[h] \subseteq work[h]
                            /\ work[h] \subseteq machines[h] \cup S
                            /\ ~Overloaded(h, work[h])
      /\ \A h, g \in HostIds : h # g => work[h] \cap work[g] = {}
  BY Committed
<1>1. \A h, g \in HostIds : h # g => machines[h] \cap machines[g] = {}
  BY DEF TestbedInv, ChartHoldsEmbedded
<1>2. \A h \in HostIds : work[h] \subseteq CompIds
  BY DEF TestbedInv, CallTypes
<1>3. /\ Place \in [CompIds -> HostIds \cup {NoHost}]
      /\ \A c \in CompIds, h \in HostIds : Place[c] = h <=> c \in machines[h]
      /\ \A c \in CompIds :
           Place[c] = NoHost <=> \A h \in HostIds : c \notin machines[h]
  BY <1>1, PlaceIs, PlaceInIs
<1>4. /\ Place' \in [CompIds -> HostIds \cup {NoHost}]
      /\ \A c \in CompIds, h \in HostIds : Place'[c] = h <=> c \in work[h]
      /\ \A c \in CompIds :
           Place'[c] = NoHost <=> \A h \in HostIds : c \notin work[h]
  BY <1>0, PlaceIs, PlaceInIs
<1>5. DOMAIN Tenants = embedded  BY DEF Tenants
<1>10. L \cap Placed = {} /\ L \cap S = {} /\ L \subseteq CompIds
  <2>1. DOMAIN bp[slot].computers \cap Placed = {}  BY <1>0, Strangers
  <2> QED  BY <1>0, <2>1, OwnComputers DEF Loose
<1> HIDE DEF S, L
<1>6. \A c \in S : Place[c] = NoHost /\ Place'[c] # NoHost
  <2>1. \A c \in S : \A h \in HostIds : c \notin machines[h]
    BY <1>0 DEF Placed
  <2>2. \A c \in S : \E h \in HostIds : c \in work[h]
    <3>1. \A c \in S : c \in Placed'  BY <1>0
    <3> QED  BY <1>0, <3>1 DEF Placed
  <2> QED  BY <1>0, <1>3, <1>4, <2>1, <2>2
<1>7. \A c \in CompIds \ S : Place'[c] = Place[c]
  <2> SUFFICES ASSUME NEW c \in CompIds \ S PROVE Place'[c] = Place[c]
    OBVIOUS
  <2>1. \A h \in HostIds : c \in work[h] <=> c \in machines[h]  BY <1>0
  <2>2. CASE Place[c] = NoHost  BY <1>3, <1>4, <2>1, <2>2
  <2>3. CASE Place[c] # NoHost
    <3>1. Place[c] \in HostIds  BY <1>3, <2>3
    <3> QED  BY <1>3, <1>4, <2>1, <3>1
  <2> QED  BY <2>2, <2>3
<1>11. \A c \in L : Place'[c] = NoHost
  <2>1. \A c \in L : c \in CompIds \ S /\ \A h \in HostIds : c \notin machines[h]
    BY <1>10 DEF Placed
  <2> QED  BY <1>3, <1>7, <2>1
<1>8. \A h \in HostIds : ~Overloaded(h, Abstract!On(Place', h))
  <2> SUFFICES ASSUME NEW h \in HostIds
               PROVE  ~Overloaded(h, Abstract!On(Place', h))
    OBVIOUS
  <2>1. Abstract!On(Place', h) = work[h]
    BY <1>2, <1>4 DEF Abstract!On
  <2> QED  BY <1>0, <2>1
<1>9. /\ Tenants' \in [DOMAIN Tenants \cup {slot} -> Abstract!Tenant]
      /\ \A j \in DOMAIN Tenants : Tenants'[j] = Tenants[j]
      /\ Tenants'[slot].wired = S /\ Tenants'[slot].loose = L
  <2> DEFINE tenant(j) == [wired |-> Connected(bp[j]), loose |-> Loose(bp[j])]
  <2>1. /\ Tenants = [j \in embedded |-> tenant(j)]
        /\ Tenants' = [j \in embedded \cup {slot} |-> tenant(j)]
    BY <1>0 DEF Tenants, Loose
  <2>2. \A j \in embedded \cup {slot} : tenant(j) \in Abstract!Tenant
    <3>1. embedded \cup {slot} \subseteq Slots
      BY <1>0 DEF TestbedInv, CallTypes
    <3> QED  BY <3>1, OwnComputers DEF Abstract!Tenant
  <2>3. tenant(slot).wired = S /\ tenant(slot).loose = L  BY DEF S, L
  <2> HIDE DEF tenant
  <2> QED  BY <1>0, <1>5, <2>1, <2>2, <2>3
<1> QED
  BY <1>0, <1>4, <1>5, <1>6, <1>7, <1>8, <1>9, <1>10, <1>11
     DEF Abstract!Admit

LEMMA UnembedEvicts ==
  ASSUME TestbedInv, NEW k \in Slots, Unembed(k)
  PROVE  Abstract!Evict(k) \/ UNCHANGED <<Place, Tenants>>
<1> DEFINE gone == DOMAIN bp[k].computers
           mine == Connected(bp[k])
<1>0. k \in embedded /\ bp' = bp  BY DEF Unembed, graphs
<1>1. CASE UNCHANGED chart
  BY <1>0, <1>1 DEF chart, Place, Placed, Tenants
<1>2. CASE /\ gone \subseteq Placed
           /\ machines' = [h \in HostIds |-> machines[h] \ gone]
           /\ embedded' = embedded \ {k}
  <2>1. \A h \in HostIds : machines'[h] = machines[h] \ gone  BY <1>2
  <2>2. /\ \A h, g \in HostIds : h # g => machines[h] \cap machines[g] = {}
        /\ Placed = UNION {Connected(bp[j]) : j \in embedded}
    BY DEF TestbedInv, ChartHoldsEmbedded
  <2>3. \A h, g \in HostIds : h # g => machines'[h] \cap machines'[g] = {}
    BY <2>1, <2>2
  <2>4. \A j \in embedded : j # k => DOMAIN bp[j].computers \cap gone = {}
    BY <1>0 DEF TestbedInv, GraphInv, Apart, CallTypes
  <2>5. mine \subseteq gone  BY ConnectedAre
  <2> HIDE DEF gone, mine
  <2>6. \A c \in Placed : c \in gone <=> c \in mine
    <3> SUFFICES ASSUME NEW c \in Placed, c \in gone PROVE c \in mine
      BY <2>5
    <3>1. PICK j \in embedded : c \in Connected(bp[j])  BY <2>2
    <3>2. c \in DOMAIN bp[j].computers  BY <3>1, ConnectedAre
    <3>3. j = k  BY <2>4, <3>2
    <3> QED  BY <3>1, <3>3 DEF mine
  <2>7. /\ Place \in [CompIds -> HostIds \cup {NoHost}]
        /\ \A c \in CompIds, h \in HostIds : Place[c] = h <=> c \in machines[h]
        /\ \A c \in CompIds :
             Place[c] = NoHost <=> \A h \in HostIds : c \notin machines[h]
    BY <2>2, PlaceIs, PlaceInIs
  <2>8. /\ Place' \in [CompIds -> HostIds \cup {NoHost}]
        /\ \A c \in CompIds, h \in HostIds : Place'[c] = h <=> c \in machines'[h]
        /\ \A c \in CompIds :
             Place'[c] = NoHost <=> \A h \in HostIds : c \notin machines'[h]
    BY <2>3, PlaceIs, PlaceInIs
  <2>9. /\ k \in DOMAIN Tenants
        /\ Tenants[k].wired = mine /\ Tenants[k].loose = {}
    <3>1. Loose(bp[k]) = gone \ mine  BY DEF Loose, gone, mine
    <3>2. gone \ mine = {}  BY <1>2, <2>6
    <3> QED  BY <1>0, <3>1, <3>2 DEF Tenants, mine
  <2>10. Place' = [c \in CompIds |-> IF c \in mine THEN NoHost ELSE Place[c]]
    <3> DEFINE q == [c \in CompIds |-> IF c \in mine THEN NoHost ELSE Place[c]]
    <3>1. q \in [CompIds -> HostIds \cup {NoHost}]  BY <2>7
    <3>2. \A c \in CompIds : Place'[c] = q[c]
      <4> SUFFICES ASSUME NEW c \in CompIds PROVE Place'[c] = q[c]
        OBVIOUS
      <4>1. \A h \in HostIds : c \in machines[h] => (c \in gone <=> c \in mine)
        BY <2>6 DEF Placed
      <4>2. \A h \in HostIds : c \in machines'[h] <=> c \in machines[h] /\ c \notin mine
        BY <2>1, <4>1
      <4>3. CASE c \in mine  BY <2>8, <4>2, <4>3
      <4>4. CASE c \notin mine
        <5>1. CASE Place[c] = NoHost  BY <2>7, <2>8, <4>2, <4>4, <5>1
        <5>2. CASE Place[c] # NoHost
          <6>1. Place[c] \in HostIds  BY <2>7, <5>2
          <6> QED  BY <2>7, <2>8, <4>2, <4>4, <6>1
        <5> QED  BY <5>1, <5>2
      <4> QED  BY <4>3, <4>4
    <3> HIDE DEF q
    <3> QED  BY <2>8, <3>1, <3>2, SamePlaces DEF q
  <2>11. Tenants' = [j \in DOMAIN Tenants \ {k} |-> Tenants[j]]
    BY <1>0, <1>2 DEF Tenants
  <2> QED  BY <2>9, <2>10, <2>11 DEF Abstract!Evict
<1> QED  BY <1>1, <1>2 DEF Unembed

LEMMA SameChartSamePlace ==
  ASSUME TestbedInv, UNCHANGED chart, bp' = bp \/ stage = "edit"
  PROVE  UNCHANGED <<Place, Tenants>>
<1>1. machines' = machines /\ embedded' = embedded  BY DEF chart
<1>2. Place' = Place  BY <1>1 DEF Place, Placed
<1>3. CASE bp' = bp  BY <1>1, <1>2, <1>3 DEF Tenants
<1>4. CASE stage = "edit"
  <2>1. embedded = {}  BY <1>4 DEF TestbedInv, Beginning
  <2> QED  BY <1>1, <1>2, <2>1 DEF Tenants
<1> QED  BY <1>3, <1>4

LEMMA StepRefines ==
  TestbedInv /\ [Next]_vars => [Abstract!Next]_<<Place, Tenants>>
<1> SUFFICES ASSUME TestbedInv, [Next]_vars
             PROVE  Abstract!Next \/ UNCHANGED <<Place, Tenants>>
  OBVIOUS
<1>1. CASE Commit
  BY <1>1, CommitAdmits, Committed DEF Abstract!Next
<1>2. ASSUME NEW k \in Slots, Unembed(k)
      PROVE  Abstract!Next \/ UNCHANGED <<Place, Tenants>>
  BY <1>2, UnembedEvicts DEF Abstract!Next
<1>3. ASSUME UNCHANGED chart, bp' = bp \/ stage = "edit"
      PROVE  UNCHANGED <<Place, Tenants>>
  BY <1>3, SameChartSamePlace
<1>4. CASE Build  BY <1>3, <1>4 DEF Build, Edit
<1>5. CASE Chart \/ FrontOfEmpty \/ AssignAddresses
  BY <1>3, <1>5 DEF Chart, FrontOfEmpty, AssignAddresses, graphs
<1>6. CASE EmbeddingFailed \/ NotFound
  BY <1>3, <1>6 DEF EmbeddingFailed, NotFound, Throw, EndCall, graphs
<1>7. CASE Pack
  BY <1>3, <1>7 DEF Pack, PackHost, graphs
<1>8. ASSUME NEW k \in Slots, Embed(k) PROVE UNCHANGED <<Place, Tenants>>
  BY <1>3, <1>8 DEF Embed, graphs
<1>9. CASE UNCHANGED vars  BY <1>3, <1>9 DEF vars, graphs
<1> QED
  BY <1>1, <1>2, <1>4, <1>5, <1>6, <1>7, <1>8, <1>9 DEF Next, EmbedStep

LEMMA InitRefines == Init => Abstract!Init
<1> SUFFICES ASSUME Init PROVE Abstract!Init  OBVIOUS
<1>1. Placed = {} /\ embedded = {}  BY DEF Init, Placed
<1>2. Place = [c \in CompIds |-> NoHost]  BY <1>1 DEF Place
<1>3. Tenants = <<>>  BY <1>1 DEF Tenants
<1> QED  BY <1>2, <1>3 DEF Abstract!Init

-----------------------------------------------------------------------------
(* Theorems                                                                *)

\* What the proofs of this module rest on holds after every step.
THEOREM TestbedInductive == Spec => []TestbedInv
BY InitHolds, NextKeeps, PTL DEF Spec

\* Whatever is built, edited, sent and embedded, the variables of the program
\* and of embed() stay within their types.
THEOREM TestbedTyped == Spec => []TestbedTypeOK
<1>1. TestbedInv => TestbedTypeOK
  BY DEF TestbedInv, GraphInv, DrawnOK, CallTypes, TestbedTypeOK
<1> QED  BY <1>1, TestbedInductive, PTL

\* embed() overloads no host, of any topology, and for any notion of load
\* under which a host without machines is not overloaded and fewer machines
\* are no more load.
THEOREM HostsBear == Spec => []NoHostOverloaded
<1>1. TestbedInv => NoHostOverloaded  BY DEF TestbedInv
<1> QED  BY <1>1, TestbedInductive, PTL

\* The chart has the connected computers of the embedded blueprints and no
\* others, each on one host, although embed() packs from copies that it does
\* not keep up to date.
THEOREM ChartKept == Spec => []ChartHoldsEmbedded
<1>1. TestbedInv => ChartHoldsEmbedded  BY DEF TestbedInv
<1> QED  BY <1>1, TestbedInductive, PTL

\* embed() and unembed() are what Placement promises: the computers of a
\* blueprint that are on a network get their hosts together or not at all, one
\* that is on none gets no host and keeps its blueprint from ever leaving,
\* nobody else's computer moves, no host takes more than it has, and a
\* blueprint that leaves takes what it came with.
THEOREM EmbedImplementsPlacement == Spec => ImplementsPlacement
BY InitRefines, StepRefines, TestbedInductive, PTL
   DEF Spec, ImplementsPlacement, Abstract!Spec

============================================================================
