---------------------------- MODULE GraphProofs ----------------------------
(***************************************************************************)
(* Proofs about what links lead to: connectedComputers finds every mac,    *)
(* what was removed stays unreachable, JSON keeps the connections; and     *)
(* about what embed() and construct make of them: nothing is lost where    *)
(* every host is on one switch, a switch carries the networks whose        *)
(* computers meet there, and interfaces get addresses of their own.        *)
(***************************************************************************)
EXTENDS TestbedProofs, WellFoundedInduction

LinksInv == \A k \in Slots : LinksOK(bp[k], drawn)

\* The ids at the ends of links.
IsEnd(b, x) == \E l \in Range(b.links) : x \in {l[1].id, l[2].id}

-----------------------------------------------------------------------------
(* One edit of one blueprint                                               *)

\* A blueprint that keeps its links, and gets no object that was an end.
LEMMA SameLinks ==
  ASSUME GraphInv, NEW b, LinksOK(b, drawn),
         DrawnOK', \A n \in Names : drawn[n] <= drawn'[n],
         NEW q, q.links = b.links,
         \A c \in DOMAIN q.computers :
           /\ Ifxs[c[1]] \subseteq DOMAIN q.computers[c]
           /\ \/ ~IsEnd(b, c)
              \/ /\ c \in DOMAIN b.computers
                 /\ Range(b.computers[c]) \subseteq Range(q.computers[c]),
         \A n \in DOMAIN q.networks : n[2] <= drawn'[n[1]],
         q.networks = [n \in DOMAIN q.networks |-> q.networks[n]]
  PROVE  LinksOK(q, drawn')
<1>1. q.links \in Seq(Range(q.links))  BY DEF LinksOK
<1>2. ASSUME NEW l \in Range(q.links), NEW e \in {l[1], l[2]}
      PROVE  /\ e.id \in CompIds \cup NetIds
             /\ e.id[2] <= drawn'[e.id[1]]
             /\ e.id \in DOMAIN q.computers => e.mac \in Range(q.computers[e.id])
  <2>0. l \in Range(b.links)  BY <1>2
  <2>1. /\ e.id \in CompIds \cup NetIds
        /\ e.id[2] <= drawn[e.id[1]]
        /\ e.id \in DOMAIN b.computers => e.mac \in Range(b.computers[e.id])
    BY <1>2, <2>0 DEF LinksOK
  <2>2. e.id[1] \in Names /\ e.id[2] \in Nat
    BY <2>1 DEF CompIds, NetIds, Names, Draws
  <2>3. drawn[e.id[1]] \in Nat /\ drawn'[e.id[1]] \in Nat
    BY <2>2, NamesAssumption DEF DrawnOK, GraphInv
  <2>4. e.id[2] <= drawn'[e.id[1]]  BY <2>1, <2>2, <2>3
  <2>5. IsEnd(b, e.id)  BY <1>2, <2>0 DEF IsEnd
  <2>6. ASSUME e.id \in DOMAIN q.computers
        PROVE  e.mac \in Range(q.computers[e.id])
    BY <2>1, <2>5, <2>6
  <2> QED  BY <2>1, <2>4, <2>6
<1> QED  BY <1>1, <1>2 DEF LinksOK

\* What was drawn stays drawn.
LEMMA OldNets ==
  ASSUME GraphInv, NEW b, BlueprintOK(b), LinksOK(b, drawn),
         DrawnOK', \A n \in Names : drawn[n] <= drawn'[n]
  PROVE  \A n \in DOMAIN b.networks : n[2] <= drawn'[n[1]]
<1> SUFFICES ASSUME NEW n \in DOMAIN b.networks PROVE n[2] <= drawn'[n[1]]
  OBVIOUS
<1>1. n \in NetIds  BY DEF BlueprintOK
<1>2. n[1] \in Names /\ n[2] \in Nat  BY <1>1 DEF NetIds, Names, Draws
<1>3. n[2] <= drawn[n[1]]  BY DEF LinksOK
<1>4. drawn[n[1]] \in Nat /\ drawn'[n[1]] \in Nat
  BY <1>2, NamesAssumption DEF DrawnOK, GraphInv
<1> QED  BY <1>2, <1>3, <1>4

\* Blueprints that are not edited, after ids were drawn.
LEMMA OthersLinks ==
  ASSUME GraphInv, NEW j \in Slots, LinksOK(bp[j], drawn),
         DrawnOK', \A n \in Names : drawn[n] <= drawn'[n]
  PROVE  LinksOK(bp[j], drawn')
<1>1. \A c \in DOMAIN bp[j].computers :
        Ifxs[c[1]] \subseteq DOMAIN bp[j].computers[c]
  BY DEF LinksOK
<1>2. bp[j].networks = [n \in DOMAIN bp[j].networks |-> bp[j].networks[n]]
  BY DEF LinksOK
<1>3. \A n \in DOMAIN bp[j].networks : n[2] <= drawn'[n[1]]
  BY OldNets DEF GraphInv
<1> QED  BY <1>1, <1>2, <1>3, SameLinks

\* No id that is drawn now is at the end of a link.
LEMMA FreshIsNoEnd ==
  ASSUME GraphInv, NEW k \in Slots, LinksOK(bp[k], drawn),
         NEW name \in Names, Draw(name)
  PROVE  ~IsEnd(bp[k], Fresh(name))
<1> SUFFICES ASSUME IsEnd(bp[k], Fresh(name)) PROVE FALSE
  OBVIOUS
<1>1. PICK l \in Range(bp[k].links) : Fresh(name) \in {l[1].id, l[2].id}
  BY DEF IsEnd
<1>2. Fresh(name)[2] <= drawn[Fresh(name)[1]]  BY <1>1 DEF LinksOK
<1>3. DrawnOK  BY DEF GraphInv
<1>4. /\ Fresh(name)[1] = name /\ Fresh(name)[2] \in Draws
      /\ Fresh(name)[2] > drawn[name]
  BY <1>3, FreshIds
<1>5. drawn[name] \in Nat /\ Fresh(name)[2] \in Nat
  BY <1>3, <1>4, NamesAssumption DEF DrawnOK, Draws
<1> QED  BY <1>2, <1>4, <1>5

\* The edited blueprint is in order, and so are the others.
LEMMA EditedLinks ==
  ASSUME GraphInv, LinksInv, NEW k \in Slots, NEW q, EditBlueprint(k, q),
         DrawnOK', \A n \in Names : drawn[n] <= drawn'[n], LinksOK(q, drawn')
  PROVE  LinksInv'
<1>1. \A j \in Slots : bp'[j] = IF j = k THEN q ELSE bp[j]
  BY DEF EditBlueprint, GraphInv
<1>2. \A j \in Slots : LinksOK(bp[j], drawn')
  BY OthersLinks DEF LinksInv
<1> QED  BY <1>1, <1>2 DEF LinksInv

LEMMA NewComputerLinks ==
  ASSUME GraphInv, LinksInv, NEW k \in Slots, NEW name \in CompNames,
         NewComputer(k, name)
  PROVE  LinksInv'
<1> DEFINE b == bp[k]
           c == Fresh(name)
           q == AddComputer(b, c)
<1>1. name \in Names /\ DrawnOK  BY DEF Names, GraphInv
<1>2. Draw(name) /\ EditBlueprint(k, q)  BY DEF NewComputer
<1>3. DrawnOK' /\ \A n \in Names : drawn[n] <= drawn'[n]
  BY <1>1, <1>2, FreshIds
<1>4. BlueprintOK(b) /\ LinksOK(b, drawn)  BY DEF GraphInv, LinksInv
<1>5. ~IsEnd(b, c)  BY <1>1, <1>2, <1>4, FreshIsNoEnd
<1> HIDE DEF c
<1> DEFINE x == [y \in DOMAIN b.computers \cup {c} |->
                   IF y = c THEN [i \in Ifxs[c[1]] \cup {"cifx"} |-> Mac(c, i, 1)]
                            ELSE b.computers[y]]
<1>6. /\ q.links = b.links /\ q.networks = b.networks /\ q.computers = x
  BY <1>4 DEF BlueprintOK, AddComputer
<1>7. \A n \in DOMAIN b.networks : n[2] <= drawn'[n[1]]
  BY <1>3, <1>4, OldNets
<1>8. \A d \in DOMAIN x : d # c => d \in DOMAIN b.computers /\ x[d] = b.computers[d]
  OBVIOUS
<1>9. DOMAIN x[c] = Ifxs[c[1]] \cup {"cifx"}  OBVIOUS
<1> HIDE DEF q, x
<1>10. \A d \in DOMAIN q.computers :
        /\ Ifxs[d[1]] \subseteq DOMAIN q.computers[d]
        /\ \/ ~IsEnd(b, d)
           \/ /\ d \in DOMAIN b.computers
              /\ Range(b.computers[d]) \subseteq Range(q.computers[d])
  BY <1>4, <1>5, <1>6, <1>8, <1>9 DEF LinksOK
<1>11. q.networks = [n \in DOMAIN q.networks |-> q.networks[n]]
  BY <1>4, <1>6 DEF LinksOK
<1> HIDE DEF b
<1>12. LinksOK(q, drawn')
  BY <1>3, <1>4, <1>6, <1>7, <1>10, <1>11, SameLinks
<1> QED  BY <1>2, <1>3, <1>12, EditedLinks

\* What changes the networks of a blueprint and nothing else.
LEMMA NetworksLinks ==
  ASSUME GraphInv, LinksInv, NEW k \in Slots, NEW x,
         EditBlueprint(k, [bp[k] EXCEPT !.networks = x]),
         DrawnOK', \A n \in Names : drawn[n] <= drawn'[n],
         \A n \in DOMAIN x : n \in DOMAIN bp[k].networks \/ n[2] <= drawn'[n[1]],
         x = [n \in DOMAIN x |-> x[n]]
  PROVE  LinksInv'
<1> DEFINE b == bp[k]
           q == [b EXCEPT !.networks = x]
<1>1. BlueprintOK(b) /\ LinksOK(b, drawn)  BY DEF GraphInv, LinksInv
<1>2. q.links = b.links /\ q.computers = b.computers /\ q.networks = x
  BY <1>1 DEF BlueprintOK
<1>3. EditBlueprint(k, q)  OBVIOUS
<1>4. \A n \in DOMAIN b.networks : n[2] <= drawn'[n[1]]  BY <1>1, OldNets
<1> HIDE DEF b, q
<1>5. LinksOK(q, drawn')
  <2>1. \A d \in DOMAIN q.computers :
          /\ Ifxs[d[1]] \subseteq DOMAIN q.computers[d]
          /\ d \in DOMAIN b.computers
          /\ Range(b.computers[d]) \subseteq Range(q.computers[d])
    BY <1>1, <1>2 DEF LinksOK
  <2>2. \A n \in DOMAIN q.networks : n[2] <= drawn'[n[1]]
    BY <1>2, <1>4 DEF b
  <2> QED  BY <1>1, <1>2, <2>1, <2>2, SameLinks
<1> QED  BY <1>3, <1>5, EditedLinks

LEMMA NewNetworkLinks ==
  ASSUME GraphInv, LinksInv, NEW k \in Slots, NEW name \in NetNames,
         NewNetwork(k, name)
  PROVE  LinksInv'
<1> DEFINE n == Fresh(name)
<1>1. name \in Names /\ DrawnOK  BY DEF Names, GraphInv
<1>2. Draw(name) /\ EditBlueprint(k, AddNetwork(bp[k], n))  BY DEF NewNetwork
<1>3. /\ DrawnOK' /\ \A m \in Names : drawn[m] <= drawn'[m]
      /\ n[1] = name /\ n[2] <= drawn'[name]
  BY <1>1, <1>2, FreshIds
<1> HIDE DEF n
<1> DEFINE x == [y \in DOMAIN bp[k].networks \cup {n} |->
                   IF y = n THEN Space[n[1]] ELSE bp[k].networks[y]]
<1>4. EditBlueprint(k, [bp[k] EXCEPT !.networks = x])
  BY <1>2 DEF AddNetwork
<1>5. \A y \in DOMAIN x : y \in DOMAIN bp[k].networks \/ y[2] <= drawn'[y[1]]
  BY <1>3
<1>6. x = [y \in DOMAIN x |-> x[y]]  OBVIOUS
<1> HIDE DEF x
<1> QED  BY <1>3, <1>4, <1>5, <1>6, NetworksLinks

\* A link more, between objects of the blueprint.
LEMMA AppendLinks ==
  ASSUME GraphInv, LinksInv, NEW k \in Slots, NEW l, UNCHANGED drawn,
         EditBlueprint(k, [bp[k] EXCEPT !.links = Append(bp[k].links, l)]),
         \A e \in {l[1], l[2]} :
           \/ e.id \in DOMAIN bp[k].networks
           \/ /\ e.id \in DOMAIN bp[k].computers
              /\ e.mac \in Range(bp[k].computers[e.id])
  PROVE  LinksInv'
<1> DEFINE b == bp[k]
           links == Append(b.links, l)
           q == [b EXCEPT !.links = links]
<1>1. /\ BlueprintOK(b) /\ LinksOK(b, drawn) /\ OldIds(b, drawn)
  BY DEF GraphInv, LinksInv
<1>2. q.computers = b.computers /\ q.networks = b.networks /\ q.links = links
  BY <1>1 DEF BlueprintOK
<1>3. EditBlueprint(k, q)  OBVIOUS
<1>4. \A n \in DOMAIN b.networks : n \notin DOMAIN b.computers
  BY <1>1, NamesAssumption DEF BlueprintOK, CompIds, NetIds
<1>5. Range(links) = Range(b.links) \cup {l} /\ links \in Seq(Range(links))
  <2>1. b.links \in Seq(Range(b.links))  BY <1>1 DEF LinksOK
  <2>2. /\ DOMAIN links = 1 .. Len(b.links) + 1
        /\ DOMAIN b.links = 1 .. Len(b.links) /\ Len(b.links) \in Nat
        /\ links[Len(b.links) + 1] = l
        /\ \A i \in 1 .. Len(b.links) : links[i] = b.links[i]
    BY <2>1
  <2>4. links \in Seq(Range(b.links) \cup {l})  BY <2>1
  <2> HIDE DEF b, links, q
  <2>5. Range(links) = {links[i] : i \in 1 .. Len(b.links) + 1}
    BY <2>2 DEF Range
  <2>6. Range(b.links) = {b.links[i] : i \in 1 .. Len(b.links)}
    BY <2>2 DEF Range
  <2>7. 1 .. Len(b.links) + 1 = 1 .. Len(b.links) \cup {Len(b.links) + 1}
    BY <2>2
  <2>8. {links[i] : i \in 1 .. Len(b.links)} = Range(b.links)
    BY <2>2, <2>6
  <2>3. Range(links) = Range(b.links) \cup {l}
    BY <2>2, <2>5, <2>7, <2>8
  <2> QED  BY <2>3, <2>4
<1>6. \A e \in {l[1], l[2]} :
        /\ e.id \in CompIds \cup NetIds
        /\ e.id[2] <= drawn[e.id[1]]
        /\ e.id \in DOMAIN b.computers => e.mac \in Range(b.computers[e.id])
  BY <1>1, <1>4 DEF BlueprintOK, OldIds, LinksOK
<1> HIDE DEF b, q, links
<1>7. LinksOK(q, drawn)
  BY <1>1, <1>2, <1>5, <1>6 DEF LinksOK
<1>8. DrawnOK' /\ \A n \in Names : drawn[n] <= drawn'[n]
  BY NamesAssumption DEF GraphInv, DrawnOK
<1>9. LinksOK(q, drawn')  BY <1>7
<1> QED  BY <1>3, <1>8, <1>9, EditedLinks

\* What JSON makes of the interfaces of a computer.
LEMMA ReadBack ==
  ASSUME NEW ifxs, NEW c
  PROVE  LET j == [id |-> c,
                   interfaces |-> {[name |-> i, mac |-> ifxs[i]] :
                                     i \in DOMAIN ifxs}]
             r == ComputerFromJson(j)
         IN /\ DOMAIN r = DOMAIN ifxs \cup {"cifx"}
            /\ \A i \in DOMAIN ifxs : r[i] = ifxs[i]
<1> DEFINE doc(i) == [name |-> i, mac |-> ifxs[i]]
           j == [id |-> c, interfaces |-> {doc(i) : i \in DOMAIN ifxs}]
           r == ComputerFromJson(j)
           macOf(i) == CHOOSE x \in j.interfaces : x.name = i
<1>1. j.interfaces = {doc(i) : i \in DOMAIN ifxs} /\ j.id = c  OBVIOUS
<1>2. \A i : doc(i).name = i  OBVIOUS
<1>0. \A i : doc(i).mac = ifxs[i]  OBVIOUS
<1> HIDE DEF doc, j
<1>3. {x.name : x \in j.interfaces} = DOMAIN ifxs
  <2>1. ASSUME NEW i \in DOMAIN ifxs
        PROVE  i \in {x.name : x \in j.interfaces}
    <3>1. doc(i) \in j.interfaces /\ doc(i).name = i  BY <1>1, <1>2
    <3> QED  BY <3>1
  <2>2. ASSUME NEW x \in j.interfaces
        PROVE  x.name \in DOMAIN ifxs
    <3>1. PICK i \in DOMAIN ifxs : x = doc(i)  BY <1>1
    <3> QED  BY <3>1, <1>2
  <2> QED  BY <2>1, <2>2
<1>4. \A i \in DOMAIN ifxs : macOf(i).mac = ifxs[i]
  <2> SUFFICES ASSUME NEW i \in DOMAIN ifxs PROVE macOf(i).mac = ifxs[i]
    OBVIOUS
  <2>1. doc(i) \in j.interfaces /\ doc(i).name = i  BY <1>1, <1>2
  <2>2. macOf(i) \in j.interfaces /\ macOf(i).name = i  BY <2>1
  <2> HIDE DEF macOf
  <2>3. PICK m \in DOMAIN ifxs : macOf(i) = doc(m)  BY <1>1, <2>2
  <2>4. m = i  BY <1>2, <2>2, <2>3
  <2> QED  BY <1>0, <2>3, <2>4
<1>5. r = [i \in {"cifx"} \cup DOMAIN ifxs |->
             IF i \in DOMAIN ifxs THEN macOf(i).mac
                                  ELSE Mac(c, "cifx", 2)]
  BY <1>1, <1>3 DEF ComputerFromJson
<1> HIDE DEF macOf, r
<1>6. DOMAIN r = DOMAIN ifxs \cup {"cifx"} /\ \A i \in DOMAIN ifxs : r[i] = ifxs[i]
  BY <1>4, <1>5
<1> QED  BY <1>6 DEF r, j, doc

\* What JSON makes of a blueprint.
LEMMA SentBlueprint ==
  ASSUME NEW b
  PROVE  LET r == BlueprintFromJson(BlueprintJson(b))
         IN /\ r.links = b.links
            /\ DOMAIN r.computers = DOMAIN b.computers
            /\ \A c \in DOMAIN b.computers :
                 /\ DOMAIN b.computers[c] \subseteq DOMAIN r.computers[c]
                 /\ Range(b.computers[c]) \subseteq Range(r.computers[c])
            /\ r.networks = [n \in DOMAIN b.networks |-> b.networks[n]]
<1> DEFINE cdoc(c) ==
             [id |-> c,
              interfaces |-> {[name |-> i, mac |-> b.computers[c][i]] :
                                i \in DOMAIN b.computers[c]}]
           ndoc(n) == [id |-> n, ipv4 |-> b.networks[n]]
           j == BlueprintJson(b)
           r == BlueprintFromJson(j)
<1>1. /\ j.computers = {cdoc(c) : c \in DOMAIN b.computers}
      /\ j.networks = {ndoc(n) : n \in DOMAIN b.networks}
      /\ j.links = b.links
  BY DEF BlueprintJson
<1>2. \A c : cdoc(c).id = c  OBVIOUS
<1>3. \A n : ndoc(n).id = n  OBVIOUS
<1>0. \A n : ndoc(n).ipv4 = b.networks[n]  OBVIOUS
<1>4. \A c \in DOMAIN b.computers :
        /\ DOMAIN b.computers[c] \subseteq DOMAIN ComputerFromJson(cdoc(c))
        /\ Range(b.computers[c]) \subseteq Range(ComputerFromJson(cdoc(c)))
  <2> SUFFICES ASSUME NEW c \in DOMAIN b.computers
               PROVE  /\ DOMAIN b.computers[c] \subseteq DOMAIN ComputerFromJson(cdoc(c))
                      /\ Range(b.computers[c]) \subseteq Range(ComputerFromJson(cdoc(c)))
    OBVIOUS
  <2> DEFINE ifxs == b.computers[c]
             p == ComputerFromJson(cdoc(c))
  <2>1. /\ DOMAIN p = DOMAIN ifxs \cup {"cifx"}
        /\ \A i \in DOMAIN ifxs : p[i] = ifxs[i]
    BY ReadBack
  <2> HIDE DEF ifxs, p
  <2>2. DOMAIN ifxs \subseteq DOMAIN p /\ Range(ifxs) \subseteq Range(p)
    BY <2>1 DEF Range
  <2> QED  BY <2>2 DEF ifxs, p
<1> HIDE DEF cdoc, ndoc, j
<1>5. {x.id : x \in j.computers} = DOMAIN b.computers  BY <1>1, <1>2
<1>6. {x.id : x \in j.networks} = DOMAIN b.networks  BY <1>1, <1>3
<1>7. \A c \in DOMAIN b.computers :
        (CHOOSE x \in j.computers : x.id = c) = cdoc(c)
  BY <1>1, <1>2
<1>8. \A n \in DOMAIN b.networks :
        (CHOOSE x \in j.networks : x.id = n) = ndoc(n)
  BY <1>1, <1>3
<1>9. /\ r.links = b.links
      /\ r.computers = [c \in DOMAIN b.computers |->
                          ComputerFromJson(CHOOSE x \in j.computers : x.id = c)]
      /\ r.networks = [n \in DOMAIN b.networks |->
                         (CHOOSE x \in j.networks : x.id = n).ipv4]
  BY <1>1, <1>5, <1>6 DEF BlueprintFromJson
<1> HIDE DEF r
<1>10. /\ DOMAIN r.computers = DOMAIN b.computers
       /\ \A c \in DOMAIN b.computers : r.computers[c] = ComputerFromJson(cdoc(c))
  BY <1>7, <1>9
<1>11. r.networks = [n \in DOMAIN b.networks |-> b.networks[n]]
  <2>1. \A n \in DOMAIN b.networks :
          (CHOOSE x \in j.networks : x.id = n).ipv4 = b.networks[n]
    BY <1>0, <1>8
  <2> QED  BY <1>9, <2>1
<1> QED  BY <1>4, <1>9, <1>10, <1>11 DEF r, j

\* Edits that draw no id.
LEMMA EditLinks ==
  ASSUME GraphInv, LinksInv, NEW k \in Slots, UNCHANGED drawn,
         \/ LinkComputer(k) \/ LinkNetworks(k) \/ Clone(k) \/ SendBlueprint(k)
         \/ \E name : DropComputer(k, name) \/ DropNetwork(k, name)
  PROVE  LinksInv'
<1> DEFINE b == bp[k]
<1>0. BlueprintOK(b) /\ LinksOK(b, drawn)  BY DEF GraphInv, LinksInv
<1>1. DrawnOK' /\ \A n \in Names : drawn[n] <= drawn'[n]
  BY NamesAssumption DEF GraphInv, DrawnOK
<1>2. CASE LinkComputer(k)
  <2>1. PICK c \in DOMAIN b.computers, n \in DOMAIN b.networks :
          \E i \in Ifxs[c[1]] : EditBlueprint(k, Connect(b, c, i, n))
    BY <1>2 DEF LinkComputer
  <2>2. PICK i \in Ifxs[c[1]] : EditBlueprint(k, Connect(b, c, i, n))
    BY <2>1
  <2> DEFINE l == <<Endpoint(c, b.computers[c][i]), Endpoint(n, NoMac)>>
  <2>3. EditBlueprint(k, [b EXCEPT !.links = Append(b.links, l)])
    BY <2>2 DEF Connect
  <2>4. i \in DOMAIN b.computers[c]  BY <1>0 DEF LinksOK
  <2>5. b.computers[c][i] \in Range(b.computers[c])  BY <2>4 DEF Range
  <2>6. \A e \in {l[1], l[2]} :
          \/ e.id \in DOMAIN b.networks
          \/ /\ e.id \in DOMAIN b.computers
             /\ e.mac \in Range(b.computers[e.id])
    BY <2>5 DEF Endpoint
  <2> HIDE DEF l
  <2> QED  BY <2>3, <2>6, AppendLinks
<1>3. CASE LinkNetworks(k)
  <2>1. PICK n \in DOMAIN b.networks, m \in DOMAIN b.networks :
          EditBlueprint(k, ConnectNets(b, n, m))
    BY <1>3 DEF LinkNetworks
  <2> DEFINE l == <<Endpoint(n, NoMac), Endpoint(m, NoMac)>>
  <2>2. EditBlueprint(k, [b EXCEPT !.links = Append(b.links, l)])
    BY <2>1 DEF ConnectNets
  <2>3. \A e \in {l[1], l[2]} : e.id \in DOMAIN b.networks
    BY DEF Endpoint
  <2> HIDE DEF l
  <2> QED  BY <2>2, <2>3, AppendLinks
<1>4. CASE Clone(k)
  <2> DEFINE x == [n \in DOMAIN b.networks |-> DefaultSpace]
  <2>1. EditBlueprint(k, [b EXCEPT !.networks = x])
    BY <1>4 DEF Clone, CloneBlueprint
  <2>2. DOMAIN x \subseteq DOMAIN b.networks /\ x = [n \in DOMAIN x |-> x[n]]
    OBVIOUS
  <2> HIDE DEF x
  <2> QED  BY <1>1, <2>1, <2>2, NetworksLinks
<1>5. ASSUME NEW name, DropNetwork(k, name) PROVE LinksInv'
  <2> DEFINE x == [n \in {y \in DOMAIN b.networks : y[1] # name} |-> b.networks[n]]
  <2>1. EditBlueprint(k, [b EXCEPT !.networks = x])
    BY <1>5 DEF DropNetwork, RemoveNetwork
  <2>2. DOMAIN x \subseteq DOMAIN b.networks /\ x = [n \in DOMAIN x |-> x[n]]
    OBVIOUS
  <2> HIDE DEF x
  <2> QED  BY <1>1, <2>1, <2>2, NetworksLinks
<1>6. ASSUME NEW q, EditBlueprint(k, q), q.links = b.links,
             DOMAIN q.computers \subseteq DOMAIN b.computers,
             \A c \in DOMAIN q.computers :
               /\ DOMAIN b.computers[c] \subseteq DOMAIN q.computers[c]
               /\ Range(b.computers[c]) \subseteq Range(q.computers[c]),
             q.networks = [n \in DOMAIN b.networks |-> b.networks[n]]
      PROVE  LinksInv'
  <2>1. \A n \in DOMAIN b.networks : n[2] <= drawn'[n[1]]
    BY <1>0, <1>1, OldNets
  <2>2. \A c \in DOMAIN q.computers : Ifxs[c[1]] \subseteq DOMAIN q.computers[c]
    BY <1>0, <1>6 DEF LinksOK
  <2> HIDE DEF b
  <2>3. LinksOK(q, drawn')  BY <1>0, <1>1, <1>6, <2>1, <2>2, SameLinks
  <2> QED  BY <1>1, <1>6, <2>3, EditedLinks
<1>7. ASSUME NEW name, DropComputer(k, name) PROVE LinksInv'
  <2> DEFINE x == [c \in {y \in DOMAIN b.computers : y[1] # name} |-> b.computers[c]]
             q == [b EXCEPT !.computers = x]
  <2>1. EditBlueprint(k, q)  BY <1>7 DEF DropComputer, RemoveComputer
  <2>2. q.links = b.links /\ q.networks = b.networks /\ q.computers = x
    BY <1>0 DEF BlueprintOK
  <2>3. /\ DOMAIN x \subseteq DOMAIN b.computers
        /\ \A c \in DOMAIN x : x[c] = b.computers[c]
    OBVIOUS
  <2>4. b.networks = [n \in DOMAIN b.networks |-> b.networks[n]]
    BY <1>0 DEF LinksOK
  <2> HIDE DEF b, q, x
  <2> QED  BY <1>6, <2>1, <2>2, <2>3, <2>4
<1>8. CASE SendBlueprint(k)
  <2> DEFINE q == BlueprintFromJson(BlueprintJson(b))
  <2>1. EditBlueprint(k, q)  BY <1>8 DEF SendBlueprint
  <2>2. /\ q.links = b.links
        /\ DOMAIN q.computers = DOMAIN b.computers
        /\ \A c \in DOMAIN b.computers :
             /\ DOMAIN b.computers[c] \subseteq DOMAIN q.computers[c]
             /\ Range(b.computers[c]) \subseteq Range(q.computers[c])
        /\ q.networks = [n \in DOMAIN b.networks |-> b.networks[n]]
    BY SentBlueprint
  <2> HIDE DEF b, q
  <2> QED  BY <1>6, <2>1, <2>2
<1> QED  BY <1>2, <1>3, <1>4, <1>5, <1>7, <1>8

LEMMA TopologyDraws ==
  ASSUME GraphInv, BuildTopology
  PROVE  bp' = bp /\ \A n \in Names : drawn[n] <= drawn'[n]
<1> USE DEF GraphInv
<1>0. DrawnOK /\ \A n \in Names : drawn[n] \in Nat
  BY NamesAssumption DEF DrawnOK
<1>1. ASSUME NEW name \in HostNames \cup SwNames, Draw(name)
      PROVE  \A n \in Names : drawn[n] <= drawn'[n]
  BY <1>0, <1>1, FreshIds DEF Names
<1>2. CASE SendTopology
  <2>1. bp' = bp  BY <1>2 DEF SendTopology, EditTopology
  <2> SUFFICES ASSUME NEW n \in Names PROVE drawn[n] <= drawn'[n]
    BY <2>1
  <2> DEFINE S == {x \in tt.hosts \cup tt.switches : x[1] = n}
  <2>2. IsFiniteSet(HostIds) /\ IsFiniteSet(SwIds)
    BY FiniteIds DEF HostIds, SwIds
  <2>3. IsFiniteSet(tt.hosts) /\ IsFiniteSet(tt.switches)
    BY <2>2, FS_Subset DEF TopologyOK
  <2>4. IsFiniteSet(tt.hosts \cup tt.switches)  BY <2>3, FS_Union
  <2>5. S \subseteq tt.hosts \cup tt.switches  OBVIOUS
  <2>6. drawn'[n] = drawn[n] + Cardinality(S)
    BY <1>2 DEF SendTopology, DrawnAfterRead, DrawnOK
  <2> HIDE DEF S
  <2>7. Cardinality(S) \in Nat  BY <2>4, <2>5, FS_Subset, FS_CardinalityType
  <2> QED  BY <1>0, <2>6, <2>7
<1>3. ASSUME NEW name \in HostNames, NewHost(name)
      PROVE  bp' = bp /\ \A n \in Names : drawn[n] <= drawn'[n]
  BY <1>1, <1>3 DEF NewHost, EditTopology
<1>4. ASSUME NEW name \in SwNames, NewSwitch(name)
      PROVE  bp' = bp /\ \A n \in Names : drawn[n] <= drawn'[n]
  BY <1>1, <1>4 DEF NewSwitch, EditTopology
<1>5. CASE UNCHANGED drawn /\ (Plug \/ Trunk \/ DropSwitch \/ DropHost)
  <2>1. bp' = bp
    BY <1>5 DEF Plug, Trunk, DropSwitch, DropHost, EditTopology
  <2> QED  BY <1>0, <1>5, <2>1
<1> QED  BY <1>2, <1>3, <1>4, <1>5 DEF BuildTopology

LEMMA LinksStep == TestbedInv /\ LinksInv /\ [Next]_vars => LinksInv'
<1> SUFFICES ASSUME TestbedInv, LinksInv, [Next]_vars PROVE LinksInv'
  OBVIOUS
<1>0. GraphInv /\ GraphInv' /\ DrawnOK'
  BY NextKeeps DEF TestbedInv, GraphInv
<1>1. CASE UNCHANGED graphs  BY <1>1 DEF graphs, LinksInv
<1>2. ASSUME NEW k \in Slots, BuildBlueprint(k) PROVE LinksInv'
  BY <1>0, <1>2, NewComputerLinks, NewNetworkLinks, EditLinks
     DEF BuildBlueprint
<1>3. CASE BuildTopology
  <2>1. bp' = bp /\ \A n \in Names : drawn[n] <= drawn'[n]
    BY <1>0, <1>3, TopologyDraws
  <2> QED  BY <1>0, <2>1, OthersLinks DEF LinksInv
<1>4. Build \/ UNCHANGED graphs
  BY DEF Next, Chart, Embed, Unembed, EmbedStep, Pack, PackHost, FrontOfEmpty,
         EmbeddingFailed, NotFound, Throw, Commit, EndCall, AssignAddresses, vars
<1> QED  BY <1>1, <1>2, <1>3, <1>4 DEF Build

LEMMA LinksInit == Init => LinksInv
BY LinksAssumption, BaseAssumption DEF Init, LinksInv

\* What the proofs about links rest on holds after every step.
THEOREM LinksInductive == Spec => []LinksInv
BY LinksInit, LinksStep, TestbedInductive, PTL DEF Spec

\* No sequence of edits leaves a link whose mac address the computer at its
\* end does not have: connectedComputers never throws.
THEOREM LinksResolve == Spec => []ConnectionsResolve
<1>1. LinksInv => ConnectionsResolve
  <2> SUFFICES ASSUME LinksInv, NEW k \in Slots, NEW n, Broken(bp[k], n)
               PROVE  FALSE
    BY DEF ConnectionsResolve
  <2>1. PICK l \in Range(bp[k].links) :
          /\ Far(l, n).id \in DOMAIN bp[k].computers
          /\ Far(l, n).mac \notin Range(bp[k].computers[Far(l, n).id])
    BY DEF Broken
  <2>2. Far(l, n) \in {l[1], l[2]}  BY DEF Far
  <2> QED  BY <2>1, <2>2 DEF LinksInv, LinksOK
<1> QED  BY <1>1, LinksInductive, PTL

-----------------------------------------------------------------------------
(* What is removed stays removed                                           *)

Objects(b) == DOMAIN b.computers \cup DOMAIN b.networks

\* An edit gives a blueprint no object that is at the end of a link.
LEMMA NewObjects ==
  ASSUME GraphInv, LinksInv, NEW k \in Slots, NEW j \in Slots, BuildBlueprint(j)
  PROVE  \A x \in Objects(bp'[k]) : x \in Objects(bp[k]) \/ ~IsEnd(bp[k], x)
<1> DEFINE b == bp[k]
           Fine(q) == \A x \in Objects(q) : x \in Objects(b) \/ ~IsEnd(b, x)
<1>0. /\ DOMAIN bp = Slots /\ BlueprintOK(b) /\ LinksOK(b, drawn)
      /\ \A name \in CompNames \cup NetNames : name \in Names
  BY DEF GraphInv, LinksInv, Names
<1>1. Fine(b)  OBVIOUS
<1>2. ASSUME NEW q, EditBlueprint(j, q), j = k => Fine(q) PROVE Fine(bp'[k])
  BY <1>0, <1>1, <1>2 DEF EditBlueprint
<1>3. ASSUME NEW q, EditBlueprint(j, q), j = k => Objects(q) \subseteq Objects(b)
      PROVE  Fine(bp'[k])
  BY <1>2, <1>3
<1>4. ASSUME NEW name \in CompNames, NewComputer(j, name) PROVE Fine(bp'[k])
  <2>1. EditBlueprint(j, AddComputer(bp[j], Fresh(name))) /\ Draw(name)
    BY <1>4 DEF NewComputer
  <2>2. ~IsEnd(b, Fresh(name))  BY <1>0, <2>1, FreshIsNoEnd
  <2>3. Objects(AddComputer(b, Fresh(name))) = Objects(b) \cup {Fresh(name)}
    BY <1>0 DEF AddComputer, Objects, BlueprintOK
  <2> QED  BY <1>2, <2>1, <2>2, <2>3
<1>5. ASSUME NEW name \in NetNames, NewNetwork(j, name) PROVE Fine(bp'[k])
  <2>1. EditBlueprint(j, AddNetwork(bp[j], Fresh(name))) /\ Draw(name)
    BY <1>5 DEF NewNetwork
  <2>2. ~IsEnd(b, Fresh(name))  BY <1>0, <2>1, FreshIsNoEnd
  <2>3. Objects(AddNetwork(b, Fresh(name))) = Objects(b) \cup {Fresh(name)}
    BY <1>0 DEF AddNetwork, Objects, BlueprintOK
  <2> QED  BY <1>2, <2>1, <2>2, <2>3
<1>6. CASE LinkComputer(j)
  <2>1. PICK l : EditBlueprint(j, [bp[j] EXCEPT !.links = l])
    BY <1>6 DEF LinkComputer, Connect
  <2>2. Objects([b EXCEPT !.links = l]) = Objects(b)
    BY <1>0 DEF Objects, BlueprintOK
  <2> QED  BY <1>3, <2>1, <2>2
<1>7. CASE LinkNetworks(j)
  <2>1. PICK l : EditBlueprint(j, [bp[j] EXCEPT !.links = l])
    BY <1>7 DEF LinkNetworks, ConnectNets
  <2>2. Objects([b EXCEPT !.links = l]) = Objects(b)
    BY <1>0 DEF Objects, BlueprintOK
  <2> QED  BY <1>3, <2>1, <2>2
<1>8. ASSUME NEW name, DropComputer(j, name) PROVE Fine(bp'[k])
  <2>1. Objects(RemoveComputer(b, name)) \subseteq Objects(b)
    BY <1>0 DEF RemoveComputer, Objects, BlueprintOK
  <2> QED  BY <1>3, <1>8, <2>1 DEF DropComputer
<1>9. ASSUME NEW name, DropNetwork(j, name) PROVE Fine(bp'[k])
  <2>1. Objects(RemoveNetwork(b, name)) \subseteq Objects(b)
    BY <1>0 DEF RemoveNetwork, Objects, BlueprintOK
  <2> QED  BY <1>3, <1>9, <2>1 DEF DropNetwork
<1>10. CASE Clone(j)
  <2>1. Objects(CloneBlueprint(b)) \subseteq Objects(b)
    BY <1>0 DEF CloneBlueprint, Objects, BlueprintOK
  <2> QED  BY <1>3, <1>10, <2>1 DEF Clone
<1>11. CASE SendBlueprint(j)
  <2> DEFINE q == BlueprintFromJson(BlueprintJson(b))
  <2>1. /\ DOMAIN q.computers = DOMAIN b.computers
        /\ q.networks = [n \in DOMAIN b.networks |-> b.networks[n]]
    BY SentBlueprint
  <2> HIDE DEF q, b
  <2>2. Objects(q) \subseteq Objects(b)  BY <2>1 DEF Objects
  <2> QED  BY <1>3, <1>11, <2>2 DEF SendBlueprint, q, b
<1> QED
  BY <1>4, <1>5, <1>6, <1>7, <1>8, <1>9, <1>10, <1>11 DEF BuildBlueprint

\* A link that leads to something removed never leads to anything again.
THEOREM RemovedStayRemoved == Spec => DeadLinksStayDead
<1> DEFINE Dead == \A k \in Slots : \A i \in DOMAIN bp[k].links :
                     Dangling(bp[k], bp[k].links[i]) =>
                       Dangling(bp[k]', bp[k].links[i])
<1>1. TestbedInv /\ LinksInv /\ [Next]_vars => [Dead]_vars
  <2> SUFFICES ASSUME TestbedInv, LinksInv, [Next]_vars PROVE Dead
    OBVIOUS
  <2>0. GraphInv  BY DEF TestbedInv
  <2>1. CASE bp' = bp  BY <2>1 DEF Dangling
  <2>2. ASSUME NEW j \in Slots, BuildBlueprint(j) PROVE Dead
    <3> SUFFICES ASSUME NEW k \in Slots, NEW i \in DOMAIN bp[k].links,
                        Dangling(bp[k], bp[k].links[i])
                 PROVE  Dangling(bp[k]', bp[k].links[i])
      OBVIOUS
    <3> DEFINE l == bp[k].links[i]
    <3>1. PICK e \in {l[1], l[2]} : e.id \notin Objects(bp[k])
      BY DEF Dangling, Objects
    <3>2. l \in Range(bp[k].links)  BY DEF Range
    <3>3. IsEnd(bp[k], e.id)  BY <3>1, <3>2 DEF IsEnd
    <3>4. e.id \notin Objects(bp'[k])
      BY <2>0, <2>2, <3>1, <3>3, NewObjects
    <3> QED  BY <3>1, <3>4 DEF Dangling, Objects
  <2>3. \/ bp' = bp
        \/ \E j \in Slots : BuildBlueprint(j)
    <3>1. CASE BuildTopology  BY <2>0, <3>1, TopologyDraws
    <3>2. Build \/ UNCHANGED bp
      BY DEF Next, Chart, Embed, Unembed, EmbedStep, Pack, PackHost,
             FrontOfEmpty, EmbeddingFailed, NotFound, Throw, Commit, EndCall,
             AssignAddresses, vars, graphs
    <3> QED  BY <3>1, <3>2 DEF Build
  <2> QED  BY <2>1, <2>2, <2>3
<1> QED
  BY <1>1, TestbedInductive, LinksInductive, PTL DEF Spec, DeadLinksStayDead

-----------------------------------------------------------------------------
(* What is sent arrives                                                    *)

LEMMA SameNeighbors ==
  ASSUME NEW b, NEW r, r.links = b.links, NEW x
  PROVE  Neighbors(r, x) = Neighbors(b, x)
BY DEF Neighbors

\* The connections of networks and computers, and the address spaces, are the
\* same after a blueprint was written and read.
THEOREM SentArrives == Spec => []RoundTripKeepsConnections
<1>1. LinksInv => RoundTripKeepsConnections
  <2> SUFFICES ASSUME LinksInv, NEW k \in Slots
               PROVE  LET r == BlueprintFromJson(BlueprintJson(bp[k]))
                      IN /\ r.networks = bp[k].networks
                         /\ \A n : ConnectedComputers(r, n) =
                                   ConnectedComputers(bp[k], n)
                         /\ \A c : ConnectedNetworks(r, c) =
                                   ConnectedNetworks(bp[k], c)
    BY DEF RoundTripKeepsConnections
  <2> DEFINE b == bp[k]
             r == BlueprintFromJson(BlueprintJson(b))
  <2>1. /\ r.links = b.links
        /\ DOMAIN r.computers = DOMAIN b.computers
        /\ r.networks = [n \in DOMAIN b.networks |-> b.networks[n]]
    BY SentBlueprint
  <2>2. b.networks = [n \in DOMAIN b.networks |-> b.networks[n]]
    BY DEF LinksInv, LinksOK
  <2> HIDE DEF r, b
  <2>3. r.networks = b.networks  BY <2>1, <2>2
  <2>4. \A x : Neighbors(r, x) = Neighbors(b, x)  BY <2>1, SameNeighbors
  <2>5. \A n : ConnectedComputers(r, n) = ConnectedComputers(b, n)
    BY <2>1, <2>4 DEF ConnectedComputers
  <2>6. \A c : ConnectedNetworks(r, c) = ConnectedNetworks(b, c)
    BY <2>3, <2>4 DEF ConnectedNetworks
  <2> QED  BY <2>3, <2>5, <2>6 DEF r, b
<1> QED  BY <1>1, LinksInductive, PTL

-----------------------------------------------------------------------------
(* What embed() loses                                                      *)

\* Where every host is on one switch, its copy is what will be returned, and
\* each computer is still to be packed or is on a host.
HomeInv ==
  /\ stage = "edit" => outcome = "none"
  /\ LostOnlyMultiHomed
  /\ stage = "pack" /\ ~MultiHomed =>
       /\ \A i \in 1 .. Len(order) : order[i] \in tt.switches
       /\ \A s \in tt.switches : \A h \in ConnectedHosts(tt, s) :
            copies[s][h] = work[h]
       /\ \A c \in Connected(bp[slot]) :
            (\E i \in 1 .. Len(cs) : cs[i] = c) \/ HostsOf(c) # {}

LEMMA AllListed ==
  ASSUME NEW S, IsFiniteSet(S), NEW s \in SetToSeqs(S), NEW x \in S
  PROVE  \E i \in 1 .. Len(s) : s[i] = x
<1> DEFINE n == Cardinality(S)
           D == 1 .. n
<1>1. n \in Nat  BY FS_CardinalityType
<1>2. s \in [D -> S] /\ \A i, j \in D : i # j => s[i] # s[j]
  BY DEF SetToSeqs
<1>3. s \in Injection(D, S)  BY <1>2 DEF Injection, IsInjective
<1>4. Cardinality(D) = n
  <2>1. Cardinality(D) = IF 1 > n THEN 0 ELSE n - 1 + 1
    <3>1. 1 \in Int /\ n \in Int  BY <1>1
    <3> QED  BY <3>1, FS_Interval
  <2> QED  BY <1>1, <2>1
<1>5. s \in Surjection(D, S)  BY <1>3, <1>4, FS_Injection
<1>6. PICK i \in D : s[i] = x  BY <1>5 DEF Surjection
<1>7. Len(s) = n  BY <1>1, <1>2
<1> QED  BY <1>6, <1>7

LEMMA HostsAre ==
  ASSUME GraphInv, NEW s
  PROVE  ConnectedHosts(tt, s) \subseteq HostIds /\ tt.switches \subseteq SwIds
BY DEF ConnectedHosts, FirstOfName, GraphInv, TopologyOK

LEMMA HomeEmbed ==
  ASSUME TestbedInv, HomeInv, NEW k \in Slots, Embed(k)
  PROVE  HomeInv'
<1> DEFINE mine == Connected(bp[k])
<1>1. /\ stage = "idle" /\ stage' = "pack" /\ slot' = k /\ k \notin embedded
      /\ cs' \in SetToSeqs(mine) /\ order' \in SetToSeqs(tt.switches)
      /\ copies' = [s \in SwIds |-> machines] /\ work' = machines
      /\ UNCHANGED <<bp, tt, outcome>>
  BY DEF Embed, graphs
<1>2. MultiHomed' = MultiHomed  BY <1>1 DEF MultiHomed
<1>3. LostOnlyMultiHomed'
  BY <1>1, <1>2 DEF HomeInv, LostOnlyMultiHomed
<1>4. GraphInv /\ IsFiniteSet(SwIds) /\ IsFiniteSet(CompIds)
  BY FiniteIds DEF TestbedInv, SwIds, CompIds
<1>5. tt.switches \subseteq SwIds  BY <1>4, HostsAre
<1>6. \A i \in 1 .. Len(order') : order'[i] \in tt.switches
  BY <1>1, <1>4, <1>5, FS_Subset, SeqsOf
<1>7. \A s \in tt.switches : \A h \in ConnectedHosts(tt, s) :
        copies'[s][h] = work'[h]
  BY <1>1, <1>5
<1>8. \A c \in mine : \E i \in 1 .. Len(cs') : cs'[i] = c
  <2>1. mine \subseteq CompIds  BY <1>1, Strangers
  <2> HIDE DEF mine
  <2>2. IsFiniteSet(mine)  BY <1>4, <2>1, FS_Subset
  <2> QED  BY <1>1, <2>2, AllListed
<1>9. /\ tt' = tt /\ Connected(bp[slot])' = mine
      /\ \A s : ConnectedHosts(tt, s)' = ConnectedHosts(tt, s)
  BY <1>1
<1> HIDE DEF mine
<1> QED  BY <1>1, <1>3, <1>6, <1>7, <1>8, <1>9 DEF HomeInv

LEMMA HomePack ==
  ASSUME TestbedInv, HomeInv, NEW h \in HostIds, NEW m \in 0 .. Len(cs),
         PackHost(h, m)
  PROVE  HomeInv'
<1> DEFINE s == Head(order)
           new == {cs[i] : i \in 1 .. m}
           he == copies[s][h] \cup new
           row == [copies[s] EXCEPT ![h] = he]
<1>1. /\ stage = "pack" /\ order # <<>> /\ Freest(s, h)
      /\ copies' = [copies EXCEPT ![s] = row]
      /\ work' = [work EXCEPT ![h] = he]
      /\ cs' = SubSeq(cs, m + 1, Len(cs))
      /\ order' = IF m = 0 THEN Tail(order) ELSE order
      /\ UNCHANGED <<bp, tt, stage, slot, outcome>>
  BY DEF PackHost, graphs
<1>2. /\ cs \in Seq(CompIds) /\ Len(cs) \in Nat /\ m \in Nat /\ m <= Len(cs)
      /\ order \in Seq(SwIds) /\ s \in SwIds
      /\ copies \in [SwIds -> [HostIds -> SUBSET CompIds]]
      /\ work \in [HostIds -> SUBSET CompIds]
      /\ GraphInv
  BY <1>1 DEF TestbedInv, CallTypes
<1>3. MultiHomed' = MultiHomed  BY <1>1 DEF MultiHomed
<1>4. LostOnlyMultiHomed' /\ (stage = "edit" => outcome = "none")'
  BY <1>1, <1>3 DEF HomeInv, LostOnlyMultiHomed
<1> SUFFICES ASSUME ~MultiHomed
             PROVE  /\ \A i \in 1 .. Len(order') : order'[i] \in tt.switches
                    /\ \A t \in tt.switches : \A g \in ConnectedHosts(tt, t) :
                         copies'[t][g] = work'[g]
                    /\ \A c \in Connected(bp[slot]) :
                         \/ \E i \in 1 .. Len(cs') : cs'[i] = c
                         \/ HostsOf(c)' # {}
  <2>1. /\ tt' = tt /\ Connected(bp[slot])' = Connected(bp[slot])
        /\ \A t : ConnectedHosts(tt, t)' = ConnectedHosts(tt, t)
    BY <1>1
  <2> HIDE DEF s, new, he, row
  <2>2. Connected(bp'[slot']) = Connected(bp[slot])  BY <1>1
  <2> QED  BY <1>3, <1>4, <2>1, <2>2, Zenon DEF HomeInv
<1>5. /\ \A i \in 1 .. Len(order) : order[i] \in tt.switches
      /\ \A t \in tt.switches : \A g \in ConnectedHosts(tt, t) :
           copies[t][g] = work[g]
      /\ \A c \in Connected(bp[slot]) :
           (\E i \in 1 .. Len(cs) : cs[i] = c) \/ HostsOf(c) # {}
  BY <1>1 DEF HomeInv
<1>6. s \in tt.switches /\ h \in ConnectedHosts(tt, s)
  BY <1>1, <1>2, <1>5 DEF Freest
<1>7. he = work[h] \cup new  BY <1>5, <1>6
<1>8. \A i \in 1 .. Len(cs) : i <= m => cs[i] \in new  BY <1>2
<1>9. row[h] = he /\ \A g \in HostIds : g # h => row[g] = copies[s][g]
  BY <1>2
<1> HIDE DEF new, he, row
<1>10. \A i \in 1 .. Len(order') : order'[i] \in tt.switches
  BY <1>1, <1>2, <1>5
<1>11. \A g \in HostIds : work'[g] = IF g = h THEN he ELSE work[g]
  BY <1>1, <1>2
<1>12. \A t \in SwIds : copies'[t] = IF t = s THEN row ELSE copies[t]
  BY <1>1, <1>2
<1>13. ASSUME NEW t \in tt.switches, NEW g \in ConnectedHosts(tt, t)
       PROVE  copies'[t][g] = work'[g]
  <2>1. g \in HostIds /\ t \in SwIds  BY <1>2, HostsAre
  <2>2. g = h => t = s  BY <1>6 DEF MultiHomed
  <2>3. copies[t][g] = work[g]  BY <1>5
  <2> HIDE DEF s
  <2> QED  BY <1>9, <1>11, <1>12, <2>1, <2>2, <2>3
<1>14. ASSUME NEW c \in Connected(bp[slot])
       PROVE  \/ \E i \in 1 .. Len(cs') : cs'[i] = c
              \/ HostsOf(c)' # {}
  <2>1. CASE HostsOf(c) # {}
    <3>1. PICK g \in HostIds : c \in work[g]  BY <2>1 DEF HostsOf
    <3>2. c \in work'[g]  BY <1>7, <1>11, <3>1
    <3> QED  BY <3>2 DEF HostsOf
  <2>2. ASSUME NEW i \in 1 .. Len(cs), cs[i] = c
        PROVE  \/ \E j \in 1 .. Len(cs') : cs'[j] = c
               \/ HostsOf(c)' # {}
    <3>1. CASE i <= m
      <4>1. c \in work'[h]  BY <1>7, <1>8, <1>11, <2>2, <3>1
      <4> QED  BY <4>1 DEF HostsOf
    <3>2. CASE i > m
      <4>1. i - m \in 1 .. Len(cs') /\ cs'[i - m] = cs[i]
        BY <1>1, <1>2, <3>2
      <4> QED  BY <2>2, <4>1
    <3> QED  BY <1>2, <3>1, <3>2
  <2> QED  BY <1>5, <2>1, <2>2
<1> QED  BY <1>10, <1>13, <1>14

LEMMA HomeStep == TestbedInv /\ HomeInv /\ [Next]_vars => HomeInv'
<1> SUFFICES ASSUME TestbedInv, HomeInv, [Next]_vars PROVE HomeInv'
  OBVIOUS
<1>1. ASSUME stage' # "pack", outcome' # "lost",
             stage' = "edit" => outcome' = "none"
      PROVE  HomeInv'
  BY <1>1 DEF HomeInv, LostOnlyMultiHomed
<1>2. ASSUME tt' = tt, stage' # "pack", stage' # "edit", outcome' = outcome
      PROVE  HomeInv'
  BY <1>2 DEF HomeInv, LostOnlyMultiHomed, MultiHomed
<1>3. CASE Build  BY <1>1, <1>3 DEF Build, Edit, HomeInv
<1>4. CASE Chart \/ FrontOfEmpty \/ AssignAddresses
  BY <1>2, <1>4 DEF Chart, FrontOfEmpty, AssignAddresses, graphs
<1>5. CASE EmbeddingFailed \/ Commit
  BY <1>1, <1>5 DEF EmbeddingFailed, Throw, EndCall, Commit
<1>6. CASE NotFound
  <2>1. stage = "pack" /\ cs = <<>> /\ stage' = "idle" /\ tt' = tt
    BY <1>6 DEF NotFound, Throw, EndCall, graphs
  <2>2. PICK c \in Connected(bp[slot]) : HostsOf(c) = {}  BY <1>6 DEF NotFound
  <2>3. ~\E i \in 1 .. Len(cs) : cs[i] = c  BY <2>1
  <2>4. MultiHomed  BY <2>1, <2>2, <2>3 DEF HomeInv
  <2> QED  BY <2>1, <2>4 DEF HomeInv, LostOnlyMultiHomed, MultiHomed
<1>7. CASE Pack
  <2>1. PICK h \in HostIds, m \in 0 .. Len(cs) : PackHost(h, m)
    BY <1>7 DEF Pack
  <2> QED  BY <2>1, HomePack
<1>8. ASSUME NEW k \in Slots, Embed(k) PROVE HomeInv'
  BY <1>8, HomeEmbed
<1>9. ASSUME NEW k \in Slots, Unembed(k) PROVE HomeInv'
  BY <1>1, <1>9 DEF Unembed
<1>10. CASE UNCHANGED vars
  BY <1>10 DEF vars, graphs, call, HomeInv, LostOnlyMultiHomed, MultiHomed,
               HostsOf
<1> QED
  BY <1>3, <1>4, <1>5, <1>6, <1>7, <1>8, <1>9, <1>10 DEF Next, EmbedStep

LEMMA HomeInit == Init => HomeInv
BY DEF Init, HomeInv, LostOnlyMultiHomed

\* Where no host is on two switches embed() places what it packed: it does
\* not throw for a computer that it has lost.
THEOREM SingleHomedLosesNothing == Spec => []LostOnlyMultiHomed
<1>1. HomeInv => LostOnlyMultiHomed  BY DEF HomeInv
<1> QED  BY <1>1, HomeInit, HomeStep, TestbedInductive, PTL DEF Spec

-----------------------------------------------------------------------------
(* Networks: each belongs to one blueprint                                 *)

NetsInv ==
  \A k \in Slots : \A n \in DOMAIN bp[k].networks :
    /\ bp[k].networks[n] \in Nat
    /\ \A j \in Slots \ {k} : n \notin DOMAIN bp[j].networks

LEMMA EditedNets ==
  ASSUME GraphInv, NetsInv, NEW k \in Slots, NEW q, EditBlueprint(k, q),
         \A n \in DOMAIN q.networks :
           /\ q.networks[n] \in Nat
           /\ \/ n \in DOMAIN bp[k].networks
              \/ \A j \in Slots : n \notin DOMAIN bp[j].networks
  PROVE  NetsInv'
<1>1. \A j \in Slots : bp'[j] = IF j = k THEN q ELSE bp[j]
  BY DEF EditBlueprint, GraphInv
<1> QED  BY <1>1 DEF NetsInv

\* No blueprint has a network under an id not drawn yet.
LEMMA FreshIsNoNet ==
  ASSUME GraphInv, LinksInv, NEW name \in Names, Draw(name), NEW j \in Slots
  PROVE  Fresh(name) \notin DOMAIN bp[j].networks
<1> SUFFICES ASSUME Fresh(name) \in DOMAIN bp[j].networks PROVE FALSE
  OBVIOUS
<1>1. /\ Fresh(name)[1] = name /\ Fresh(name)[2] \in Draws
      /\ Fresh(name)[2] > drawn[name]
  BY FreshIds DEF GraphInv
<1>2. Fresh(name)[2] <= drawn[Fresh(name)[1]]
  BY DEF LinksInv, LinksOK
<1>3. drawn[name] \in Nat
  BY NamesAssumption DEF GraphInv, DrawnOK
<1> QED  BY <1>1, <1>2, <1>3 DEF Draws

LEMMA BuildNets ==
  ASSUME GraphInv, LinksInv, NetsInv, NEW k \in Slots, BuildBlueprint(k)
  PROVE  NetsInv'
<1> DEFINE b == bp[k]
<1>0. BlueprintOK(b)  BY DEF GraphInv
<1>1. ASSUME NEW q, EditBlueprint(k, q), DOMAIN q.networks \subseteq DOMAIN b.networks,
             \A n \in DOMAIN q.networks : q.networks[n] \in Nat
      PROVE  NetsInv'
  BY <1>1, EditedNets
<1>2. \A n \in DOMAIN b.networks : b.networks[n] \in Nat
  BY DEF NetsInv
<1>3. ASSUME NEW name \in NetNames, NewNetwork(k, name) PROVE NetsInv'
  <2> DEFINE n == Fresh(name)
             x == [y \in DOMAIN b.networks \cup {n} |->
                     IF y = n THEN Space[n[1]] ELSE b.networks[y]]
             q == [b EXCEPT !.networks = x]
  <2>1. name \in Names /\ Draw(name) /\ EditBlueprint(k, q)
    BY <1>3 DEF NewNetwork, AddNetwork, Names
  <2>2. q.networks = x  BY <1>0 DEF BlueprintOK
  <2>3. n[1] = name  BY DEF Fresh
  <2>4. \A y \in DOMAIN x :
          x[y] \in Nat /\ (y \in DOMAIN b.networks \/ y = n)
    BY <1>2, <2>3, SpaceAssumption
  <2>5. \A j \in Slots : n \notin DOMAIN bp[j].networks
    BY <2>1, FreshIsNoNet
  <2> HIDE DEF x, q, n
  <2> QED  BY <2>1, <2>2, <2>4, <2>5, EditedNets
<1>4. ASSUME NEW q, EditBlueprint(k, q), q.networks = b.networks PROVE NetsInv'
  BY <1>1, <1>2, <1>4
<1>5. ASSUME NEW x, EditBlueprint(k, [b EXCEPT !.computers = x]) PROVE NetsInv'
  BY <1>0, <1>4, <1>5 DEF BlueprintOK
<1>6. ASSUME NEW x, EditBlueprint(k, [b EXCEPT !.links = x]) PROVE NetsInv'
  BY <1>0, <1>4, <1>6 DEF BlueprintOK
<1>7. ASSUME NEW x, EditBlueprint(k, [b EXCEPT !.networks = x]),
             DOMAIN x \subseteq DOMAIN b.networks, \A n \in DOMAIN x : x[n] \in Nat
      PROVE  NetsInv'
  BY <1>0, <1>1, <1>7 DEF BlueprintOK
<1>8. CASE SendBlueprint(k)
  <2> DEFINE q == BlueprintFromJson(BlueprintJson(b))
  <2>1. q.networks = [n \in DOMAIN b.networks |-> b.networks[n]]
    BY SentBlueprint
  <2>2. EditBlueprint(k, q)  BY <1>8 DEF SendBlueprint
  <2> HIDE DEF q
  <2> QED  BY <1>1, <1>2, <2>1, <2>2
<1>9. CASE Clone(k)
  <2> DEFINE x == [n \in DOMAIN b.networks |-> DefaultSpace]
  <2>1. EditBlueprint(k, [b EXCEPT !.networks = x])
    BY <1>9 DEF Clone, CloneBlueprint
  <2>2. DOMAIN x \subseteq DOMAIN b.networks /\ \A n \in DOMAIN x : x[n] \in Nat
    BY SpaceAssumption
  <2> HIDE DEF x
  <2> QED  BY <1>7, <2>1, <2>2
<1>10. ASSUME NEW name, DropNetwork(k, name) PROVE NetsInv'
  BY <1>2, <1>7, <1>10 DEF DropNetwork, RemoveNetwork
<1>11. ASSUME NEW name, NewComputer(k, name) \/ DropComputer(k, name) PROVE NetsInv'
  BY <1>5, <1>11 DEF NewComputer, AddComputer, DropComputer, RemoveComputer
<1>12. CASE LinkComputer(k) \/ LinkNetworks(k)
  BY <1>6, <1>12 DEF LinkComputer, LinkNetworks, Connect, ConnectNets
<1> QED
  BY <1>3, <1>8, <1>9, <1>10, <1>11, <1>12 DEF BuildBlueprint

\* The chart and the calls leave the graphs alone; the topology is another.
LEMMA GraphMoves ==
  ASSUME GraphInv, [Next]_vars
  PROVE  \/ UNCHANGED graphs
         \/ stage = "edit" /\ UNCHANGED <<stage, chart, call, outcome, addr>> /\ bp' = bp
         \/ /\ stage = "edit" /\ UNCHANGED <<stage, chart, call, outcome, addr>>
            /\ \E k \in Slots : BuildBlueprint(k)
<1>1. Build \/ UNCHANGED graphs
  BY DEF Next, Chart, Embed, Unembed, EmbedStep, Pack, PackHost, FrontOfEmpty,
         EmbeddingFailed, NotFound, Throw, Commit, EndCall, AssignAddresses, vars
<1>2. CASE Build
  BY <1>2, TopologyDraws DEF Build, Edit
<1> QED  BY <1>1, <1>2

LEMMA NetsStep == TestbedInv /\ LinksInv /\ NetsInv /\ [Next]_vars => NetsInv'
<1> SUFFICES ASSUME TestbedInv, LinksInv, NetsInv, [Next]_vars PROVE NetsInv'
  OBVIOUS
<1>1. GraphInv  BY DEF TestbedInv
<1>2. CASE bp' = bp  BY <1>2 DEF NetsInv
<1> QED  BY <1>1, <1>2, GraphMoves, BuildNets DEF graphs

LEMMA NetsInit == Init => NetsInv
BY BaseAssumption DEF Init, NetsInv

LEMMA NetsInductive == Spec => []NetsInv
BY NetsInit, NetsStep, LinksInductive, TestbedInductive, PTL DEF Spec

-----------------------------------------------------------------------------
(* Networks whose computers share a switch                                 *)

LEMMA ConnectionsAre ==
  ASSUME NEW b, NEW n
  PROVE  /\ DOMAIN ConnectedComputers(b, n) \subseteq DOMAIN b.links
         /\ \A i \in DOMAIN ConnectedComputers(b, n) :
              ConnectedComputers(b, n)[i].id \in DOMAIN b.computers
<1> DEFINE far == Neighbors(b, n)
<1>1. DOMAIN far \subseteq DOMAIN b.links  BY DEF Neighbors
<1>2. ConnectedComputers(b, n) =
        [i \in {i \in DOMAIN far : far[i].id \in DOMAIN b.computers} |-> far[i]]
  BY Zenon DEF ConnectedComputers, RestrictValues, Restrict
<1> HIDE DEF far
<1> QED  BY <1>1, <1>2

\* The computer has its machine at a host of the switch.
AtSwitch(c, s) ==
  \E h \in HostIds : c \in machines[h] /\ s \in ConnectedSwitches(tt, h)

SharesInv ==
  \A k \in embedded : \A n \in DOMAIN bp[k].networks, s \in tt.switches :
    \A i, j \in DOMAIN ConnectedComputers(bp[k], n) :
      /\ i # j
      /\ AtSwitch(ConnectedComputers(bp[k], n)[i].id, s)
      /\ AtSwitch(ConnectedComputers(bp[k], n)[j].id, s)
      => n \in carried[s]

LEMMA SharesStay ==
  ASSUME SharesInv, UNCHANGED <<bp, tt, chart>>
  PROVE  SharesInv'
<1>1. /\ bp' = bp /\ tt' = tt
      /\ machines' = machines /\ carried' = carried /\ embedded' = embedded
  BY DEF chart
<1>2. \A c, s : AtSwitch(c, s)' <=> AtSwitch(c, s)  BY <1>1 DEF AtSwitch
<1> QED  BY <1>1, <1>2 DEF SharesInv

LEMMA SharesCommit ==
  ASSUME TestbedInv, NetsInv, SharesInv, Commit
  PROVE  SharesInv'
<1>1. /\ bp' = bp /\ tt' = tt /\ slot \in Slots
      /\ embedded' = embedded \cup {slot} /\ embedded \subseteq Slots
      /\ machines' = work
      /\ \A h \in HostIds : work[h] \subseteq machines[h] \cup Connected(bp[slot])
  BY Committed DEF Commit, EndCall, graphs, TestbedInv, CallTypes
<1>2. tt.switches \subseteq SwIds  BY DEF TestbedInv, GraphInv, TopologyOK
<1>3. \A s \in tt.switches :
        carried'[s] = carried[s] \cup Spanned(bp[slot], s)
  BY <1>2 DEF Commit
<1> SUFFICES ASSUME NEW k \in embedded', NEW n \in DOMAIN bp[k].networks,
                    NEW s \in tt.switches,
                    NEW i \in DOMAIN ConnectedComputers(bp[k], n),
                    NEW j \in DOMAIN ConnectedComputers(bp[k], n), i # j,
                    AtSwitch(ConnectedComputers(bp[k], n)[i].id, s)',
                    AtSwitch(ConnectedComputers(bp[k], n)[j].id, s)'
             PROVE  n \in carried'[s]
  BY <1>1, SMTT(30) DEF SharesInv, AtSwitch
<1> DEFINE cxs == ConnectedComputers(bp[k], n)
<1>4. CASE k = slot
  <2>1. \A p \in {i, j} : \E h \in HostsOf(cxs[p].id) : s \in ConnectedSwitches(tt, h)
    BY <1>1 DEF AtSwitch, HostsOf
  <2> HIDE DEF cxs
  <2>2. n \in Spanned(bp[slot], s)  BY <1>4, <2>1 DEF Spanned, cxs
  <2> QED  BY <1>3, <2>2
<1>5. CASE k # slot
  <2>1. k \in embedded /\ k \in Slots  BY <1>1, <1>5
  <2>2. DOMAIN bp[k].computers \cap DOMAIN bp[slot].computers = {}
    BY <1>1, <1>5, <2>1 DEF TestbedInv, GraphInv, Apart
  <2>3. \A p \in {i, j} : AtSwitch(cxs[p].id, s)
    <3> SUFFICES ASSUME NEW p \in {i, j} PROVE AtSwitch(cxs[p].id, s)
      OBVIOUS
    <3>1. cxs[p].id \in DOMAIN bp[k].computers  BY ConnectionsAre
    <3>2. cxs[p].id \notin Connected(bp[slot])  BY <2>2, <3>1, ConnectedAre
    <3>3. PICK h \in HostIds : /\ cxs[p].id \in work[h]
                               /\ s \in ConnectedSwitches(tt, h)
      BY <1>1 DEF AtSwitch
    <3> HIDE DEF cxs
    <3>4. cxs[p].id \in machines[h]  BY <1>1, <3>2, <3>3
    <3> QED  BY <3>3, <3>4 DEF AtSwitch
  <2>4. n \in carried[s]  BY <2>1, <2>3 DEF SharesInv
  <2> QED  BY <1>3, <2>4
<1> QED  BY <1>4, <1>5

LEMMA SharesUnembed ==
  ASSUME TestbedInv, NetsInv, SharesInv, NEW k \in Slots, Unembed(k)
  PROVE  SharesInv'
<1>1. bp' = bp /\ tt' = tt /\ embedded \subseteq Slots
  BY DEF Unembed, graphs, TestbedInv, CallTypes
<1>2. tt.switches \subseteq SwIds  BY DEF TestbedInv, GraphInv, TopologyOK
<1>3. CASE UNCHANGED chart  BY <1>1, <1>3, SharesStay
<1>4. CASE /\ \A h \in HostIds : machines'[h] \subseteq machines[h]
           /\ \A s \in SwIds : carried'[s] = carried[s] \ DOMAIN bp[k].networks
           /\ embedded' = embedded \ {k}
  <2>1. \A c, s : AtSwitch(c, s)' => AtSwitch(c, s)
    BY <1>1, <1>4 DEF AtSwitch
  <2>2. \A j \in embedded' : \A n \in DOMAIN bp[j].networks :
          n \notin DOMAIN bp[k].networks
    BY <1>1, <1>4 DEF NetsInv
  <2>3. \A s \in tt.switches : carried'[s] = carried[s] \ DOMAIN bp[k].networks
    BY <1>2, <1>4
  <2>4. embedded' \subseteq embedded  BY <1>4
  <2> QED  BY <1>1, <2>1, <2>2, <2>3, <2>4 DEF SharesInv
<1> QED  BY <1>3, <1>4 DEF Unembed

LEMMA SharesStep ==
  TestbedInv /\ NetsInv /\ SharesInv /\ [Next]_vars => SharesInv'
<1> SUFFICES ASSUME TestbedInv, NetsInv, SharesInv, [Next]_vars
             PROVE  SharesInv'
  OBVIOUS
<1>1. CASE UNCHANGED <<bp, tt, chart>>  BY <1>1, SharesStay
<1>2. CASE Build
  <2>1. embedded' = {}
    BY <1>2 DEF Build, Edit, chart, TestbedInv, Beginning
  <2> QED  BY <2>1 DEF SharesInv
<1>3. CASE Commit  BY <1>3, SharesCommit
<1>4. ASSUME NEW k \in Slots, Unembed(k) PROVE SharesInv'
  BY <1>4, SharesUnembed
<1> QED
  BY <1>1, <1>2, <1>3, <1>4
     DEF Next, Chart, Embed, EmbedStep, Pack, PackHost, FrontOfEmpty,
         EmbeddingFailed, NotFound, Throw, EndCall, AssignAddresses, vars, graphs

LEMMA SharesInit == Init => SharesInv
BY DEF Init, SharesInv

\* A switch at whose hosts two computers of a network are carries the network
\* as long as their blueprint is embedded, whoever else comes and goes.
THEOREM SwitchesCarry == Spec => []NeighboursShareSwitch
<1>1. SharesInv => NeighboursShareSwitch
  <2> SUFFICES ASSUME SharesInv, NEW k \in embedded,
                      NEW n \in DOMAIN bp[k].networks, NEW s \in tt.switches,
                      NEW at, at = {c \in {e.id : e \in Range(ConnectedComputers(bp[k], n))} :
                                      AtSwitch(c, s)},
                      Cardinality(at) > 1
               PROVE  n \in carried[s]
    BY DEF NeighboursShareSwitch, AtSwitch
  <2> DEFINE cxs == ConnectedComputers(bp[k], n)
  <2>1. at # {}  BY FS_EmptySet
  <2>2. PICK c \in at : TRUE  BY <2>1
  <2>3. at # {c}
    <3>1. Cardinality({c}) = 1  BY FS_Singleton
    <3> QED  BY <3>1
  <2>4. PICK d \in at : d # c  BY <2>2, <2>3
  <2>5. \A x \in at : \E i \in DOMAIN cxs : cxs[i].id = x /\ AtSwitch(x, s)
    BY DEF Range
  <2> HIDE DEF cxs
  <2>6. PICK i \in DOMAIN cxs : cxs[i].id = c /\ AtSwitch(c, s)  BY <2>2, <2>5
  <2>7. PICK j \in DOMAIN cxs : cxs[j].id = d /\ AtSwitch(d, s)  BY <2>4, <2>5
  <2> QED  BY <2>4, <2>6, <2>7 DEF SharesInv, cxs
<1> QED
  BY <1>1, SharesInit, SharesStep, NetsInductive, TestbedInductive, PTL DEF Spec

-----------------------------------------------------------------------------
(* Addresses                                                               *)

LEMMA LeastNat ==
  ASSUME NEW T \in SUBSET Nat, T # {}
  PROVE  \E x \in T : \A y \in T : x <= y
<1> DEFINE R == OpToRel(<, Nat)
<1>1. \A x, y \in Nat : ~(<<y, x>> \in R) => x <= y  BY DEF OpToRel
<1>2. \E x \in T : \A y \in T : ~(<<y, x>> \in R)
  <2>1. IsWellFoundedOn(R, Nat)  BY NatLessThanWellFounded
  <2> HIDE DEF R
  <2> QED  BY <2>1, WFMin
<1> QED  BY <1>1, <1>2

LEMMA GreatestNat ==
  ASSUME NEW T \in SUBSET Nat, T # {}, NEW m \in Nat, \A x \in T : x <= m
  PROVE  \E x \in T : \A y \in T : x >= y
<1> DEFINE D == {m - x : x \in T}
<1>1. D \in SUBSET Nat /\ D # {}
  <2>1. \A x \in T : m - x \in Nat  OBVIOUS
  <2>2. PICK x \in T : TRUE  OBVIOUS
  <2>3. m - x \in D  BY <2>2
  <2>4. \A d \in D : d \in Nat  BY <2>1
  <2> QED  BY <2>3, <2>4
<1>2. PICK d \in D : \A e \in D : d <= e
  <2> HIDE DEF D
  <2> QED  BY <1>1, LeastNat
<1>3. PICK x \in T : d = m - x  BY <1>2
<1>4. \A y \in T : m - x <= m - y  BY <1>2, <1>3
<1> QED  BY <1>4

LEMMA SkipZeroIs ==
  ASSUME NEW a \in Nat
  PROVE  /\ SkipZero(a) \in Nat /\ SkipZero(a) >= a
         /\ SkipZero(a) % Octet # 0
BY OctetAssumption DEF SkipZero

\* One turn of the loop.
NextOf(b, n, p, a) ==
  IF p \in DOMAIN ConnectedComputers(b, n) THEN SkipZero(a) + 1 ELSE a

\* The addresses of the loop up to link m.
IsNext(b, n, m, f) ==
  f = [p \in 0 .. m |-> IF p = 0 THEN b.networks[n] ELSE NextOf(b, n, p, f[p - 1])]

LEMMA NextExists ==
  ASSUME NEW b, NEW n, NEW m \in Nat
  PROVE  \E f : IsNext(b, n, m, f)
<1> DEFINE T == {i \in Nat : ~\E f : IsNext(b, n, i, f)}
<1> SUFFICES ASSUME T # {} PROVE FALSE  OBVIOUS
<1>1. T \in SUBSET Nat  OBVIOUS
<1>2. PICK i \in T : \A j \in T : i <= j
  <2> HIDE DEF T
  <2> QED  BY <1>1, LeastNat
<1>3. CASE i = 0
  <2> DEFINE f == [p \in 0 .. 0 |-> b.networks[n]]
  <2>1. \A p \in 0 .. 0 : p = 0  OBVIOUS
  <2>2. IsNext(b, n, 0, f)  BY <2>1 DEF IsNext
  <2> QED  BY <1>2, <1>3, <2>2
<1>4. CASE i # 0
  <2>1. i \in Nat /\ i - 1 \in Nat /\ i - 1 < i  BY <1>2, <1>4
  <2>2. i - 1 \notin T  BY <1>2, <2>1
  <2>3. PICK g : IsNext(b, n, i - 1, g)  BY <2>1, <2>2
  <2> DEFINE last == NextOf(b, n, i, g[i - 1])
             f == [p \in 0 .. i |-> IF p = i THEN last ELSE g[p]]
  <2>4. ASSUME NEW p \in 0 .. i
        PROVE  f[p] = IF p = 0 THEN b.networks[n] ELSE NextOf(b, n, p, f[p - 1])
    <3>1. CASE p = i
      <4>1. f[p] = last /\ f[p - 1] = g[i - 1]  BY <1>4, <2>1, <3>1
      <4> QED  BY <1>4, <3>1, <4>1
    <3>2. CASE p # i /\ p # 0
      <4>1. p \in 0 .. i - 1 /\ p - 1 \in 0 .. i - 1  BY <2>1, <3>2
      <4>2. f[p] = g[p] /\ f[p - 1] = g[p - 1]  BY <2>1, <3>2, <4>1
      <4>3. g[p] = NextOf(b, n, p, g[p - 1])  BY <2>3, <3>2, <4>1 DEF IsNext
      <4> QED  BY <3>2, <4>2, <4>3
    <3>3. CASE p # i /\ p = 0
      <4>1. f[p] = g[p] /\ p \in 0 .. i - 1  BY <2>1, <3>3
      <4> QED  BY <2>3, <3>3, <4>1 DEF IsNext
    <3> QED  BY <3>1, <3>2, <3>3
  <2>5. f = [p \in 0 .. i |-> f[p]]  OBVIOUS
  <2> HIDE DEF f
  <2>6. IsNext(b, n, i, f)  BY <2>4, <2>5 DEF IsNext
  <2> QED  BY <1>2, <2>6
<1> QED  BY <1>3, <1>4

LEMMA NextIs ==
  ASSUME NEW b, NEW n, Len(b.links) \in Nat
  PROVE  IsNext(b, n, Len(b.links), NextAddress(b, n))
<1>1. NextAddress(b, n) = CHOOSE f : IsNext(b, n, Len(b.links), f)
  BY DEF NextAddress, IsNext, NextOf
<1> QED  BY <1>1, NextExists

\* The loop counts up.
LEMMA NextGrows ==
  ASSUME NEW b, NEW n, NEW m \in Nat, NEW f, IsNext(b, n, m, f),
         b.networks[n] \in Nat
  PROVE  \A q \in 0 .. m : f[q] \in Nat /\ \A p \in 0 .. q : f[p] <= f[q]
<1> DEFINE Good(q) == f[q] \in Nat /\ \A p \in 0 .. q : f[p] <= f[q]
           T == {q \in 0 .. m : ~Good(q)}
<1> SUFFICES ASSUME T # {} PROVE FALSE  OBVIOUS
<1>1. T \in SUBSET Nat  OBVIOUS
<1>2. PICK q \in T : \A r \in T : q <= r
  <2> HIDE DEF T
  <2> QED  BY <1>1, LeastNat
<1>3. q \in 0 .. m /\ ~Good(q)  BY <1>2
<1>4. f[q] = IF q = 0 THEN b.networks[n] ELSE NextOf(b, n, q, f[q - 1])
  BY <1>3 DEF IsNext
<1>5. CASE q = 0
  <2>1. \A p \in 0 .. q : p = q  BY <1>5
  <2> QED  BY <1>3, <1>4, <1>5, <2>1
<1>6. CASE q # 0
  <2>1. q - 1 \in 0 .. m /\ ~(q <= q - 1)  BY <1>3, <1>6
  <2>2. q - 1 \notin T  BY <1>2, <2>1
  <2>3. Good(q - 1)  BY <2>1, <2>2
  <2>4. f[q] \in Nat /\ f[q - 1] <= f[q] /\ f[q - 1] \in Nat
    BY <1>4, <1>6, <2>3, SkipZeroIs DEF NextOf
  <2>5. ASSUME NEW p \in 0 .. q PROVE f[p] <= f[q]
    <3>1. CASE p = q  BY <2>4, <3>1
    <3>2. CASE p # q
      <4>1. p \in 0 .. q - 1  BY <1>3, <3>2
      <4>2. f[p] <= f[q - 1]  BY <2>3, <4>1
      <4>3. \A r \in 0 .. m : r < q => f[r] \in Nat
        <5> SUFFICES ASSUME NEW r \in 0 .. m, r < q PROVE f[r] \in Nat
          OBVIOUS
        <5>1. r \notin T  BY <1>2, <1>3
        <5> QED  BY <5>1
      <4>4. f[p] \in Nat  BY <1>3, <4>1, <4>3
      <4> QED  BY <2>4, <4>2, <4>4
    <3> QED  BY <3>1, <3>2
  <2> QED  BY <1>3, <2>4, <2>5
<1> QED  BY <1>5, <1>6

\* The addresses of a network do not end in zero and are different.
LEMMA AddressesGrow ==
  ASSUME NEW b, NEW n, b.links \in Seq(Range(b.links)), b.networks[n] \in Nat,
         NEW q \in DOMAIN ConnectedComputers(b, n)
  PROVE  /\ AddressAt(b, n)[q] \in Nat /\ AddressAt(b, n)[q] % Octet # 0
         /\ \A p \in DOMAIN ConnectedComputers(b, n) :
              p < q => AddressAt(b, n)[p] < AddressAt(b, n)[q]
<1> DEFINE D == DOMAIN ConnectedComputers(b, n)
           m == Len(b.links)
           f == NextAddress(b, n)
<1>1. m \in Nat /\ D \subseteq 1 .. m  BY ConnectionsAre
<1>2. IsNext(b, n, m, f)  BY <1>1, NextIs
<1> HIDE DEF f, m
<1>3. \A p \in 0 .. m : f[p] \in Nat /\ \A r \in 0 .. p : f[r] <= f[p]
  BY <1>1, <1>2, NextGrows
<1>4. \A p \in D : /\ p - 1 \in 0 .. m /\ p \in 0 .. m
                   /\ AddressAt(b, n)[p] = SkipZero(f[p - 1])
                   /\ f[p] = SkipZero(f[p - 1]) + 1
  <2> SUFFICES ASSUME NEW p \in D
               PROVE  /\ p - 1 \in 0 .. m /\ p \in 0 .. m
                      /\ AddressAt(b, n)[p] = SkipZero(f[p - 1])
                      /\ f[p] = SkipZero(f[p - 1]) + 1
    OBVIOUS
  <2>1. p - 1 \in 0 .. m /\ p \in 0 .. m /\ p # 0  BY <1>1
  <2>2. f[p] = NextOf(b, n, p, f[p - 1])  BY <1>2, <2>1 DEF IsNext
  <2>3. f[p] = SkipZero(f[p - 1]) + 1  BY <2>2 DEF NextOf
  <2>4. AddressAt(b, n)[p] = SkipZero(f[p - 1])  BY DEF AddressAt, f
  <2> QED  BY <2>1, <2>3, <2>4
<1>5. q \in D  OBVIOUS
<1> HIDE DEF D
<1>6. \A p \in D : /\ AddressAt(b, n)[p] \in Nat
                   /\ AddressAt(b, n)[p] % Octet # 0
                   /\ AddressAt(b, n)[p] >= f[p - 1]
  BY <1>3, <1>4, SkipZeroIs
<1>7. ASSUME NEW p \in D, p < q PROVE AddressAt(b, n)[p] < AddressAt(b, n)[q]
  <2>1. p \in 0 .. q - 1 /\ q - 1 \in 0 .. m  BY <1>1, <1>4, <1>5, <1>7
  <2>2. f[p] <= f[q - 1] /\ f[p] \in Nat /\ f[q - 1] \in Nat
    BY <1>3, <1>4, <1>7, <2>1
  <2>3. f[p] = AddressAt(b, n)[p] + 1 /\ AddressAt(b, n)[q] >= f[q - 1]
    BY <1>4, <1>5, <1>6
  <2>4. AddressAt(b, n)[p] \in Nat /\ AddressAt(b, n)[q] \in Nat
    BY <1>5, <1>6
  <2> QED  BY <2>2, <2>3, <2>4
<1> QED  BY <1>5, <1>6, <1>7 DEF D

\* The interface has the address of a connection of its, the last one.
LEMMA AddressOf ==
  ASSUME NEW b, b.links \in Seq(Range(b.links)), IsFiniteSet(DOMAIN b.networks),
         NEW ns \in SetToSeqs(DOMAIN b.networks),
         NEW n \in DOMAIN b.networks, NEW mac \in Macs(b, n)
  PROVE  \E m \in DOMAIN b.networks : \E p \in DOMAIN ConnectedComputers(b, m) :
           /\ ConnectedComputers(b, m)[p].mac = mac
           /\ Addresses(b, ns)[mac] = AddressAt(b, m)[p]
<1> DEFINE Final(j) == /\ mac \in Macs(b, ns[j])
                      /\ \A i \in j + 1 .. Len(ns) : mac \notin Macs(b, ns[i])
           J == {j \in 1 .. Len(ns) : mac \in Macs(b, ns[j])}
           last == CHOOSE j \in DOMAIN ns : Final(j)
           m == ns[last]
           At == {p \in DOMAIN ConnectedComputers(b, m) :
                    ConnectedComputers(b, m)[p].mac = mac}
<1>1. /\ Len(ns) \in Nat /\ DOMAIN ns = 1 .. Len(ns)
      /\ \A j \in DOMAIN ns : ns[j] \in DOMAIN b.networks
  BY SeqsOf
<1>2. \E j \in DOMAIN ns : Final(j)
  <2>1. PICK j \in 1 .. Len(ns) : ns[j] = n  BY AllListed
  <2>2. J \in SUBSET Nat /\ j \in J /\ \A i \in J : i <= Len(ns)
    BY <1>1, <2>1
  <2> HIDE DEF J
  <2>3. PICK k \in J : \A i \in J : k >= i  BY <1>1, <2>2, GreatestNat
  <2>4. k \in 1 .. Len(ns) /\ mac \in Macs(b, ns[k])  BY <2>3 DEF J
  <2>5. ASSUME NEW i \in k + 1 .. Len(ns) PROVE mac \notin Macs(b, ns[i])
    <3>1. i \in 1 .. Len(ns) /\ ~(k >= i)  BY <1>1, <2>4
    <3>2. i \notin J  BY <2>3, <3>1
    <3> QED  BY <3>1, <3>2 DEF J
  <2> QED  BY <1>1, <2>4, <2>5
<1>3. last \in DOMAIN ns /\ Final(last)  BY <1>2
<1>4. m \in DOMAIN b.networks /\ mac \in Macs(b, m)  BY <1>1, <1>3
<1> HIDE DEF Final, last, m
<1>5. Max(At) \in At
  <2>1. PICK p \in DOMAIN ConnectedComputers(b, m) :
          ConnectedComputers(b, m)[p].mac = mac
    BY <1>4 DEF Macs, Range
  <2>2. /\ DOMAIN ConnectedComputers(b, m) \subseteq 1 .. Len(b.links)
        /\ Len(b.links) \in Nat
    BY ConnectionsAre
  <2>3. At \in SUBSET Nat /\ p \in At /\ \A i \in At : i <= Len(b.links)
    BY <2>1, <2>2
  <2> HIDE DEF At
  <2>4. \E x \in At : \A y \in At : x >= y  BY <2>2, <2>3, GreatestNat
  <2> QED  BY <2>4 DEF Max
<1>6. Addresses(b, ns)[mac] = AddressAt(b, m)[Max(At)]
  <2>1. mac \in UNION {Macs(b, x) : x \in DOMAIN b.networks}  OBVIOUS
  <2> QED  BY <2>1 DEF Addresses, m, last, Final
<1> QED  BY <1>4, <1>5, <1>6

AddrInv ==
  /\ DOMAIN addr = Slots
  /\ \A k \in Slots :
       \/ addr[k] = <<>>
       \/ /\ stage # "edit"
          /\ \E ns \in SetToSeqs(DOMAIN bp[k].networks) :
               addr[k] = Addresses(bp[k], ns)

LEMMA AddrStep == TestbedInv /\ AddrInv /\ [Next]_vars => AddrInv'
<1> SUFFICES ASSUME TestbedInv, AddrInv, [Next]_vars PROVE AddrInv'
  OBVIOUS
<1>1. ASSUME UNCHANGED <<bp, addr>>, stage' = "edit" => stage = "edit"
      PROVE  AddrInv'
  BY <1>1 DEF AddrInv
<1>2. CASE Build  BY <1>2 DEF Build, Edit, AddrInv
<1>3. CASE AssignAddresses
  <2>1. PICK ns \in SetToSeqs(DOMAIN bp[slot].networks) :
          addr' = [addr EXCEPT ![slot] = Addresses(bp[slot], ns)]
    BY <1>3 DEF AssignAddresses
  <2>2. bp' = bp /\ stage = "address" /\ stage' = "idle"
    BY <1>3 DEF AssignAddresses, graphs
  <2> DEFINE a == Addresses(bp[slot], ns)
  <2>3. DOMAIN addr' = Slots
    BY <2>1 DEF AddrInv
  <2>4. \A k \in Slots : addr'[k] = IF k = slot THEN a ELSE addr[k]
    BY <2>1 DEF AddrInv
  <2> HIDE DEF a
  <2>5. ASSUME NEW k \in Slots, k # slot
        PROVE  \/ addr'[k] = <<>>
               \/ \E s \in SetToSeqs(DOMAIN bp[k].networks) :
                    addr'[k] = Addresses(bp[k], s)
    BY <2>4, <2>5 DEF AddrInv
  <2> QED  BY <2>2, <2>3, <2>4, <2>5 DEF AddrInv, a
<1>4. AssignAddresses \/ Build \/ UNCHANGED <<bp, addr>>
  BY DEF Next, Chart, Embed, Unembed, EmbedStep, Pack, PackHost, FrontOfEmpty,
         EmbeddingFailed, NotFound, Throw, Commit, EndCall, vars, graphs
<1>5. stage' = "edit" => stage = "edit"
  BY DEF Next, Build, Edit, Chart, Embed, Unembed, EmbedStep, Pack, PackHost,
         FrontOfEmpty, EmbeddingFailed, NotFound, Throw, Commit, EndCall,
         AssignAddresses, vars
<1> QED  BY <1>1, <1>2, <1>3, <1>4, <1>5

LEMMA AddrInit == Init => AddrInv
BY DEF Init, AddrInv

\* Whatever order the networks are numbered in, no interface gets an address
\* that ends in zero, and of those that are on one network only no two of a
\* network get the same.
THEOREM AddressesServe == Spec => []AddressesUsable
<1>1. TestbedInv /\ LinksInv /\ NetsInv /\ AddrInv => AddressesUsable
  <2> SUFFICES ASSUME TestbedInv, LinksInv, NetsInv, AddrInv,
                      NEW k \in Slots, NEW n \in DOMAIN bp[k].networks,
                      NEW x \in Macs(bp[k], n) \cap DOMAIN addr[k],
                      NEW y \in Macs(bp[k], n) \cap DOMAIN addr[k]
               PROVE  /\ addr[k][x] % Octet # 0
                      /\ /\ x # y
                         /\ Exclusively(bp[k], n, x)
                         /\ Exclusively(bp[k], n, y)
                         => addr[k][x] # addr[k][y]
    BY DEF AddressesUsable
  <2> DEFINE b == bp[k]
  <2>1. PICK ns \in SetToSeqs(DOMAIN b.networks) : addr[k] = Addresses(b, ns)
    <3>1. addr[k] # <<>>  OBVIOUS
    <3> QED  BY <3>1 DEF AddrInv
  <2>2. /\ b.links \in Seq(Range(b.links))
        /\ \A m \in DOMAIN b.networks : b.networks[m] \in Nat
    BY DEF LinksInv, LinksOK, NetsInv
  <2>3. IsFiniteSet(DOMAIN b.networks)
    <3>1. DOMAIN b.networks \subseteq NetIds
      BY DEF TestbedInv, GraphInv, BlueprintOK
    <3> QED  BY <3>1, FiniteIds, FS_Subset DEF NetIds
  <2> HIDE DEF b
  <2>4. x \in Macs(b, n) /\ y \in Macs(b, n) /\ n \in DOMAIN b.networks  BY DEF b
  <2>5. PICK m \in DOMAIN b.networks : \E p \in DOMAIN ConnectedComputers(b, m) :
          /\ ConnectedComputers(b, m)[p].mac = x
          /\ addr[k][x] = AddressAt(b, m)[p]
    BY <2>1, <2>2, <2>3, <2>4, AddressOf
  <2>6. PICK p \in DOMAIN ConnectedComputers(b, m) :
          /\ ConnectedComputers(b, m)[p].mac = x
          /\ addr[k][x] = AddressAt(b, m)[p]
    BY <2>5
  <2>7. PICK l \in DOMAIN b.networks : \E q \in DOMAIN ConnectedComputers(b, l) :
          /\ ConnectedComputers(b, l)[q].mac = y
          /\ addr[k][y] = AddressAt(b, l)[q]
    BY <2>1, <2>2, <2>3, <2>4, AddressOf
  <2>8. PICK q \in DOMAIN ConnectedComputers(b, l) :
          /\ ConnectedComputers(b, l)[q].mac = y
          /\ addr[k][y] = AddressAt(b, l)[q]
    BY <2>7
  <2>9. addr[k][x] % Octet # 0  BY <2>2, <2>6, AddressesGrow
  <2>10. ASSUME x # y, Exclusively(b, n, x), Exclusively(b, n, y)
         PROVE  addr[k][x] # addr[k][y]
    <3>1. x \in Macs(b, m) /\ y \in Macs(b, l)
      BY <2>6, <2>8 DEF Macs, Range
    <3>2. m = n /\ l = n  BY <2>10, <3>1 DEF Exclusively
    <3>3. p # q  BY <2>6, <2>8, <2>10, <3>2
    <3>4. p \in Nat /\ q \in Nat
      <4>1. DOMAIN b.links \subseteq Nat  BY <2>2
      <4> QED  BY <4>1, ConnectionsAre
    <3>5. p < q \/ q < p  BY <3>3, <3>4
    <3>6. /\ AddressAt(b, n)[p] \in Nat /\ AddressAt(b, n)[q] \in Nat
          /\ p < q => AddressAt(b, n)[p] < AddressAt(b, n)[q]
          /\ q < p => AddressAt(b, n)[q] < AddressAt(b, n)[p]
      BY <2>2, <3>2, AddressesGrow
    <3> QED  BY <2>6, <2>8, <3>2, <3>5, <3>6
  <2> QED  BY <2>9, <2>10 DEF b
<1> QED
  BY <1>1, AddrInit, AddrStep, NetsInductive, LinksInductive, TestbedInductive, PTL
     DEF Spec

-----------------------------------------------------------------------------
(* How long embed() may take                                               *)

\* Every iteration of the packing loop packs a computer or gives up a switch,
\* so that a call has no more of them than there are computers and switches.
THEOREM PackingProgresses ==
  Spec => [][Pack => Len(cs') + Len(order') < Len(cs) + Len(order)]_vars
<1>1. TestbedInv /\ Pack => Len(cs') + Len(order') < Len(cs) + Len(order)
  <2> SUFFICES ASSUME TestbedInv, NEW h \in HostIds, NEW m \in 0 .. Len(cs),
                      PackHost(h, m)
               PROVE  Len(cs') + Len(order') < Len(cs) + Len(order)
    BY DEF Pack
  <2>1. cs \in Seq(CompIds) /\ order \in Seq(SwIds)  BY DEF TestbedInv, CallTypes
  <2>2. /\ order # <<>> /\ cs' = SubSeq(cs, m + 1, Len(cs))
        /\ order' = IF m = 0 THEN Tail(order) ELSE order
    BY DEF PackHost
  <2>3. Len(cs') = Len(cs) - m  BY <2>1, <2>2
  <2>4. CASE m = 0
    <3>1. Len(order') = Len(order) - 1  BY <2>1, <2>2, <2>4
    <3> QED  BY <2>1, <2>3, <2>4, <3>1
  <2>5. CASE m # 0  BY <2>1, <2>2, <2>3, <2>5
  <2> QED  BY <2>4, <2>5
<1> QED  BY <1>1, TestbedInductive, PTL

\* An iteration is never without a host to pack, and a host takes as many as
\* fit and no more, or none.
CanGoOn ==
  \/ cs = <<>>                               \* NotFound or Commit
  \/ order = <<>>                            \* EmbeddingFailed
  \/ ConnectedHosts(tt, Head(order)) = {}    \* FrontOfEmpty
  \/ \E h \in HostIds, m \in 0 .. Len(cs) : Freest(Head(order), h) /\ Takes(h, m)

\* Of some subsets of a finite set, one has none of the others within it.
LEMMA LeastSet ==
  ASSUME NEW U, IsFiniteSet(U), NEW D \in SUBSET SUBSET U, D # {}
  PROVE  \E s \in D : \A t \in D : t \subseteq s => t = s
<1> DEFINE R == StrictSubsetOrdering(U)
<1>1. IsWellFoundedOn(R, SUBSET U)
  BY FS_StrictSubsetOrderingWellFounded, FS_FiniteSubsetsOfFinite
<1>2. \A s, t \in SUBSET U : t \subseteq s /\ t # s => <<t, s>> \in R
  BY DEF StrictSubsetOrdering
<1> HIDE DEF R
<1>3. \E s \in D : \A t \in D : ~(<<t, s>> \in R)  BY <1>1, WFMin
<1> QED  BY <1>2, <1>3

\* Of a switch's hosts, one is the freest: by the least set of hosts without one.
LEMMA FreestIs ==
  ASSUME TestbedInv, NEW s \in SwIds, ConnectedHosts(tt, s) # {}
  PROVE  \E h \in HostIds : Freest(s, h)
<1> DEFINE H == ConnectedHosts(tt, s)
           free(h) == Free(h, copies[s][h])
<1>1. H \subseteq HostIds /\ IsFiniteSet(H)
  <2>1. H \subseteq HostIds  BY HostsAre DEF TestbedInv
  <2> QED  BY <2>1, FiniteIds, FS_Subset DEF HostIds
<1>2. \A h \in H : free(h) \in Int
  BY <1>1, FreeAssumption DEF TestbedInv, CallTypes
<1> DEFINE Best(S) == \E h \in S : \A g \in S : free(h) >= free(g)
           D == {S \in SUBSET H : S # {} /\ ~Best(S)}
<1> SUFFICES ASSUME D # {} PROVE FALSE
  <2>1. H \in SUBSET H /\ H # {}  OBVIOUS
  <2>2. Best(H)  BY <2>1
  <2> QED  BY <1>1, <2>2 DEF Freest
<1> HIDE DEF H, free
<1>3. PICK S \in D : \A T \in D : T \subseteq S => T = S
  <2>1. D \in SUBSET SUBSET H  OBVIOUS
  <2> HIDE DEF D
  <2> QED  BY <1>1, <2>1, LeastSet
<1>4. S \in SUBSET H /\ S # {} /\ ~Best(S)  BY <1>3
<1>5. PICK h \in S : TRUE  BY <1>4
<1>6. CASE S = {h}
  BY <1>2, <1>4, <1>5, <1>6
<1>7. CASE S # {h}
  <2>1. S \ {h} \in SUBSET H /\ S \ {h} # {} /\ S \ {h} # S /\ S \ {h} \subseteq S
    BY <1>4, <1>5, <1>7
  <2>2. Best(S \ {h})  BY <1>3, <2>1
  <2>3. PICK g \in S \ {h} : \A f \in S \ {h} : free(g) >= free(f)  BY <2>2
  <2>4. free(h) \in Int /\ \A f \in S : free(f) \in Int  BY <1>2, <1>4, <1>5
  <2>5. CASE free(g) >= free(h)
    <3>1. \A f \in S : free(g) >= free(f)  BY <2>3, <2>5
    <3> QED  BY <1>4, <2>3, <3>1
  <2>6. CASE ~(free(g) >= free(h))
    <3>1. \A f \in S : free(h) >= free(f)
      <4> SUFFICES ASSUME NEW f \in S PROVE free(h) >= free(f)
        OBVIOUS
      <4>1. CASE f = h  BY <2>4, <4>1
      <4>2. CASE f # h
        <5>1. free(g) >= free(f)  BY <2>3, <4>2
        <5> QED  BY <2>3, <2>4, <2>6, <5>1
      <4> QED  BY <4>1, <4>2
    <3> QED  BY <1>4, <1>5, <3>1
  <2> QED  BY <2>5, <2>6
<1> QED  BY <1>6, <1>7

\* Of the computers left, a host takes those before the first that overloads it.
LEMMA TakesIs ==
  ASSUME TestbedInv, NEW h \in HostIds
  PROVE  \E m \in 0 .. Len(cs) : Takes(h, m)
<1> DEFINE with(n) == copies[Head(order)][h] \cup {cs[i] : i \in 1 .. n}
           T == {n \in 1 .. Len(cs) : Overloaded(h, with(n))}
<1>1. Len(cs) \in Nat  BY DEF TestbedInv, CallTypes
<1>2. \A m \in 0 .. Len(cs) :
        Takes(h, m) <=> /\ \A n \in 1 .. m : ~Overloaded(h, with(n))
                        /\ m < Len(cs) => Overloaded(h, with(m + 1))
  BY DEF Takes
<1> HIDE DEF with
<1>3. CASE T = {}
  <2>1. Len(cs) \in 0 .. Len(cs) /\ ~(Len(cs) < Len(cs))  BY <1>1
  <2>2. \A n \in 1 .. Len(cs) : ~Overloaded(h, with(n))  BY <1>3
  <2> QED  BY <1>2, <2>1, <2>2
<1>4. CASE T # {}
  <2>1. PICK n \in T : \A i \in T : n <= i
    <3>1. T \in SUBSET Nat  OBVIOUS
    <3> HIDE DEF T
    <3> QED  BY <1>4, <3>1, LeastNat
  <2>2. n \in 1 .. Len(cs) /\ Overloaded(h, with(n))  BY <2>1
  <2>3. n - 1 \in 0 .. Len(cs) /\ n - 1 + 1 = n  BY <1>1, <2>2
  <2>4. \A i \in 1 .. n - 1 : ~Overloaded(h, with(i))
    <3> SUFFICES ASSUME NEW i \in 1 .. n - 1 PROVE ~Overloaded(h, with(i))
      OBVIOUS
    <3>1. i \in 1 .. Len(cs) /\ ~(n <= i)  BY <1>1, <2>2
    <3>2. i \notin T  BY <2>1, <3>1
    <3> QED  BY <3>1, <3>2
  <2> QED  BY <1>2, <2>2, <2>3, <2>4
<1> QED  BY <1>3, <1>4

\* A call that is packing has a step that it can take.  With PackingProgresses
\* it ends if it is given time, which is what EmbedEnds says.
THEOREM PackingGoesOn == Spec => [](stage = "pack" => CanGoOn)
<1>1. TestbedInv => (stage = "pack" => CanGoOn)
  <2> SUFFICES ASSUME TestbedInv, order # <<>>, ConnectedHosts(tt, Head(order)) # {}
               PROVE  \E h \in HostIds, m \in 0 .. Len(cs) :
                        Freest(Head(order), h) /\ Takes(h, m)
    BY DEF CanGoOn
  <2>1. Head(order) \in SwIds  BY DEF TestbedInv, CallTypes
  <2>2. PICK h \in HostIds : Freest(Head(order), h)  BY <2>1, FreestIs
  <2> QED  BY <2>2, TakesIs
<1> QED  BY <1>1, TestbedInductive, PTL

============================================================================
