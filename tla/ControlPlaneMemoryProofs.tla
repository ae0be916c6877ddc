---------------------- MODULE ControlPlaneMemoryProofs ----------------------
(***************************************************************************)
(* The theorems about the numbers the materialization service remembers,  *)
(* and about the two tables its handlers change one after the other.       *)
(***************************************************************************)
EXTENDS ControlPlaneVniProofs

USE DocsAssumption, NoneAssumption, DbBoundsAssumption, MzAssumption,
    BoundsAssumption

\* A number is remembered under the document whose network it belongs to.
MemOwned ==
  \A i \in DocIds, net \in Nets :
    memVni[i][net] # 0 => \E d \in Docs : d.id = i /\ net \in d.nets

\* The number a construct has in hand is that of the row, if there is a row.
HandMatches ==
  \A t \in MzThreads :
    mzThr[t].pc = "c_mem" => vxlan[mzThr[t].net] \in {0, mzThr[t].vni}

RememberedMatches ==
  \A i \in DocIds, net \in Nets :
    /\ vxlan[net] # 0
    /\ memVni[i][net] # 0
    /\ \A t \in MzThreads : ~ Recording(t, i, net)
    => memVni[i][net] = vxlan[net]

Remembering == faults = 0 => HandMatches /\ RememberedMatches

\* The network a construct has in hand is one of its document's.
LEMMA HandOwned ==
  ASSUME MzThreadsOK, NEW t \in MzThreads, mzThr[t].pc = "c_mem"
  PROVE  /\ mzThr[t].doc \in Docs /\ mzThr[t].doc.id \in DocIds
         /\ mzThr[t].net \in Nets /\ mzThr[t].net \in mzThr[t].doc.nets
BY MzFields DEF HasDoc, MzHolds

LEMMA MemOwnedStep ==
  ASSUME Typed, MemOwned, VniStep
  PROVE  MemOwned'
<1>0. MzThreadsOK /\ MemoryOK
  BY DEF Typed, TypeOK, Handlers, MzTypeOK, MzThreadsOK, MemoryOK
<1>1. ASSUME NEW t \in MzThreads, ConstructMem(t) PROVE MemOwned'
  <2>1. /\ mzThr[t].doc \in Docs /\ mzThr[t].net \in mzThr[t].doc.nets
        /\ \A j \in DocIds, m \in Nets :
             j # mzThr[t].doc.id \/ m # mzThr[t].net => memVni'[j][m] = memVni[j][m]
    BY <1>0, <1>1, ConstructMemCases
  <2> QED
    BY <2>1 DEF MemOwned
<1>2. CASE MzReset
  BY <1>2, ResetFacts DEF MemOwned
<1>3. CASE UNCHANGED memVni
  BY <1>3 DEF MemOwned
<1> QED
  BY <1>0, <1>1, <1>2, <1>3, ConstructVniCases DEF VniStep

\* Two constructs never hold numbers of one network: they would own the mutex
\* of one document.
LEMMA OneHandPerNet ==
  ASSUME MzThreadsOK, MutexHeld, NEW t \in MzThreads, NEW u \in MzThreads,
         mzThr[t].pc \in {"c_vni", "c_mem"}, mzThr[u].pc = "c_mem",
         mzThr[t].doc \in Docs, mzThr[u].net \in mzThr[t].doc.nets
  PROVE  t = u
<1>1. mzThr[u].doc \in Docs /\ mzThr[u].net \in mzThr[u].doc.nets
  BY HandOwned
<1>2. mzThr[t].doc.id = mzThr[u].doc.id
  BY <1>1
<1> QED
  BY <1>2 DEF MutexHeld, Constructing

LEMMA RememberedAfterInsert ==
  ASSUME Typed, MutexHeld, MemOwned, HandMatches, RememberedMatches,
         NEW t \in MzThreads, NEW net \in Nets, InsertVxlan(net),
         mzThr[t].pc = "c_vni", net \in mzThr[t].doc.nets, mzThr[t].doc \in Docs,
         UNCHANGED memVni, \A u \in MzThreads \ {t} : mzThr'[u] = mzThr[u],
         mzThr'[t].pc = "c_mem", mzThr'[t].net = net, mzThr'[t].vni = vniSeq,
         mzThr'[t].doc = mzThr[t].doc
  PROVE  HandMatches' /\ RememberedMatches'
<1>0. MzThreadsOK /\ vxlan \in [Nets -> Nat]
  BY DEF Typed, TypeOK, Handlers, MzTypeOK, MzThreadsOK, DbTypeOK
<1>1. /\ vxlan'[net] = vniSeq
      /\ \A m \in Nets \ {net} : vxlan'[m] = vxlan[m]
  BY <1>0 DEF InsertVxlan
<1>2. ASSUME NEW u \in MzThreads, mzThr'[u].pc = "c_mem"
      PROVE  vxlan'[mzThr'[u].net] \in {0, mzThr'[u].vni}
  <2>1. CASE u = t
    BY <1>1, <2>1
  <2>2. CASE u # t
    <3>1. mzThr'[u] = mzThr[u] /\ mzThr[u].pc = "c_mem"
      BY <1>2, <2>2
    <3>2. mzThr[u].net \in Nets
      BY <1>0, <3>1, HandOwned
    <3>3. mzThr[u].net # net
      BY <1>0, <2>2, <3>1, OneHandPerNet
    <3> QED
      BY <1>1, <3>1, <3>2, <3>3 DEF HandMatches
  <2> QED
    BY <2>1, <2>2
<1>3. ASSUME NEW i \in DocIds, NEW m \in Nets, vxlan'[m] # 0, memVni'[i][m] # 0,
             \A u \in MzThreads : ~ Recording(u, i, m)'
      PROVE  memVni'[i][m] = vxlan'[m]
  <2>1. CASE m = net
    <3>1. PICK d \in Docs : d.id = i /\ net \in d.nets
      BY <1>3, <2>1 DEF MemOwned
    <3>2. mzThr[t].doc.id = i
      BY <3>1
    <3> QED
      BY <1>3, <2>1, <3>2 DEF Recording
  <2>2. CASE m # net
    <3>1. \A u \in MzThreads : ~ Recording(u, i, m)
      BY <1>3 DEF Recording
    <3> QED
      BY <1>1, <1>3, <2>2, <3>1 DEF RememberedMatches
  <2> QED
    BY <2>1, <2>2
<1> QED
  BY <1>2, <1>3 DEF HandMatches, RememberedMatches

LEMMA RememberedAfterMem ==
  ASSUME Typed, HandMatches, RememberedMatches,
         NEW t \in MzThreads, ConstructMem(t)
  PROVE  HandMatches' /\ RememberedMatches'
<1>0. MzThreadsOK /\ MemoryOK
  BY DEF Typed, TypeOK, Handlers, MzTypeOK, MzThreadsOK, MemoryOK
<1> DEFINE i == mzThr[t].doc.id
           net == mzThr[t].net
<1>1. /\ mzThr[t].pc = "c_mem" /\ i \in DocIds /\ net \in Nets
      /\ vxlan' = vxlan
      /\ \A u \in MzThreads \ {t} : mzThr'[u] = mzThr[u]
      /\ mzThr'[t].pc = "c_vni"
      /\ memVni'[i][net] = mzThr[t].vni
      /\ \A j \in DocIds, m \in Nets :
           j # i \/ m # net => memVni'[j][m] = memVni[j][m]
  BY <1>0, ConstructMemCases DEF SameNumbers
<1>2. HandMatches'
  BY <1>1 DEF HandMatches
<1>3. ASSUME NEW j \in DocIds, NEW m \in Nets, vxlan'[m] # 0, memVni'[j][m] # 0,
             \A u \in MzThreads : ~ Recording(u, j, m)'
      PROVE  memVni'[j][m] = vxlan'[m]
  <2>1. CASE j = i /\ m = net
    BY <1>1, <1>3, <2>1 DEF HandMatches
  <2>2. CASE j # i \/ m # net
    <3>1. \A u \in MzThreads : ~ Recording(u, j, m)
      BY <1>1, <1>3, <2>2 DEF Recording
    <3> QED
      BY <1>1, <1>3, <2>2, <3>1 DEF RememberedMatches
  <2> QED
    BY <2>1, <2>2
<1> QED
  BY <1>2, <1>3 DEF RememberedMatches

LEMMA RememberedStep ==
  ASSUME Typed, MutexHeld, MemOwned, Remembering, VniStep, Counted
  PROVE  Remembering'
<1> SUFFICES ASSUME faults' = 0 PROVE HandMatches' /\ RememberedMatches'
  BY DEF Remembering
<1>0. MzThreadsOK /\ MemoryOK /\ vxlan \in [Nets -> Nat] /\ faults \in Nat
  BY DEF Typed, TypeOK, Handlers, MzTypeOK, MzThreadsOK, MemoryOK, DbTypeOK
<1>1. faults = 0 /\ HandMatches /\ RememberedMatches
  BY <1>0 DEF Counted, Remembering
<1>2. CASE SameHands /\ UNCHANGED memVni /\ (SameNumbers \/ \E net \in Nets : FreeVxlanVni(net))
  <2>1. \A m \in Nets : vxlan'[m] \in {0, vxlan[m]}
    BY <1>0, <1>2 DEF SameNumbers, FreeVxlanVni
  <2>2. HandMatches'
    <3>1. ASSUME NEW t \in MzThreads, mzThr'[t].pc = "c_mem"
          PROVE  vxlan'[mzThr'[t].net] \in {0, mzThr'[t].vni}
      <4>1. mzThr'[t] = mzThr[t] /\ mzThr[t].pc = "c_mem"
        BY <1>2, <3>1 DEF SameHands
      <4>2. mzThr[t].net \in Nets
        BY <1>0, <4>1, HandOwned
      <4> QED
        BY <1>1, <2>1, <4>1, <4>2 DEF HandMatches
    <3> QED
      BY <3>1 DEF HandMatches
  <2>3. \A t \in MzThreads, i \in DocIds, m \in Nets :
          Recording(t, i, m)' <=> Recording(t, i, m)
    BY <1>2 DEF SameHands, Recording
  <2>4. RememberedMatches'
    BY <1>1, <1>2, <2>1, <2>3 DEF RememberedMatches
  <2> QED
    BY <2>2, <2>4
<1>3. CASE MzReset
  BY <1>3, ResetFacts DEF HandMatches, RememberedMatches
<1>4. ASSUME NEW t \in MzThreads, ConstructMem(t)
      PROVE  HandMatches' /\ RememberedMatches'
  BY <1>1, <1>4, RememberedAfterMem
<1>5. ASSUME NEW t \in MzThreads, ConstructVni(t)
      PROVE  HandMatches' /\ RememberedMatches'
  <2>1. /\ mzThr[t].pc = "c_vni" /\ UNCHANGED memVni
        /\ \A u \in MzThreads \ {t} : mzThr'[u] = mzThr[u]
    BY <1>0, <1>5, ConstructVniCases
  <2>2. mzThr[t].doc \in Docs /\ mzThr[t].todo \subseteq mzThr[t].doc.nets
    BY <1>0, <2>1, MzFields DEF HasDoc, MzHolds
  <2>3. ASSUME NEW net \in Nets, net \in mzThr[t].todo, InsertVxlan(net),
               mzThr'[t].pc = "c_mem", mzThr'[t].net = net,
               mzThr'[t].vni = vniSeq, mzThr'[t].doc = mzThr[t].doc
        PROVE  HandMatches' /\ RememberedMatches'
    BY <1>1, <2>1, <2>2, <2>3, RememberedAfterInsert
  <2>4. ASSUME UNCHANGED vxlan, mzThr'[t].pc = "done"
        PROVE  HandMatches' /\ RememberedMatches'
    <3>1. \A u \in MzThreads, i \in DocIds, m \in Nets :
            Recording(u, i, m)' <=> Recording(u, i, m)
      BY <2>1, <2>4 DEF Recording
    <3>2. HandMatches'
      BY <1>1, <2>1, <2>4 DEF HandMatches
    <3> QED
      BY <1>1, <2>1, <2>4, <3>1, <3>2 DEF RememberedMatches
  <2>5. (\E net \in Nets : RefuseVxlan(net)) \/ SameNumbers => UNCHANGED vxlan
    BY DEF RefuseVxlan, SameNumbers
  <2>6. faults' # faults + 1
    BY <1>1
  <2> QED
    BY <1>0, <1>5, <2>3, <2>4, <2>5, <2>6, ConstructVniCases
<1> QED
  BY <1>2, <1>3, <1>4, <1>5 DEF VniStep

\* Whoever is inside construct's critical section owns the mutex of the
\* document it is constructing: at most one construct per document is there.
THEOREM MutualExclusion == Spec => []MutexHeld
BY InitMutex, NextKeepsMutex, TypedAlways, PTL DEF Spec

\* Of two constructs of one document the older never overwrites what the
\* younger recorded: without lost replies, what the service remembers of a
\* network is the number of its row.
THEOREM MemoryAgrees == Spec => []MemoryMatchesTable
<1>1. Init => MemOwned /\ Remembering
  <2> SUFFICES ASSUME Init PROVE MemOwned /\ Remembering
    OBVIOUS
  <2>1. /\ \A t \in MzThreads : mzThr[t].pc = "idle"
        /\ \A i \in DocIds, net \in Nets : memVni[i][net] = 0
    BY DEF Init, MzInit, MzIdle, MzRecord, NoVnis
  <2> QED
    BY <2>1 DEF MemOwned, Remembering, HandMatches, RememberedMatches
<1>2. Typed /\ MutexHeld /\ MemOwned /\ Remembering /\ [Next]_vars
      => MemOwned' /\ Remembering'
  BY NextIsVniStep, NextIsStatement, MemOwnedStep, RememberedStep
<1>3. Remembering => MemoryMatchesTable
  BY DEF Remembering, RememberedMatches, MemoryMatchesTable
<1> QED
  BY <1>1, <1>2, <1>3, TypedAlways, MutualExclusion, PTL DEF Spec

-----------------------------------------------------------------------------
(***************************************************************************)
(* The two tables when the requests come one at a time.                    *)
(***************************************************************************)

\* Documents that share a network, or a name, come from one source compiled
\* once: they have the same networks.
OneSource ==
  \A d, e \in Docs :
    d.name = e.name \/ d.nets \cap e.nets # {} => d.nets = e.nets

OneRequest ==
  /\ \A t, u \in BpThreads : t = u \/ bpThr[t].pc = "idle" \/ bpThr[u].pc = "idle"
  /\ \A t, u \in MzThreads : t = u \/ mzThr[t].pc = "idle" \/ mzThr[u].pc = "idle"
  /\ \A t \in BpThreads, u \in MzThreads :
       bpThr[t].pc = "idle" \/ mzThr[u].pc = "idle"

\* A row is under the name its document carries.
OwnNames ==
  \A n \in Names :
    /\ blueprints[n] # None => blueprints[n].name = n
    /\ materializations[n] # None => materializations[n].name = n

UpApart ==
  \A m, n \in Materialized :
    m # n => materializations[m].nets \cap materializations[n].nets = {}

Taken == {net \in Nets : HasVni(net)}

Level == Taken = LiveNets

\* Where a handler has changed one table and not yet the other.
Open == {"c_vni", "c_mem", "d_free"}

\* What thread t relies on, and what it has done to the vxlan table so far.
\* construct gets past its first network only if none of them is up.
Midway(t) ==
  LET r == mzThr[t]
  IN  /\ r.pc \in {"c_lock", "c_embed", "c_vni", "c_mem"} => r.doc = blueprints[r.name]
      /\ r.pc \in {"d_topo", "d_free"} => r.doc = materializations[r.name]
      /\ r.pc = "c_vni" =>
           /\ Taken = LiveNets \cup (r.doc.nets \ r.todo)
           /\ r.todo = r.doc.nets \/ r.doc.nets \cap LiveNets = {}
      /\ r.pc = "c_mem" =>
           /\ Taken = LiveNets \cup (r.doc.nets \ r.todo) \cup {r.net}
           /\ r.doc.nets \cap LiveNets = {}
      /\ r.pc = "d_free" =>
           /\ Taken = LiveNets \ (r.doc.nets \ r.todo)
           /\ r.todo \subseteq r.doc.nets

Account(t) == Midway(t) /\ (mzThr[t].pc \notin Open => Level)

Balanced ==
  /\ \A t \in MzThreads : Midway(t)
  /\ (\A t \in MzThreads : mzThr[t].pc \notin Open) => Level

Ledger == OwnNames /\ UpApart /\ Balanced

Undisturbed == faults = 0 /\ kills = 0

\* The other threads of the service do nothing.
AloneIn(t) == \A u \in MzThreads \ {t} : mzThr[u].pc = "idle"

LEMMA ReplyIs ==
  ASSUME MzThreadsOK, NEW t \in MzThreads, NEW q, MzReply(t, q)
  PROVE  /\ mzThr'[t].pc = "done"
         /\ \A u \in MzThreads \ {t} : mzThr'[u] = mzThr[u]
BY DEF MzThreadsOK, MzThread, MzReply, MzUpdate

LEMMA MzMoves ==
  ASSUME Typed, NEW t \in MzThreads, MzStep(t)
  PROVE  /\ mzThr[t].pc # "idle"
         /\ MzReset \/ \A u \in MzThreads \ {t} : mzThr'[u] = mzThr[u]
<1>0. MzThreadsOK
  BY DEF Typed, TypeOK, Handlers, MzTypeOK, MzThreadsOK
<1>1. mzThr[t].pc # "idle"
  BY DEF MzStep, ConstructStep, ConstructFetch, ConstructLock, ConstructEmbed,
     ConstructVni, ConstructMem, ConstructSave, DestructStep, DestructFetch,
     DestructTopo, DestructFree, DestructDelete, DestructPut, Topo, Info,
     MzList, Status, MzRespond, MzAt
<1>2. CASE \E r : MzUpdate(t, r)
  BY <1>0, <1>1, <1>2 DEF MzUpdate, MzThreadsOK
<1>3. CASE MzReset
  BY <1>1, <1>3
<1>4. (\E r : MzUpdate(t, r)) \/ MzReset
  <2>1. CASE ConstructStep(t)
    BY <2>1 DEF ConstructStep, ConstructFetch, ConstructLock, ConstructEmbed,
       ConstructVni, ConstructMem, ConstructSave, ConstructFail, MzReply
  <2>2. CASE DestructStep(t)
    BY <2>2 DEF DestructStep, DestructFetch, DestructTopo, DestructFree,
       DestructDelete, DestructPut, MzReply
  <2>3. CASE Topo(t) \/ Info(t) \/ MzList(t) \/ Status(t) \/ MzRespond(t)
    BY <2>3 DEF Topo, Info, MzList, Status, MzRespond, MzRead, MzReply
  <2> QED
    BY <2>1, <2>2, <2>3 DEF MzStep
<1> QED
  BY <1>2, <1>3, <1>4

LEMMA BpMoves ==
  ASSUME Typed, NEW t \in BpThreads, BpStep(t)
  PROVE  /\ bpThr[t].pc # "idle"
         /\ \A u \in BpThreads \ {t} : bpThr'[u] = bpThr[u]
<1>0. \A u \in BpThreads : bpThr[u] \in BpThread
  BY DEF Typed, TypeOK, BpTypeOK
<1>1. bpThr[t].pc # "idle"
  BY DEF BpStep, Save, Get, Check, BpList, DelCheck, DelRow, BpRespond, BpAt
<1>2. \E r : bpThr' = [bpThr EXCEPT ![t] = r]
  BY DEF BpStep, Save, Get, Check, BpList, DelCheck, DelRow, BpRespond, BpRead,
     BpReply, BpGoto
<1> QED
  BY <1>1, <1>2 DEF Typed, TypeOK, BpTypeOK

LEMMA OneRequestStep ==
  ASSUME Serial, Typed, OneRequest, [Next]_vars
  PROVE  OneRequest'
<1>1. ASSUME NEW t \in BpThreads, BpWorks(t) PROVE OneRequest'
  BY <1>1, BpMoves DEF BpWorks, mzVars, OneRequest
<1>2. ASSUME NEW t \in MzThreads, MzWorks(t) PROVE OneRequest'
  <2>1. UNCHANGED bpThr
    BY <1>2 DEF MzWorks, bpVars
  <2>2. CASE MzReset
    BY <2>1, <2>2 DEF MzReset, MzIdle, MzRecord, OneRequest
  <2> QED
    BY <1>2, <2>1, <2>2, MzMoves DEF MzWorks, OneRequest
<1>3. CASE BpRequestArrives
  <2>1. Idle /\ UNCHANGED mzThr
    BY <1>3 DEF BpRequestArrives, OneMoreRequest, mzVars
  <2>2. PICK t \in BpThreads : BpRequest(t)
    BY <1>3 DEF BpRequestArrives
  <2>3. \A u \in BpThreads \ {t} : bpThr'[u] = bpThr[u]
    BY <2>2 DEF BpRequest, BpAccept, Typed, TypeOK, BpTypeOK
  <2> QED
    BY <2>1, <2>3 DEF Idle, OneRequest
<1>4. CASE MzRequestArrives
  <2>1. Idle /\ UNCHANGED bpThr
    BY <1>4 DEF MzRequestArrives, OneMoreRequest, bpVars
  <2>2. PICK t \in MzThreads : MzRequest(t)
    BY <1>4 DEF MzRequestArrives
  <2>3. \A u \in MzThreads \ {t} : mzThr'[u] = mzThr[u]
    BY <2>2 DEF MzRequest, MzAccept, MzUpdate, Typed, TypeOK, MzTypeOK
  <2> QED
    BY <2>1, <2>3 DEF Idle, OneRequest
<1>5. CASE Kill
  <2>1. CASE BpKill /\ UNCHANGED mzVars
    BY <2>1 DEF BpKill, BpIdle, mzVars, OneRequest
  <2>2. CASE MzKill /\ UNCHANGED bpVars
    BY <2>2 DEF MzKill, MzReset, MzIdle, MzRecord, bpVars, OneRequest
  <2> QED
    BY <1>5, <2>1, <2>2 DEF Kill
<1>6. CASE Restart \/ UNCHANGED vars
  BY <1>6 DEF Restart, BpStart, MzStart, vars, bpVars, mzVars, OneRequest
<1> QED
  BY <1>1, <1>2, <1>3, <1>4, <1>5, <1>6 DEF Next, Quiet

\* The rows that say which networks are up, and which have a number.
SameRows == UNCHANGED <<blueprints, materializations, vxlan>>

LEMMA RowsKeep ==
  ASSUME SameRows
  PROVE  /\ Taken' = Taken /\ LiveNets' = LiveNets
         /\ Level <=> Level'
         /\ OwnNames /\ UpApart => OwnNames' /\ UpApart'
BY DEF SameRows, Taken, HasVni, LiveNets, Materialized, Level, OwnNames, UpApart

LEMMA LiveIs ==
  /\ \A x : x \in LiveNets <=>
       \E m \in Names : materializations[m] # None /\ x \in materializations[m].nets
  /\ \A x : x \in LiveNets' <=>
       \E m \in Names : materializations'[m] # None /\ x \in materializations'[m].nets
BY DEF LiveNets, Materialized

\* Of two documents from one source either all networks are up or none is.
LEMMA NoneIsUp ==
  ASSUME OneSource, DbTypeOK, NEW d \in Docs, NEW net \in d.nets, net \notin LiveNets
  PROVE  d.nets \cap LiveNets = {}
<1> SUFFICES ASSUME NEW x \in d.nets, x \in LiveNets PROVE FALSE
  OBVIOUS
<1>1. PICK m \in Names : materializations[m] # None /\ x \in materializations[m].nets
  BY LiveIs
<1>2. materializations[m] \in Docs
  BY <1>1 DEF DbTypeOK
<1>3. materializations[m].nets = d.nets
  BY <1>1, <1>2 DEF OneSource
<1> QED
  BY <1>1, <1>3, LiveIs

\* The thread that moves is the only one that counts.
LEMMA Settle ==
  ASSUME NEW t \in MzThreads, AloneIn(t), \A u \in MzThreads \ {t} : mzThr'[u] = mzThr[u],
         Account(t)'
  PROVE  Balanced'
<1>1. \A u \in MzThreads \ {t} : mzThr'[u].pc = "idle"
  BY DEF AloneIn
<1>2. \A u \in MzThreads : Midway(u)'
  BY <1>1 DEF Midway, Account
<1>3. (\A u \in MzThreads : mzThr'[u].pc \notin Open) => Level'
  BY DEF Account
<1> QED
  BY <1>2, <1>3 DEF Balanced

LEMMA Balance ==
  ASSUME Balanced, NEW t \in MzThreads, AloneIn(t)
  PROVE  Midway(t) /\ (mzThr[t].pc \notin Open => Level)
BY DEF Balanced, AloneIn, Open

\* A handler that holds no row any more, with the tables level.
LEMMA CloseKeeps ==
  ASSUME Level', NEW t \in MzThreads, AloneIn(t),
         \A u \in MzThreads \ {t} : mzThr'[u] = mzThr[u],
         mzThr'[t].pc \in {"idle", "done", "d_put", "c_fetch", "d_fetch", "info",
                           "list", "topo", "status"}
  PROVE  Balanced'
<1>1. Account(t)'
  BY DEF Account, Midway
<1> QED
  BY <1>1, Settle

LEMMA ReplyCloses ==
  ASSUME MzThreadsOK, Level', NEW t \in MzThreads, AloneIn(t), NEW q, MzReply(t, q)
  PROVE  Balanced'
BY ReplyIs, CloseKeeps

LEMMA InsertTakes ==
  ASSUME DbTypeOK, NEW net \in Nets, InsertVxlan(net)
  PROVE  /\ Taken' = Taken \cup {net} /\ LiveNets' = LiveNets
         /\ net \notin Taken
         /\ UNCHANGED <<blueprints, materializations>>
BY DEF DbTypeOK, InsertVxlan, Taken, HasVni, LiveNets, Materialized

LEMMA FreeGives ==
  ASSUME DbTypeOK, NEW net \in Nets, FreeVxlanVni(net)
  PROVE  /\ Taken' = Taken \ {net} /\ LiveNets' = LiveNets
         /\ UNCHANGED <<blueprints, materializations>>
BY DEF DbTypeOK, FreeVxlanVni, Taken, HasVni, LiveNets, Materialized

LEMMA ParentsKeep ==
  ASSUME UNCHANGED <<blueprints, materializations>>, OwnNames, UpApart
  PROVE  OwnNames' /\ UpApart'
BY DEF OwnNames, UpApart, Materialized

\* Where the ledger is read: one thread of the service is in a handler, and no
\* statement has been lost.
Serving(t) == Typed /\ Ledger /\ AloneIn(t) /\ faults' = 0

LEMMA ServingIs ==
  ASSUME NEW t \in MzThreads, Serving(t)
  PROVE  /\ DbTypeOK /\ MzThreadsOK /\ mzThr[t] \in MzThread
         /\ OwnNames /\ UpApart /\ Midway(t)
         /\ mzThr[t].pc \notin Open => Level
         /\ faults' # faults + 1
BY Balance DEF Serving, Ledger, Typed, TypeOK, Handlers, MzTypeOK, MzThreadsOK, DbTypeOK

LEMMA FetchKeepsLedger ==
  ASSUME NEW t \in MzThreads, Serving(t), ConstructFetch(t)
  PROVE  Ledger'
<1> DEFINE old == mzThr[t]
           r == [old EXCEPT !.pc = "c_lock", !.doc = blueprints[old.name]]
<1>0. /\ MzThreadsOK /\ old \in MzThread /\ OwnNames /\ UpApart
      /\ old.pc \notin Open => Level
  BY ServingIs
<1>1. SameRows /\ old.pc = "c_fetch" /\ AloneIn(t)
  BY DEF ConstructFetch, MzAt, Answered, Lost, tables, SameRows, Serving
<1>2. Level' /\ OwnNames' /\ UpApart'
  BY <1>0, <1>1, RowsKeep DEF Open
<1>3. CASE \E q : MzReply(t, q)
  BY <1>0, <1>1, <1>2, <1>3, ReplyCloses DEF Ledger
<1>4. CASE MzUpdate(t, r)
  <2>1. r.pc = "c_lock" /\ r.doc = blueprints[old.name] /\ r.name = old.name
    BY <1>0 DEF MzThread
  <2>2. mzThr'[t] = r /\ \A u \in MzThreads \ {t} : mzThr'[u] = mzThr[u]
    BY <1>0, <1>4 DEF MzUpdate, MzThreadsOK
  <2> HIDE DEF r
  <2>3. Account(t)'
    BY <1>1, <1>2, <2>1, <2>2 DEF Account, Midway, SameRows
  <2> QED
    BY <1>1, <1>2, <2>2, <2>3, Settle DEF Ledger
<1> QED
  BY <1>3, <1>4 DEF ConstructFetch

LEMMA LockKeepsLedger ==
  ASSUME NEW t \in MzThreads, Serving(t), ConstructLock(t)
  PROVE  Ledger'
<1> DEFINE old == mzThr[t]
           r == [old EXCEPT !.pc = "c_embed"]
<1>0. /\ MzThreadsOK /\ old \in MzThread /\ OwnNames /\ UpApart /\ Midway(t)
      /\ old.pc \notin Open => Level
  BY ServingIs
<1>1. SameRows /\ old.pc = "c_lock" /\ AloneIn(t) /\ MzUpdate(t, r)
  BY DEF ConstructLock, MzAt, dbVars, tables, SameRows, Serving
<1>2. Level' /\ OwnNames' /\ UpApart'
  BY <1>0, <1>1, RowsKeep DEF Open
<1>3. r.pc = "c_embed" /\ r.doc = old.doc /\ r.name = old.name
  BY <1>0 DEF MzThread
<1>4. mzThr'[t] = r /\ \A u \in MzThreads \ {t} : mzThr'[u] = mzThr[u]
  BY <1>0, <1>1 DEF MzUpdate, MzThreadsOK
<1>5. old.doc = blueprints[old.name]
  BY <1>0, <1>1 DEF Midway
<1> HIDE DEF r
<1>6. Account(t)'
  BY <1>1, <1>2, <1>3, <1>4, <1>5 DEF Account, Midway, SameRows
<1> QED
  BY <1>1, <1>2, <1>4, <1>6, Settle DEF Ledger

LEMMA EmbedKeepsLedger ==
  ASSUME NEW t \in MzThreads, Serving(t), ConstructEmbed(t)
  PROVE  Ledger'
<1> DEFINE old == mzThr[t]
           r == [old EXCEPT !.pc = "c_vni", !.todo = old.doc.nets]
<1>0. /\ MzThreadsOK /\ old \in MzThread /\ OwnNames /\ UpApart /\ Midway(t)
      /\ old.pc \notin Open => Level
  BY ServingIs
<1>1. SameRows /\ old.pc = "c_embed" /\ AloneIn(t)
  BY DEF ConstructEmbed, MzAt, Answered, Lost, tables, SameRows, Serving
<1>2. Level' /\ OwnNames' /\ UpApart'
  BY <1>0, <1>1, RowsKeep DEF Open
<1>3. CASE \E q : MzReply(t, q)
  BY <1>0, <1>1, <1>2, <1>3, ReplyCloses DEF Ledger
<1>4. CASE MzUpdate(t, r)
  <2>1. old.doc.nets \subseteq Nets /\ old.doc = blueprints[old.name]
    BY <1>0, <1>1, MzFields DEF Midway, HasDoc
  <2>2. /\ r.pc = "c_vni" /\ r.doc = old.doc /\ r.name = old.name
        /\ r.todo = old.doc.nets
    BY <1>0 DEF MzThread
  <2>3. mzThr'[t] = r /\ \A u \in MzThreads \ {t} : mzThr'[u] = mzThr[u]
    BY <1>0, <1>4 DEF MzUpdate, MzThreadsOK
  <2> HIDE DEF r
  <2>4. Account(t)'
    BY <1>1, <1>2, <2>1, <2>2, <2>3 DEF Account, Midway, SameRows, Level, Open
  <2> QED
    BY <1>1, <1>2, <2>3, <2>4, Settle DEF Ledger
<1>5. CASE MzReset
  BY <1>2, <1>5 DEF MzReset, MzIdle, MzRecord, Ledger, Balanced, Midway
<1> QED
  BY <1>3, <1>4, <1>5 DEF ConstructEmbed, ConstructFail

LEMMA VniKeepsLedger ==
  ASSUME OneSource, NEW t \in MzThreads, Serving(t), ConstructVni(t)
  PROVE  Ledger'
<1> DEFINE old == mzThr[t]
<1>0. /\ MzThreadsOK /\ DbTypeOK /\ old \in MzThread /\ AloneIn(t)
      /\ OwnNames /\ UpApart /\ Midway(t)
  BY ServingIs DEF Serving
<1>1. old.pc = "c_vni"
  BY DEF ConstructVni, MzAt
<1>2. /\ old.doc \in Docs /\ old.todo \subseteq Nets
      /\ old.doc.nets \subseteq Nets /\ old.todo \subseteq old.doc.nets
  BY <1>0, <1>1, MzFields DEF HasDoc, MzHolds
<1>3. /\ old.doc = blueprints[old.name]
      /\ Taken = LiveNets \cup (old.doc.nets \ old.todo)
      /\ old.todo = old.doc.nets \/ old.doc.nets \cap LiveNets = {}
  BY <1>0, <1>1 DEF Midway
<1>4. PICK net \in old.todo :
        \/ /\ InsertVxlan(net)
           /\ MzUpdate(t, [old EXCEPT !.pc = "c_mem", !.net = net, !.vni = vniSeq])
        \/ RefuseVxlan(net) /\ \E q : MzReply(t, q)
  BY ServingIs DEF ConstructVni, Answered, Lost, ConstructFail
<1>5. CASE /\ InsertVxlan(net)
           /\ MzUpdate(t, [old EXCEPT !.pc = "c_mem", !.net = net, !.vni = vniSeq])
  <2> DEFINE r == [old EXCEPT !.pc = "c_mem", !.net = net, !.vni = vniSeq]
  <2>1. /\ Taken' = Taken \cup {net} /\ LiveNets' = LiveNets /\ net \notin Taken
        /\ UNCHANGED <<blueprints, materializations>>
    BY <1>0, <1>2, <1>5, InsertTakes
  <2>2. old.doc.nets \cap LiveNets = {}
    BY <1>0, <1>2, <1>3, <2>1, NoneIsUp
  <2>3. /\ r.pc = "c_mem" /\ r.doc = old.doc /\ r.name = old.name
        /\ r.todo = old.todo /\ r.net = net
    BY <1>0 DEF MzThread
  <2>4. mzThr'[t] = r /\ \A u \in MzThreads \ {t} : mzThr'[u] = mzThr[u]
    BY <1>0, <1>5 DEF MzUpdate, MzThreadsOK
  <2> HIDE DEF r
  <2>5. Account(t)'
    BY <1>3, <2>1, <2>2, <2>3, <2>4 DEF Account, Midway, Open
  <2> QED
    BY <1>0, <2>1, <2>4, <2>5, Settle, ParentsKeep DEF Ledger
<1>6. CASE RefuseVxlan(net) /\ \E q : MzReply(t, q)
  <2>1. SameRows /\ net \in Taken
    BY <1>2, <1>6 DEF RefuseVxlan, SameRows, Taken
  <2>2. Level
    BY <1>2, <1>3, <2>1 DEF Level
  <2> QED
    BY <1>0, <1>6, <2>1, <2>2, RowsKeep, ReplyCloses DEF Ledger
<1> QED
  BY <1>4, <1>5, <1>6

LEMMA MemKeepsLedger ==
  ASSUME NEW t \in MzThreads, Serving(t), ConstructMem(t)
  PROVE  Ledger'
<1> DEFINE old == mzThr[t]
           r == [old EXCEPT !.pc = "c_vni", !.net = None, !.vni = 0,
                            !.todo = old.todo \ {old.net}]
<1>0. /\ MzThreadsOK /\ old \in MzThread /\ AloneIn(t)
      /\ OwnNames /\ UpApart /\ Midway(t)
  BY ServingIs DEF Serving
<1>1. SameRows /\ old.pc = "c_mem" /\ MzUpdate(t, r)
  BY DEF ConstructMem, MzAt, dbVars, tables, SameRows
<1>2. old.net \in old.todo /\ old.todo \subseteq old.doc.nets
  BY <1>0, <1>1, MzFields DEF MzHolds
<1>3. /\ old.doc = blueprints[old.name]
      /\ Taken = LiveNets \cup (old.doc.nets \ old.todo) \cup {old.net}
      /\ old.doc.nets \cap LiveNets = {}
  BY <1>0, <1>1 DEF Midway
<1>4. /\ r.pc = "c_vni" /\ r.doc = old.doc /\ r.name = old.name
      /\ r.todo = old.todo \ {old.net}
  BY <1>0 DEF MzThread
<1>5. mzThr'[t] = r /\ \A u \in MzThreads \ {t} : mzThr'[u] = mzThr[u]
  BY <1>0, <1>1 DEF MzUpdate, MzThreadsOK
<1>6. Taken' = Taken /\ LiveNets' = LiveNets /\ UNCHANGED blueprints
  BY <1>1, RowsKeep DEF SameRows
<1> HIDE DEF r
<1>7. LiveNets \cup (r.doc.nets \ r.todo) = Taken
  BY <1>2, <1>3, <1>4
<1>8. Account(t)'
  BY <1>3, <1>4, <1>5, <1>6, <1>7 DEF Account, Midway, Open
<1> QED
  BY <1>0, <1>1, <1>5, <1>8, Settle, RowsKeep DEF Ledger

LEMMA SaveKeepsLedger ==
  ASSUME OneSource, NEW t \in MzThreads, Serving(t), ConstructSave(t)
  PROVE  Ledger'
<1> DEFINE old == mzThr[t]
           n == old.name
           d == old.doc
<1>0. /\ MzThreadsOK /\ DbTypeOK /\ AloneIn(t)
      /\ OwnNames /\ UpApart /\ Midway(t)
  BY ServingIs DEF Serving
<1>1. old.pc = "c_vni" /\ old.todo = {} /\ \E q : MzReply(t, q)
  BY DEF ConstructSave, MzAt, ConstructFail
<1>2. d \in Docs /\ n \in Names /\ d.nets \subseteq Nets /\ d # None
  BY <1>0, <1>1, MzFields DEF HasDoc
<1>3. /\ d = blueprints[n] /\ d.name = n
      /\ Taken = LiveNets \cup d.nets
      /\ d.nets \cap LiveNets = {}
  BY <1>0, <1>1, <1>2 DEF Midway, OwnNames
<1>4. SaveMaterialization(n, d)
  BY <1>2, <1>3, ServingIs DEF ConstructSave, Answered, Lost, HasBlueprint
<1>5. /\ materializations'[n] = d
      /\ \A m \in Names \ {n} : materializations'[m] = materializations[m]
      /\ UNCHANGED <<blueprints, vxlan>>
  BY <1>0, <1>2, <1>4 DEF SaveMaterialization, DbTypeOK
<1>6. materializations[n] # None => materializations[n].nets = d.nets
  <2>1. ASSUME materializations[n] # None
        PROVE  materializations[n] \in Docs /\ materializations[n].name = n
    BY <1>0, <1>2, <2>1 DEF OwnNames, DbTypeOK
  <2> QED
    BY <1>2, <1>3, <2>1 DEF OneSource
<1>7. LiveNets' = LiveNets \cup d.nets
  <2>1. ASSUME NEW x \in LiveNets' PROVE x \in LiveNets \cup d.nets
    BY <1>5, LiveIs
  <2>2. ASSUME NEW x \in LiveNets \cup d.nets PROVE x \in LiveNets'
    <3>1. CASE x \in d.nets
      BY <1>2, <1>5, <3>1, LiveIs
    <3>2. CASE x \in LiveNets
      <4>1. PICK m \in Names : materializations[m] # None /\ x \in materializations[m].nets
        BY <3>2, LiveIs
      <4>2. CASE m = n
        BY <1>2, <1>5, <1>6, <4>1, <4>2, LiveIs
      <4>3. CASE m # n
        BY <1>5, <4>1, <4>3, LiveIs
      <4> QED
        BY <4>2, <4>3
    <3> QED
      BY <2>2, <3>1, <3>2
  <2> QED
    BY <2>1, <2>2
<1>8. Level'
  BY <1>3, <1>5, <1>7 DEF Level, Taken, HasVni
<1>9. OwnNames'
  BY <1>0, <1>3, <1>5 DEF OwnNames
<1>10. UpApart'
  <2>1. ASSUME NEW m \in Names, m # n, materializations[m] # None
        PROVE  materializations[m].nets \cap d.nets = {}
    BY <1>3, <2>1, LiveIs
  <2>2. ASSUME NEW m \in Materialized', NEW k \in Materialized', m # k
        PROVE  materializations'[m].nets \cap materializations'[k].nets = {}
    <3>1. CASE m # n /\ k # n
      BY <1>0, <1>5, <2>2, <3>1 DEF UpApart, Materialized
    <3>2. CASE m = n
      BY <1>5, <2>1, <2>2, <3>2 DEF Materialized
    <3>3. CASE k = n
      BY <1>5, <2>1, <2>2, <3>3 DEF Materialized
    <3> QED
      BY <3>1, <3>2, <3>3
  <2> QED
    BY <2>2 DEF UpApart
<1> QED
  BY <1>0, <1>1, <1>8, <1>9, <1>10, ReplyCloses DEF Ledger

LEMMA ConstructKeepsLedger ==
  ASSUME OneSource, NEW t \in MzThreads, Serving(t), ConstructStep(t)
  PROVE  Ledger'
BY FetchKeepsLedger, LockKeepsLedger, EmbedKeepsLedger, VniKeepsLedger,
   MemKeepsLedger, SaveKeepsLedger DEF ConstructStep

LEMMA LookKeepsLedger ==
  ASSUME NEW t \in MzThreads, Serving(t), DestructFetch(t) \/ DestructTopo(t)
  PROVE  Ledger'
<1> DEFINE old == mzThr[t]
<1>0. /\ MzThreadsOK /\ old \in MzThread /\ AloneIn(t)
      /\ OwnNames /\ UpApart /\ Midway(t)
      /\ old.pc \notin Open => Level
  BY ServingIs DEF Serving
<1>1. SameRows /\ old.pc \in {"d_fetch", "d_topo"}
  BY DEF DestructFetch, DestructTopo, MzAt, Answered, Lost, tables, SameRows
<1>2. Level' /\ OwnNames' /\ UpApart'
  BY <1>0, <1>1, RowsKeep DEF Open
<1>3. CASE \E q : MzReply(t, q)
  BY <1>0, <1>2, <1>3, ReplyCloses DEF Ledger
<1>4. CASE MzUpdate(t, [old EXCEPT !.pc = "d_topo", !.doc = materializations[old.name]])
  <2> DEFINE r == [old EXCEPT !.pc = "d_topo", !.doc = materializations[old.name]]
  <2>1. r.pc = "d_topo" /\ r.doc = materializations[old.name] /\ r.name = old.name
    BY <1>0 DEF MzThread
  <2>2. mzThr'[t] = r /\ \A u \in MzThreads \ {t} : mzThr'[u] = mzThr[u]
    BY <1>0, <1>4 DEF MzUpdate, MzThreadsOK
  <2> HIDE DEF r
  <2>3. Account(t)'
    BY <1>1, <1>2, <2>1, <2>2 DEF Account, Midway, SameRows
  <2> QED
    BY <1>0, <1>2, <2>2, <2>3, Settle DEF Ledger
<1>5. CASE /\ old.pc = "d_topo"
           /\ MzUpdate(t, [old EXCEPT !.pc = "d_free", !.topo = hwTopology,
                                      !.todo = old.doc.nets])
  <2> DEFINE r == [old EXCEPT !.pc = "d_free", !.topo = hwTopology,
                              !.todo = old.doc.nets]
  <2>1. old.doc = materializations[old.name]
    BY <1>0, <1>5 DEF Midway
  <2>2. /\ r.pc = "d_free" /\ r.doc = old.doc /\ r.name = old.name
        /\ r.todo = old.doc.nets
    BY <1>0 DEF MzThread
  <2>3. mzThr'[t] = r /\ \A u \in MzThreads \ {t} : mzThr'[u] = mzThr[u]
    BY <1>0, <1>5 DEF MzUpdate, MzThreadsOK
  <2> HIDE DEF r
  <2>4. Account(t)'
    BY <1>1, <1>2, <2>1, <2>2, <2>3 DEF Account, Midway, SameRows, Level, Open
  <2> QED
    BY <1>0, <1>2, <2>3, <2>4, Settle DEF Ledger
<1> QED
  BY <1>3, <1>4, <1>5 DEF DestructFetch, DestructTopo, MzAt

LEMMA FreeKeepsLedger ==
  ASSUME NEW t \in MzThreads, Serving(t), DestructFree(t)
  PROVE  Ledger'
<1> DEFINE old == mzThr[t]
<1>0. /\ MzThreadsOK /\ DbTypeOK /\ old \in MzThread /\ AloneIn(t)
      /\ OwnNames /\ UpApart /\ Midway(t)
  BY ServingIs DEF Serving
<1>1. old.pc = "d_free" /\ old.todo \subseteq Nets
  BY <1>0, MzFields DEF DestructFree, MzAt
<1>2. /\ old.doc = materializations[old.name]
      /\ Taken = LiveNets \ (old.doc.nets \ old.todo)
      /\ old.todo \subseteq old.doc.nets
  BY <1>0, <1>1 DEF Midway
<1>3. PICK net \in old.todo :
        FreeVxlanVni(net) /\ MzUpdate(t, [old EXCEPT !.todo = old.todo \ {net}])
  BY ServingIs DEF DestructFree, Answered, Lost
<1> DEFINE r == [old EXCEPT !.todo = old.todo \ {net}]
<1>4. /\ Taken' = Taken \ {net} /\ LiveNets' = LiveNets
      /\ UNCHANGED <<blueprints, materializations>>
  BY <1>0, <1>1, <1>3, FreeGives
<1>5. /\ r.pc = "d_free" /\ r.doc = old.doc /\ r.name = old.name
      /\ r.todo = old.todo \ {net}
  BY <1>0, <1>1 DEF MzThread
<1>6. mzThr'[t] = r /\ \A u \in MzThreads \ {t} : mzThr'[u] = mzThr[u]
  BY <1>0, <1>3 DEF MzUpdate, MzThreadsOK
<1> HIDE DEF r
<1>7. /\ LiveNets \ (r.doc.nets \ r.todo) = Taken \ {net}
      /\ r.todo \subseteq r.doc.nets
  BY <1>2, <1>3, <1>5
<1>8. Account(t)'
  BY <1>2, <1>4, <1>5, <1>6, <1>7 DEF Account, Midway, Open
<1> QED
  BY <1>0, <1>4, <1>6, <1>8, Settle, ParentsKeep DEF Ledger

LEMMA DeleteKeepsLedger ==
  ASSUME NEW t \in MzThreads, Serving(t), DestructDelete(t)
  PROVE  Ledger'
<1> DEFINE old == mzThr[t]
           n == old.name
           d == old.doc
           r == [old EXCEPT !.pc = "d_put"]
<1>0. /\ MzThreadsOK /\ DbTypeOK /\ old \in MzThread /\ AloneIn(t)
      /\ OwnNames /\ UpApart /\ Midway(t)
  BY ServingIs DEF Serving
<1>1. old.pc = "d_free" /\ old.todo = {}
  BY DEF DestructDelete, MzAt
<1>2. d \in Docs /\ n \in Names /\ d # None
  BY <1>0, <1>1, MzFields DEF HasDoc
<1>3. d = materializations[n] /\ Taken = LiveNets \ d.nets
  BY <1>0, <1>1 DEF Midway
<1>4. DeleteMaterialization(n) /\ MzUpdate(t, r)
  BY ServingIs DEF DestructDelete, Answered, Lost
<1>5. /\ materializations'[n] = None
      /\ \A m \in Names \ {n} : materializations'[m] = materializations[m]
      /\ UNCHANGED <<blueprints, vxlan>>
  BY <1>0, <1>2, <1>4 DEF DeleteMaterialization, DbTypeOK
<1>6. LiveNets' = LiveNets \ d.nets
  <2>1. ASSUME NEW x \in LiveNets' PROVE x \in LiveNets \ d.nets
    <3>1. PICK m \in Names : materializations'[m] # None /\ x \in materializations'[m].nets
      BY <2>1, LiveIs
    <3>2. m # n /\ materializations[m] # None /\ x \in materializations[m].nets
      BY <1>5, <3>1
    <3> QED
      BY <1>0, <1>2, <1>3, <3>2, LiveIs DEF UpApart, Materialized
  <2>2. ASSUME NEW x \in LiveNets \ d.nets PROVE x \in LiveNets'
    <3>1. PICK m \in Names : materializations[m] # None /\ x \in materializations[m].nets
      BY <2>2, LiveIs
    <3>2. m # n
      BY <1>3, <2>2, <3>1
    <3> QED
      BY <1>5, <3>1, <3>2, LiveIs
  <2> QED
    BY <2>1, <2>2
<1>7. Level'
  BY <1>3, <1>5, <1>6 DEF Level, Taken, HasVni
<1>8. OwnNames' /\ UpApart'
  BY <1>0, <1>5 DEF OwnNames, UpApart, Materialized
<1>9. r.pc = "d_put"
  BY <1>0 DEF MzThread
<1>10. mzThr'[t].pc = "d_put" /\ \A u \in MzThreads \ {t} : mzThr'[u] = mzThr[u]
  BY <1>0, <1>4, <1>9 DEF MzUpdate, MzThreadsOK
<1> QED
  BY <1>0, <1>7, <1>8, <1>10, CloseKeeps DEF Ledger

LEMMA OtherKeepsLedger ==
  ASSUME NEW t \in MzThreads, Serving(t),
         \/ DestructPut(t) \/ Topo(t) \/ Info(t) \/ MzList(t) \/ Status(t)
         \/ MzRespond(t)
  PROVE  Ledger'
<1>0. /\ MzThreadsOK /\ AloneIn(t) /\ OwnNames /\ UpApart
      /\ mzThr[t].pc \notin Open => Level
  BY ServingIs DEF Serving
<1>1. SameRows /\ mzThr[t].pc \in {"d_put", "topo", "info", "list", "status", "done"}
  BY DEF DestructPut, Topo, Info, MzList, Status, MzRespond, MzRead, MzAt,
     Answered, Lost, SetHwTopo, dbVars, tables, SameRows
<1>2. Level' /\ OwnNames' /\ UpApart'
  BY <1>0, <1>1, RowsKeep DEF Open
<1>3. CASE \E q : MzReply(t, q)
  BY <1>0, <1>2, <1>3, ReplyCloses DEF Ledger
<1>4. CASE MzUpdate(t, MzIdle)
  <2>1. mzThr'[t].pc = "idle" /\ \A u \in MzThreads \ {t} : mzThr'[u] = mzThr[u]
    BY <1>0, <1>4 DEF MzUpdate, MzThreadsOK, MzIdle, MzRecord
  <2> QED
    BY <1>0, <1>2, <2>1, CloseKeeps DEF Ledger
<1> QED
  BY <1>3, <1>4 DEF DestructPut, Topo, Info, MzList, Status, MzRespond, MzRead

LEMMA MzKeepsLedger ==
  ASSUME OneSource, NEW t \in MzThreads, Serving(t), MzStep(t)
  PROVE  Ledger'
BY ConstructKeepsLedger, LookKeepsLedger, FreeKeepsLedger, DeleteKeepsLedger,
   OtherKeepsLedger DEF MzStep, DestructStep

\* While the materialization service is idle the tables stay level, whatever
\* happens to the rows of blueprints under their own names.
LEMMA QuietKeepsLedger ==
  ASSUME Ledger, UNCHANGED <<mzThr, materializations, vxlan>>, OwnNames',
         \A t \in MzThreads : mzThr[t].pc = "idle"
  PROVE  Ledger'
<1>1. Taken' = Taken /\ LiveNets' = LiveNets /\ (UpApart => UpApart')
  BY DEF Taken, HasVni, LiveNets, Materialized, UpApart
<1>2. Level
  BY DEF Ledger, Balanced, Open
<1>3. Balanced'
  BY <1>1, <1>2 DEF Balanced, Midway, Level
<1> QED
  BY <1>1, <1>3 DEF Ledger

LEMMA BpKeepsLedger ==
  ASSUME Typed, Ledger, NEW t \in BpThreads, BpWorks(t), faults' = 0,
         \A u \in MzThreads : mzThr[u].pc = "idle"
  PROVE  Ledger'
<1>0. DbTypeOK /\ BpHolds(bpThr[t]) /\ OwnNames /\ BpStep(t) /\ UNCHANGED mzThr
  BY DEF Typed, TypeOK, Handlers, Ledger, BpWorks, mzVars
<1>1. \/ \E d \in Docs : SaveBlueprint(d)
      \/ \E n \in Names : DeleteBlueprintRow(n)
      \/ UNCHANGED tables
  BY <1>0 DEF BpStep, Save, Get, Check, BpList, DelCheck, DelRow, BpRespond,
     BpRead, BpAt, BpHolds, Answered, Lost, dbVars
<1>2. UNCHANGED <<materializations, vxlan>>
  BY <1>1 DEF SaveBlueprint, DeleteBlueprintRow, tables
<1>3. OwnNames'
  <2>1. ASSUME NEW d \in Docs, SaveBlueprint(d) PROVE OwnNames'
    BY <1>0, <2>1 DEF SaveBlueprint, OwnNames, DbTypeOK, Doc
  <2>2. ASSUME NEW n \in Names, DeleteBlueprintRow(n) PROVE OwnNames'
    BY <1>0, <2>2 DEF DeleteBlueprintRow, OwnNames, DbTypeOK
  <2>3. CASE UNCHANGED tables
    BY <1>0, <2>3 DEF tables, OwnNames
  <2> QED
    BY <1>1, <2>1, <2>2, <2>3
<1> QED
  BY <1>0, <1>2, <1>3, QuietKeepsLedger

LEMMA NextKeepsLedger ==
  ASSUME Serial, OneSource, Typed, OneRequest, Undisturbed => Ledger, [Next]_vars
  PROVE  Undisturbed' => Ledger'
<1> SUFFICES ASSUME Undisturbed' PROVE Ledger'
  OBVIOUS
<1>0. /\ faults = 0 /\ faults' = 0 /\ kills' = 0
      /\ kills \in Nat
  BY NextIsStatement DEF Counted, Undisturbed, Typed, TypeOK, DbTypeOK
<1>1. kills = 0 /\ ~ Kill
  BY <1>0 DEF Next, Kill, Quiet, BpRequestArrives, MzRequestArrives, BpWorks,
     MzWorks, Restart, vars, env
<1>2. Ledger
  BY <1>0, <1>1 DEF Undisturbed
<1>3. ASSUME NEW t \in MzThreads, MzWorks(t) PROVE Ledger'
  <2>1. MzStep(t) /\ mzThr[t].pc # "idle"
    BY <1>3, MzMoves DEF MzWorks
  <2>2. AloneIn(t)
    BY <2>1 DEF OneRequest, AloneIn
  <2> QED
    BY <1>0, <1>2, <2>1, <2>2, MzKeepsLedger DEF Serving
<1>4. ASSUME NEW t \in BpThreads, BpWorks(t) PROVE Ledger'
  <2>1. \A u \in MzThreads : mzThr[u].pc = "idle"
    BY <1>4, BpMoves DEF BpWorks, OneRequest
  <2> QED
    BY <1>0, <1>2, <1>4, <2>1, BpKeepsLedger
<1>5. CASE MzRequestArrives
  <2>1. PICK t \in MzThreads : MzRequest(t)
    BY <1>5 DEF MzRequestArrives
  <2>2. PICK pc \in {"c_fetch", "d_fetch", "info", "list", "status", "topo"},
             n \in Names \cup {None}, tp \in Topos \cup {NoTopo} :
          MzAccept(t, pc, n, tp)
    BY <2>1 DEF MzRequest
  <2>3. /\ mzThr'[t].pc = pc /\ SameRows
        /\ \A u \in MzThreads \ {t} : mzThr'[u] = mzThr[u]
    BY <2>2 DEF MzAccept, MzUpdate, MzRecord, Typed, TypeOK, MzTypeOK, dbVars,
       tables, SameRows
  <2>4. AloneIn(t) /\ mzThr[t].pc = "idle"
    BY <1>5 DEF MzRequestArrives, OneMoreRequest, Idle, AloneIn
  <2>5. OwnNames /\ UpApart /\ Level
    BY <1>2, <2>4, Balance DEF Ledger, Open
  <2>6. OwnNames' /\ UpApart' /\ Level'
    BY <2>3, <2>5, RowsKeep
  <2> QED
    BY <2>3, <2>4, <2>6, CloseKeeps DEF Ledger
<1>6. CASE BpRequestArrives \/ Restart \/ UNCHANGED vars
  <2>1. SameRows /\ UNCHANGED mzThr
    BY <1>6 DEF BpRequestArrives, BpRequest, BpAccept, Restart, BpStart, MzStart,
       vars, mzVars, dbVars, tables, SameRows
  <2>2. Balanced'
    BY <1>2, <2>1, RowsKeep DEF Ledger, Balanced, Midway, SameRows, Level
  <2> QED
    BY <1>2, <2>1, <2>2, RowsKeep DEF Ledger
<1> QED
  BY <1>1, <1>3, <1>4, <1>5, <1>6 DEF Next, Quiet

LEMMA InitLedger == Init => OneRequest /\ Ledger
<1> SUFFICES ASSUME Init PROVE OneRequest /\ Ledger
  OBVIOUS
<1>1. /\ \A t \in BpThreads : bpThr[t].pc = "idle"
      /\ \A t \in MzThreads : mzThr[t].pc = "idle"
  BY DEF Init, BpInit, BpIdle, MzInit, MzIdle, MzRecord
<1>2. PICK up \in SUBSET {n \in Names : blueprints[n] # None} :
        /\ \A m, n \in up :
             m # n => blueprints[m].nets \cap blueprints[n].nets = {}
        /\ materializations = [n \in Names |-> IF n \in up THEN blueprints[n] ELSE None]
        /\ \A net \in Nets :
             vxlan[net] # 0 <=> \E n \in up : net \in blueprints[n].nets
  BY DEF Init, DbInit
<1>3. /\ Materialized = up
      /\ \A n \in up : /\ materializations[n] = blueprints[n]
                       /\ blueprints[n] \in Docs
  <2>1. blueprints \in [Names -> Docs \cup {None}]
    BY DEF Init, DbInit
  <2>2. \A n \in Names :
          /\ n \in up => materializations[n] = blueprints[n] /\ blueprints[n] # None
          /\ n \notin up => materializations[n] = None
    BY <1>2
  <2>3. \A n \in Names : n \in up <=> materializations[n] # None
    BY <2>2
  <2> QED
    BY <2>1, <2>2, <2>3 DEF Materialized
<1>4. OwnNames /\ UpApart
  <2>1. \A n \in Names : blueprints[n] # None => blueprints[n].name = n
    BY DEF Init, DbInit
  <2>2. OwnNames
    BY <1>3, <2>1 DEF OwnNames, Materialized
  <2>3. \A m, n \in up :
          m # n => blueprints[m].nets \cap blueprints[n].nets = {}
    BY <1>2
  <2>4. ASSUME NEW m \in Materialized, NEW n \in Materialized, m # n
        PROVE  materializations[m].nets \cap materializations[n].nets = {}
    <3>1. m \in up /\ n \in up
      BY <1>3, <2>4
    <3>2. blueprints[m].nets \cap blueprints[n].nets = {}
      BY <2>3, <2>4, <3>1
    <3> QED
      BY <1>3, <3>1, <3>2
  <2>5. UpApart
    BY <2>4 DEF UpApart
  <2> QED
    BY <2>2, <2>5
<1>5. \A x : x \in LiveNets <=> \E n \in up : x \in blueprints[n].nets
  BY <1>3 DEF LiveNets
<1>6. LiveNets \subseteq Nets
  BY <1>3, <1>5 DEF Doc
<1>7. Level
  BY <1>2, <1>5, <1>6 DEF Level, Taken, HasVni
<1> QED
  BY <1>1, <1>4, <1>7 DEF OneRequest, Ledger, Balanced, Midway

\* When the requests come one at a time, and until a reply of the database is
\* lost or a container is stopped, the two tables agree whenever no request is
\* in progress: a construct or destruct that fails half way would have left
\* them apart, and none does.
THEOREM SerialTables ==
  ASSUME Serial, OneSource
  PROVE  Spec => [](faults = 0 /\ kills = 0 => IdleTablesAgree)
<1>1. Init => OneRequest /\ (Undisturbed => Ledger)
  BY InitLedger
<1>2. Typed /\ OneRequest /\ (Undisturbed => Ledger) /\ [Next]_vars
      => OneRequest' /\ (Undisturbed => Ledger)'
  BY OneRequestStep, NextKeepsLedger
<1>3. Ledger => IdleTablesAgree
  BY DEF Ledger, Balanced, Level, Taken, Open, Idle, IdleTablesAgree
<1>4. (Undisturbed => Ledger) => (faults = 0 /\ kills = 0 => IdleTablesAgree)
  BY <1>3 DEF Undisturbed
<1> QED
  BY <1>1, <1>2, <1>4, TypedAlways, PTL DEF Spec

============================================================================
