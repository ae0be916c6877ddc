------------------------ MODULE ControlPlaneVniProofs ------------------------
(***************************************************************************)
(* The theorems about vxlan identifiers and the mutex per document.        *)
(***************************************************************************)
EXTENDS ControlPlaneProofs

USE DocsAssumption, NoneAssumption, DbBoundsAssumption, MzAssumption,
    BoundsAssumption

-----------------------------------------------------------------------------
(* The mutex: whoever is between lock and unlock owns it.                  *)

Constructing(t) == mzThr[t].pc \in {"c_embed", "c_vni", "c_mem"}

MutexHeld ==
  \A t \in MzThreads : Constructing(t) => mtx[mzThr[t].doc.id] = t

\* A thread moves and is outside the critical section before and after, or
\* inside with the same document.
LEMMA MoveKeepsMutex ==
  ASSUME MzThreadsOK, MutexHeld, NEW t \in MzThreads, NEW r \in MzThread,
         MzUpdate(t, r), UNCHANGED mtx,
         r.pc \in {"c_embed", "c_vni", "c_mem"} => r.doc = mzThr[t].doc /\ Constructing(t)
  PROVE  MutexHeld'
BY DEF MzThreadsOK, MutexHeld, Constructing, MzUpdate

LEMMA ReplyKeepsMutex ==
  ASSUME MzThreadsOK, MutexHeld, NEW t \in MzThreads, NEW q, MzReply(t, q),
         UNCHANGED mtx
  PROVE  MutexHeld'
<1>1. /\ mzThr'[t].pc = "done"
      /\ \A u \in MzThreads \ {t} : mzThr'[u] = mzThr[u]
  BY DEF MzThreadsOK, MzThread, MzReply, MzUpdate
<1> QED
  BY <1>1 DEF MutexHeld, Constructing

LEMMA UnlockKeepsMutex ==
  ASSUME MzThreadsOK, MutexesOK, MutexHeld, NEW t \in MzThreads, Constructing(t),
         NEW q, Unlock(t), MzReply(t, q)
  PROVE  MutexHeld'
<1>1. /\ mzThr'[t].pc = "done"
      /\ \A u \in MzThreads \ {t} : mzThr'[u] = mzThr[u]
  BY DEF MzThreadsOK, MzThread, MzReply, MzUpdate
<1>2. \A u \in MzThreads \ {t} :
        Constructing(u) => mtx'[mzThr[u].doc.id] = mtx[mzThr[u].doc.id]
  BY DEF MutexHeld, Unlock, MutexesOK
<1> QED
  BY <1>1, <1>2 DEF MutexHeld, Constructing

LEMMA ResetKeepsMutex == MzReset => MutexHeld'
BY DEF MzReset, MutexHeld, Constructing, MzIdle, MzRecord

LEMMA ConstructKeepsMutex ==
  ASSUME DbTypeOK, MzThreadsOK, MutexesOK, MutexHeld,
         NEW t \in MzThreads, ConstructStep(t)
  PROVE  MutexHeld'
<1> DEFINE old == mzThr[t]
<1>0. old \in MzThread
  BY DEF MzThreadsOK
<1>1. CASE ConstructFetch(t)
  <2>1. CASE HasBlueprint(old.name) /\
             MzUpdate(t, [old EXCEPT !.pc = "c_lock", !.doc = blueprints[old.name]])
    <3> DEFINE r == [old EXCEPT !.pc = "c_lock", !.doc = blueprints[old.name]]
    <3>1. old.name \in Names
      BY <1>1, MzFields DEF ConstructFetch, MzAt, MzHolds, HasName
    <3>2. r \in MzThread /\ r.pc = "c_lock"
      BY <1>0, <3>1 DEF MzThread, MzPcs, DbTypeOK
    <3> HIDE DEF r
    <3> QED
      BY <1>1, <2>1, <3>2, MoveKeepsMutex DEF ConstructFetch, r
  <2> QED
    BY <1>1, <2>1, ReplyKeepsMutex DEF ConstructFetch
<1>2. CASE ConstructLock(t)
  <2>1. old.pc = "c_lock" /\ old.doc.id \in DocIds /\ LockFree(old.doc.id)
    BY <1>2, MzFields DEF ConstructLock, MzAt, HasDoc
  <2>2. /\ mzThr'[t].doc = old.doc /\ mtx'[old.doc.id] = t
        /\ \A u \in MzThreads \ {t} : mzThr'[u] = mzThr[u]
    BY <1>0, <1>2, <2>1 DEF ConstructLock, MzUpdate, MzThread, MzThreadsOK, MutexesOK
  <2>3. \A u \in MzThreads \ {t} :
          Constructing(u) => mtx'[mzThr[u].doc.id] = mtx[mzThr[u].doc.id]
    BY <1>2, <2>1 DEF ConstructLock, MutexHeld, LockFree, MutexesOK
  <2> QED
    BY <2>2, <2>3 DEF MutexHeld, Constructing
<1>3. CASE ConstructEmbed(t)
  <2>1. Constructing(t) /\ old.doc \in Docs /\ old.doc.nets \subseteq Nets
    BY <1>3, MzFields DEF ConstructEmbed, MzAt, Constructing, HasDoc
  <2>2. CASE MzReset
    BY <2>2, ResetKeepsMutex
  <2>3. CASE ConstructFail(t)
    BY <2>1, <2>3, UnlockKeepsMutex DEF ConstructFail
  <2>4. CASE /\ MzUpdate(t, [old EXCEPT !.pc = "c_vni", !.todo = old.doc.nets])
             /\ UNCHANGED mtx
    <3> DEFINE r == [old EXCEPT !.pc = "c_vni", !.todo = old.doc.nets]
    <3>1. r \in MzThread /\ r.doc = old.doc
      BY <1>0, <2>1 DEF MzThread, MzPcs
    <3> HIDE DEF r
    <3> QED
      BY <2>1, <2>4, <3>1, MoveKeepsMutex DEF r
  <2> QED
    BY <1>3, <2>2, <2>3, <2>4 DEF ConstructEmbed
<1>4. CASE ConstructVni(t)
  <2>1. Constructing(t) /\ old.todo \subseteq Nets
    BY <1>4, MzFields DEF ConstructVni, MzAt, Constructing
  <2>2. CASE ConstructFail(t)
    BY <2>1, <2>2, UnlockKeepsMutex DEF ConstructFail
  <2>3. ASSUME NEW net \in old.todo, UNCHANGED mtx,
               MzUpdate(t, [old EXCEPT !.pc = "c_mem", !.net = net, !.vni = vniSeq])
        PROVE  MutexHeld'
    <3> DEFINE r == [old EXCEPT !.pc = "c_mem", !.net = net, !.vni = vniSeq]
    <3>1. r \in MzThread /\ r.doc = old.doc
      BY <1>0, <2>1 DEF MzThread, MzPcs, DbTypeOK
    <3> HIDE DEF r
    <3> QED
      BY <2>1, <2>3, <3>1, MoveKeepsMutex DEF r
  <2> QED
    BY <1>4, <2>2, <2>3 DEF ConstructVni
<1>5. CASE ConstructMem(t)
  <2> DEFINE r == [old EXCEPT !.pc = "c_vni", !.net = None, !.vni = 0,
                              !.todo = old.todo \ {old.net}]
  <2>1. Constructing(t) /\ MzUpdate(t, r) /\ UNCHANGED mtx
    BY <1>5 DEF ConstructMem, MzAt, Constructing
  <2>2. r \in MzThread /\ r.doc = old.doc
    BY <1>0 DEF MzThread, MzPcs
  <2> HIDE DEF r
  <2> QED
    BY <2>1, <2>2, MoveKeepsMutex
<1>6. CASE ConstructSave(t)
  <2>1. Constructing(t)
    BY <1>6 DEF ConstructSave, MzAt, Constructing
  <2> QED
    BY <1>6, <2>1, UnlockKeepsMutex DEF ConstructSave, ConstructFail
<1> QED
  BY <1>1, <1>2, <1>3, <1>4, <1>5, <1>6 DEF ConstructStep

LEMMA DestructKeepsMutex ==
  ASSUME DbTypeOK, MzThreadsOK, MutexHeld, NEW t \in MzThreads, DestructStep(t)
  PROVE  MutexHeld'
<1> DEFINE old == mzThr[t]
<1>0. old \in MzThread /\ UNCHANGED mtx
  BY DEF MzThreadsOK, DestructStep, DestructFetch, DestructTopo, DestructFree,
     DestructDelete, DestructPut
<1>1. CASE \E q : MzReply(t, q)
  BY <1>0, <1>1, ReplyKeepsMutex
<1>2. CASE DestructFetch(t) /\
           MzUpdate(t, [old EXCEPT !.pc = "d_topo", !.doc = materializations[old.name]])
  <2> DEFINE r == [old EXCEPT !.pc = "d_topo", !.doc = materializations[old.name]]
  <2>1. old.name \in Names
    BY <1>2, MzFields DEF DestructFetch, MzAt, MzHolds, HasName
  <2>2. r \in MzThread /\ r.pc = "d_topo"
    BY <1>0, <2>1 DEF MzThread, MzPcs, DbTypeOK
  <2> HIDE DEF r
  <2> QED
    BY <1>0, <1>2, <2>2, MoveKeepsMutex DEF r
<1>3. CASE DestructTopo(t) /\
           MzUpdate(t, [old EXCEPT !.pc = "d_free", !.topo = hwTopology,
                                   !.todo = old.doc.nets])
  <2> DEFINE r == [old EXCEPT !.pc = "d_free", !.topo = hwTopology,
                              !.todo = old.doc.nets]
  <2>1. old.doc.nets \subseteq Nets
    BY <1>3, MzFields DEF DestructTopo, MzAt, HasDoc
  <2>2. r \in MzThread /\ r.pc = "d_free"
    BY <1>0, <2>1 DEF MzThread, MzPcs, DbTypeOK
  <2> HIDE DEF r
  <2> QED
    BY <1>0, <1>3, <2>2, MoveKeepsMutex DEF r
<1>4. ASSUME NEW net, DestructFree(t), MzUpdate(t, [old EXCEPT !.todo = old.todo \ {net}])
      PROVE  MutexHeld'
  <2> DEFINE r == [old EXCEPT !.todo = old.todo \ {net}]
  <2>1. r \in MzThread /\ r.pc = "d_free"
    BY <1>0, <1>4 DEF MzThread, MzPcs, DestructFree, MzAt
  <2> HIDE DEF r
  <2> QED
    BY <1>0, <1>4, <2>1, MoveKeepsMutex DEF r
<1>5. CASE MzUpdate(t, [old EXCEPT !.pc = "d_put"])
  <2> DEFINE r == [old EXCEPT !.pc = "d_put"]
  <2>1. r \in MzThread /\ r.pc = "d_put"
    BY <1>0 DEF MzThread, MzPcs
  <2> HIDE DEF r
  <2> QED
    BY <1>0, <1>5, <2>1, MoveKeepsMutex DEF r
<1>6. CASE DestructFetch(t)
  BY <1>1, <1>2, <1>6 DEF DestructFetch
<1>7. CASE DestructTopo(t)
  BY <1>1, <1>3, <1>7 DEF DestructTopo
<1>8. CASE DestructFree(t)
  BY <1>1, <1>4, <1>8 DEF DestructFree
<1>9. CASE DestructDelete(t) \/ DestructPut(t)
  BY <1>1, <1>5, <1>9 DEF DestructDelete, DestructPut
<1> QED
  BY <1>6, <1>7, <1>8, <1>9 DEF DestructStep

LEMMA NextKeepsMutex == Typed /\ MutexHeld /\ [Next]_vars => MutexHeld'
<1> SUFFICES ASSUME Typed, MutexHeld, [Next]_vars PROVE MutexHeld'
  OBVIOUS
<1>0. DbTypeOK /\ MzThreadsOK /\ MutexesOK
  BY DEF Typed, TypeOK, Handlers, MzTypeOK, MzThreadsOK, MutexesOK
<1>1. ASSUME NEW t \in MzThreads, MzWorks(t) PROVE MutexHeld'
  <2>1. CASE ConstructStep(t)
    BY <1>0, <2>1, ConstructKeepsMutex
  <2>2. CASE DestructStep(t)
    BY <1>0, <2>2, DestructKeepsMutex
  <2>3. CASE Topo(t) \/ Info(t) \/ MzList(t) \/ Status(t)
    BY <1>0, <2>3, ReplyKeepsMutex DEF Topo, Info, MzList, Status, MzRead
  <2>4. CASE MzRespond(t)
    <3>1. MzIdle \in MzThread /\ MzIdle.pc = "idle"
      BY DEF MzIdle, MzRecord, MzThread, MzPcs, MzReplies
    <3> QED
      BY <1>0, <2>4, <3>1, MoveKeepsMutex DEF MzRespond
  <2> QED
    BY <1>1, <2>1, <2>2, <2>3, <2>4 DEF MzWorks, MzStep
<1>2. CASE MzRequestArrives
  <2>1. PICK t \in MzThreads, pc \in {"c_fetch", "d_fetch", "info", "list",
                                      "status", "topo"},
             n \in Names \cup {None}, tp \in Topos \cup {NoTopo} :
          MzAccept(t, pc, n, tp)
    BY <1>2 DEF MzRequestArrives, MzRequest
  <2>2. /\ MzRecord(pc, n, tp) \in MzThread
        /\ MzRecord(pc, n, tp).pc = pc
    BY DEF MzRecord, MzThread, MzPcs, MzReplies
  <2> QED
    BY <1>0, <2>1, <2>2, MoveKeepsMutex DEF MzAccept
<1>3. CASE UNCHANGED <<mzThr, mtx>>
  BY <1>3 DEF MutexHeld, Constructing
<1>4. CASE MzReset
  BY <1>4, ResetKeepsMutex
<1>5. CASE BpRequestArrives \/ Kill \/ Restart \/ UNCHANGED vars
  BY <1>3, <1>4, <1>5 DEF BpRequestArrives, Kill, BpKill, MzKill, Restart,
     BpStart, MzStart, vars, mzVars
<1>6. ASSUME NEW t \in BpThreads, BpWorks(t) PROVE MutexHeld'
  BY <1>3, <1>6 DEF BpWorks, mzVars
<1> QED
  BY <1>1, <1>2, <1>5, <1>6 DEF Next, Quiet

LEMMA InitMutex == Init => MutexHeld
BY DEF Init, MzInit, MutexHeld, Constructing, MzIdle, MzRecord

-----------------------------------------------------------------------------
(* What a step may do to the numbers.                                      *)

\* No thread enters or leaves the point between INSERT and assignment.
SameHands ==
  \A t \in MzThreads :
    /\ mzThr[t].pc = "c_mem" \/ mzThr'[t].pc = "c_mem" => mzThr'[t] = mzThr[t]
    /\ mzThr'[t].vni \in {0, mzThr[t].vni}

SameNumbers == UNCHANGED <<vxlan, vniSeq>>

VniStep ==
  \/ \E t \in MzThreads : ConstructVni(t) \/ ConstructMem(t)
  \/ MzReset /\ SameNumbers
  \/ /\ SameHands /\ UNCHANGED memVni
     /\ SameNumbers \/ \E net \in Nets : FreeVxlanVni(net)

LEMMA ReplyKeepsHands ==
  ASSUME MzThreadsOK, NEW t \in MzThreads, NEW q, MzReply(t, q), mzThr[t].pc # "c_mem"
  PROVE  SameHands
<1>1. /\ mzThr'[t].pc = "done" /\ mzThr'[t].vni = mzThr[t].vni
      /\ \A u \in MzThreads \ {t} : mzThr'[u] = mzThr[u]
  BY DEF MzThreadsOK, MzThread, MzReply, MzUpdate
<1> QED
  BY <1>1 DEF SameHands

LEMMA MoveKeepsHands ==
  ASSUME MzThreadsOK, NEW t \in MzThreads, NEW r, MzUpdate(t, r),
         mzThr[t].pc # "c_mem", r.pc # "c_mem", r.vni \in {0, mzThr[t].vni}
  PROVE  SameHands
BY DEF MzThreadsOK, MzUpdate, SameHands

LEMMA ConstructIsVniStep ==
  ASSUME MzThreadsOK, NEW t \in MzThreads, ConstructStep(t)
  PROVE  VniStep
<1> DEFINE old == mzThr[t]
<1>0. old \in MzThread
  BY DEF MzThreadsOK
<1>1. CASE ConstructFetch(t)
  <2>1. old.pc = "c_fetch" /\ SameNumbers /\ UNCHANGED memVni
    BY <1>1 DEF ConstructFetch, MzAt, Answered, Lost, tables, SameNumbers
  <2>2. CASE MzUpdate(t, [old EXCEPT !.pc = "c_lock", !.doc = blueprints[old.name]])
    <3> DEFINE r == [old EXCEPT !.pc = "c_lock", !.doc = blueprints[old.name]]
    <3>1. r.pc = "c_lock" /\ r.vni = old.vni
      BY <1>0 DEF MzThread
    <3> HIDE DEF r
    <3> QED
      BY <2>1, <2>2, <3>1, MoveKeepsHands DEF VniStep, r
  <2> QED
    BY <1>1, <2>1, <2>2, ReplyKeepsHands DEF ConstructFetch, VniStep
<1>2. CASE ConstructLock(t)
  <2> DEFINE r == [old EXCEPT !.pc = "c_embed"]
  <2>1. /\ old.pc = "c_lock" /\ MzUpdate(t, r)
        /\ SameNumbers /\ UNCHANGED memVni
    BY <1>2 DEF ConstructLock, MzAt, dbVars, tables, SameNumbers
  <2>2. r.pc = "c_embed" /\ r.vni = old.vni
    BY <1>0 DEF MzThread
  <2> HIDE DEF r
  <2> QED
    BY <2>1, <2>2, MoveKeepsHands DEF VniStep
<1>3. CASE ConstructEmbed(t)
  <2>1. old.pc = "c_embed" /\ SameNumbers
    BY <1>3 DEF ConstructEmbed, MzAt, Answered, Lost, tables, SameNumbers
  <2>2. CASE MzReset
    BY <2>1, <2>2 DEF VniStep
  <2>3. CASE ConstructFail(t) /\ UNCHANGED memVni
    BY <2>1, <2>3, ReplyKeepsHands DEF ConstructFail, VniStep
  <2>4. CASE /\ MzUpdate(t, [old EXCEPT !.pc = "c_vni", !.todo = old.doc.nets])
             /\ UNCHANGED memVni
    <3> DEFINE r == [old EXCEPT !.pc = "c_vni", !.todo = old.doc.nets]
    <3>1. r.pc = "c_vni" /\ r.vni = old.vni
      BY <1>0 DEF MzThread
    <3> HIDE DEF r
    <3> QED
      BY <2>1, <2>4, <3>1, MoveKeepsHands DEF VniStep, r
  <2> QED
    BY <1>3, <2>2, <2>3, <2>4 DEF ConstructEmbed
<1>4. CASE ConstructVni(t) \/ ConstructMem(t)
  BY <1>4 DEF VniStep
<1>5. CASE ConstructSave(t)
  <2>1. old.pc = "c_vni" /\ SameNumbers /\ UNCHANGED memVni
    BY <1>5 DEF ConstructSave, MzAt, Answered, Lost, tables, SameNumbers,
       SaveMaterialization
  <2> QED
    BY <1>5, <2>1, ReplyKeepsHands DEF ConstructSave, ConstructFail, VniStep
<1> QED
  BY <1>1, <1>2, <1>3, <1>4, <1>5 DEF ConstructStep

LEMMA DestructIsVniStep ==
  ASSUME MzThreadsOK, NEW t \in MzThreads, DestructStep(t)
  PROVE  VniStep
<1> DEFINE old == mzThr[t]
<1>0. /\ old \in MzThread /\ UNCHANGED memVni
      /\ old.pc \in {"d_fetch", "d_topo", "d_free", "d_put"}
  BY DEF MzThreadsOK, DestructStep, DestructFetch, DestructTopo, DestructFree,
     DestructDelete, DestructPut, MzAt
<1>1. SameNumbers \/ \E net \in Nets : FreeVxlanVni(net)
  <2>1. old.todo \subseteq Nets
    BY MzFields
  <2> QED
    BY <2>1 DEF DestructStep, DestructFetch, DestructTopo, DestructFree,
       DestructDelete, DestructPut, Answered, Lost, tables, SameNumbers,
       DeleteMaterialization, SetHwTopo
<1>2. CASE \E q : MzReply(t, q)
  BY <1>0, <1>1, <1>2, ReplyKeepsHands DEF VniStep
<1>3. ASSUME NEW r, MzUpdate(t, r), r.pc # "c_mem", r.vni = old.vni
      PROVE  VniStep
  BY <1>0, <1>1, <1>3, MoveKeepsHands DEF VniStep
<1>4. CASE DestructFetch(t)
  <2> DEFINE r == [old EXCEPT !.pc = "d_topo", !.doc = materializations[old.name]]
  <2>1. r.pc # "c_mem" /\ r.vni = old.vni
    BY <1>0 DEF MzThread
  <2>2. MzUpdate(t, r) \/ \E q : MzReply(t, q)
    BY <1>4 DEF DestructFetch
  <2> HIDE DEF r
  <2> QED
    BY <1>2, <1>3, <2>1, <2>2
<1>5. CASE DestructTopo(t)
  <2> DEFINE r == [old EXCEPT !.pc = "d_free", !.topo = hwTopology,
                              !.todo = old.doc.nets]
  <2>1. r.pc # "c_mem" /\ r.vni = old.vni
    BY <1>0 DEF MzThread
  <2>2. MzUpdate(t, r) \/ \E q : MzReply(t, q)
    BY <1>5 DEF DestructTopo
  <2> HIDE DEF r
  <2> QED
    BY <1>2, <1>3, <2>1, <2>2
<1>6. CASE DestructFree(t)
  <2>1. PICK net \in old.todo :
          \/ MzUpdate(t, [old EXCEPT !.todo = old.todo \ {net}])
          \/ \E q : MzReply(t, q)
    BY <1>6 DEF DestructFree
  <2> DEFINE r == [old EXCEPT !.todo = old.todo \ {net}]
  <2>2. r.pc # "c_mem" /\ r.vni = old.vni
    BY <1>0 DEF MzThread
  <2>3. MzUpdate(t, r) \/ \E q : MzReply(t, q)
    BY <2>1
  <2> HIDE DEF r
  <2> QED
    BY <1>2, <1>3, <2>2, <2>3
<1>7. CASE DestructDelete(t)
  <2> DEFINE r == [old EXCEPT !.pc = "d_put"]
  <2>1. r.pc # "c_mem" /\ r.vni = old.vni
    BY <1>0 DEF MzThread
  <2>2. MzUpdate(t, r) \/ \E q : MzReply(t, q)
    BY <1>7 DEF DestructDelete
  <2> HIDE DEF r
  <2> QED
    BY <1>2, <1>3, <2>1, <2>2
<1>8. CASE DestructPut(t)
  BY <1>2, <1>8 DEF DestructPut
<1> QED
  BY <1>4, <1>5, <1>6, <1>7, <1>8 DEF DestructStep

LEMMA NextIsVniStep ==
  ASSUME Typed, [Next]_vars
  PROVE  VniStep
<1>0. MzThreadsOK
  BY DEF Typed, TypeOK, Handlers, MzTypeOK, MzThreadsOK
<1>1. ASSUME NEW t \in MzThreads, MzWorks(t) PROVE VniStep
  <2>1. CASE ConstructStep(t)
    BY <1>0, <2>1, ConstructIsVniStep
  <2>2. CASE DestructStep(t)
    BY <1>0, <2>2, DestructIsVniStep
  <2>3. CASE Topo(t) \/ Info(t) \/ MzList(t) \/ Status(t)
    <3>1. SameNumbers /\ UNCHANGED memVni /\ mzThr[t].pc # "c_mem"
      BY <2>3 DEF Topo, Info, MzList, Status, MzRead, MzAt, Answered, Lost,
         tables, SameNumbers, SetHwTopo
    <3> QED
      BY <1>0, <2>3, <3>1, ReplyKeepsHands
      DEF Topo, Info, MzList, Status, MzRead, VniStep
  <2>4. CASE MzRespond(t)
    <3>1. MzIdle.pc = "idle" /\ MzIdle.vni = 0
      BY DEF MzIdle, MzRecord
    <3>2. SameNumbers /\ UNCHANGED memVni /\ mzThr[t].pc # "c_mem"
      BY <2>4 DEF MzRespond, MzAt, dbVars, tables, SameNumbers
    <3> QED
      BY <1>0, <2>4, <3>1, <3>2, MoveKeepsHands DEF MzRespond, VniStep
  <2> QED
    BY <1>1, <2>1, <2>2, <2>3, <2>4 DEF MzWorks, MzStep
<1>2. CASE MzRequestArrives
  <2>1. PICK t \in MzThreads, pc \in {"c_fetch", "d_fetch", "info", "list",
                                      "status", "topo"},
             n \in Names \cup {None}, tp \in Topos \cup {NoTopo} :
          MzAccept(t, pc, n, tp)
    BY <1>2 DEF MzRequestArrives, MzRequest
  <2>2. MzRecord(pc, n, tp).pc # "c_mem" /\ MzRecord(pc, n, tp).vni = 0
    BY DEF MzRecord
  <2>3. /\ SameNumbers /\ UNCHANGED memVni /\ mzThr[t].pc # "c_mem"
        /\ MzUpdate(t, MzRecord(pc, n, tp))
    BY <2>1 DEF MzAccept, MzAt, dbVars, tables, SameNumbers
  <2> QED
    BY <1>0, <2>2, <2>3, MoveKeepsHands DEF VniStep
<1>3. CASE UNCHANGED <<mzThr, memVni>> /\ SameNumbers
  BY <1>3 DEF VniStep, SameHands
<1>4. CASE MzReset /\ SameNumbers
  BY <1>4 DEF VniStep
<1>5. CASE BpRequestArrives \/ Kill \/ Restart \/ UNCHANGED vars
  BY <1>3, <1>4, <1>5 DEF BpRequestArrives, BpRequest, BpAccept, Kill, BpKill,
     MzKill, Restart, BpStart, MzStart, vars, mzVars, dbVars, tables, SameNumbers
<1>6. ASSUME NEW t \in BpThreads, BpWorks(t) PROVE VniStep
  BY <1>3, <1>6 DEF BpWorks, mzVars, BpStep, Save, Get, Check, BpList, DelCheck,
     DelRow, BpRespond, BpRead, Answered, Lost, SaveBlueprint, DeleteBlueprintRow,
     dbVars, tables, SameNumbers
<1> QED
  BY <1>1, <1>2, <1>5, <1>6 DEF Next, Quiet

-----------------------------------------------------------------------------
(* Two networks never share a number.                                      *)

\* ConstructVni in one formula: what happens to the table, then to the thread.
LEMMA ConstructVniCases ==
  ASSUME MzThreadsOK, NEW t \in MzThreads, ConstructVni(t)
  PROVE  /\ mzThr[t].pc = "c_vni" /\ UNCHANGED memVni
         /\ \A u \in MzThreads \ {t} : mzThr'[u] = mzThr[u]
         /\ \E net \in mzThr[t].todo :
              /\ net \in Nets
              /\ \/ /\ InsertVxlan(net) /\ UNCHANGED <<mtx, faults>>
                    /\ mzThr'[t].pc = "c_mem" /\ mzThr'[t].net = net
                    /\ mzThr'[t].vni = vniSeq /\ mzThr'[t].doc = mzThr[t].doc
                 \/ /\ \/ RefuseVxlan(net) \/ SameNumbers
                       \/ InsertVxlan(net) /\ faults' = faults + 1
                    /\ mzThr'[t].pc = "done" /\ mzThr'[t].vni = mzThr[t].vni
<1> DEFINE old == mzThr[t]
<1>0. old \in MzThread /\ old.todo \subseteq Nets /\ old.pc = "c_vni" /\ UNCHANGED memVni
  BY MzFields DEF MzThreadsOK, ConstructVni, MzAt
<1>1. PICK net \in old.todo :
        \/ /\ Answered(InsertVxlan(net))
           /\ MzUpdate(t, [old EXCEPT !.pc = "c_mem", !.net = net, !.vni = vniSeq])
           /\ UNCHANGED mtx
        \/ Answered(RefuseVxlan(net)) /\ ConstructFail(t)
        \/ Lost(InsertVxlan(net) \/ RefuseVxlan(net)) /\ ConstructFail(t)
  BY DEF ConstructVni
<1>2. \A u \in MzThreads \ {t} : mzThr'[u] = mzThr[u]
  BY <1>1 DEF MzThreadsOK, MzUpdate, ConstructFail, MzReply
<1>3. CASE /\ Answered(InsertVxlan(net))
           /\ MzUpdate(t, [old EXCEPT !.pc = "c_mem", !.net = net, !.vni = vniSeq])
           /\ UNCHANGED mtx
  <2>1. /\ mzThr'[t].pc = "c_mem" /\ mzThr'[t].net = net
        /\ mzThr'[t].vni = vniSeq /\ mzThr'[t].doc = old.doc
    BY <1>0, <1>3 DEF MzThreadsOK, MzUpdate, MzThread
  <2> QED
    BY <1>0, <1>2, <1>3, <2>1 DEF Answered
<1>f. ConstructFail(t) => mzThr'[t].pc = "done" /\ mzThr'[t].vni = old.vni
  BY <1>0 DEF ConstructFail, MzReply, MzUpdate, MzThreadsOK, MzThread
<1>4. CASE Answered(RefuseVxlan(net)) /\ ConstructFail(t)
  BY <1>0, <1>2, <1>4, <1>f DEF Answered
<1>5. CASE Lost(InsertVxlan(net) \/ RefuseVxlan(net)) /\ ConstructFail(t)
  <2>1. RefuseVxlan(net) \/ SameNumbers \/ (InsertVxlan(net) /\ faults' = faults + 1)
    BY <1>5 DEF Lost, tables, SameNumbers
  <2> QED
    BY <1>0, <1>2, <1>5, <1>f, <2>1
<1> QED
  BY <1>1, <1>3, <1>4, <1>5

LEMMA ConstructMemCases ==
  ASSUME MzThreadsOK, MemoryOK, NEW t \in MzThreads, ConstructMem(t)
  PROVE  LET i == mzThr[t].doc.id
             net == mzThr[t].net
         IN  /\ mzThr[t].pc = "c_mem" /\ i \in DocIds /\ net \in Nets
             /\ mzThr[t].doc \in Docs /\ net \in mzThr[t].doc.nets
             /\ SameNumbers /\ UNCHANGED <<faults, mtx>>
             /\ \A u \in MzThreads \ {t} : mzThr'[u] = mzThr[u]
             /\ mzThr'[t].pc = "c_vni" /\ mzThr'[t].vni = 0
             /\ memVni'[i][net] = mzThr[t].vni
             /\ \A j \in DocIds, m \in Nets :
                  j # i \/ m # net => memVni'[j][m] = memVni[j][m]
<1> DEFINE old == mzThr[t]
           r == [old EXCEPT !.pc = "c_vni", !.net = None, !.vni = 0,
                            !.todo = old.todo \ {old.net}]
<1>0. /\ old \in MzThread /\ old.pc = "c_mem" /\ MzUpdate(t, r)
      /\ UNCHANGED <<mtx, dbVars>>
      /\ memVni' = [memVni EXCEPT ![old.doc.id][old.net] = old.vni]
  BY DEF MzThreadsOK, ConstructMem, MzAt
<1>1. /\ old.doc.id \in DocIds /\ old.net \in Nets /\ old.doc \in Docs
      /\ old.net \in old.doc.nets
  BY <1>0, MzFields DEF HasDoc, MzHolds
<1>2. r.pc = "c_vni" /\ r.vni = 0
  BY <1>0 DEF MzThread
<1>3. mzThr'[t] = r /\ \A u \in MzThreads \ {t} : mzThr'[u] = mzThr[u]
  BY <1>0 DEF MzThreadsOK, MzUpdate
<1>4. /\ memVni'[old.doc.id][old.net] = old.vni
      /\ \A j \in DocIds, m \in Nets :
           j # old.doc.id \/ m # old.net => memVni'[j][m] = memVni[j][m]
  BY <1>0, <1>1 DEF MemoryOK
<1> HIDE DEF r
<1> QED
  BY <1>0, <1>1, <1>2, <1>3, <1>4 DEF dbVars, tables, SameNumbers

LEMMA ResetFacts ==
  ASSUME MzReset
  PROVE  /\ \A t \in MzThreads : mzThr'[t].pc = "idle" /\ mzThr'[t].vni = 0
         /\ \A i \in DocIds, net \in Nets : memVni'[i][net] = 0
BY DEF MzReset, MzIdle, MzRecord, NoVnis

\* VniNeverShared without the bound on v that TLC needs.
Below ==
  \A net \in Nets :
    /\ vxlan[net] < vniSeq
    /\ \A i \in DocIds : memVni[i][net] < vniSeq
    /\ \A t \in MzThreads : mzThr[t].vni < vniSeq

Apart ==
  \A v \in Nat \ {0} : \A m, n \in Nets : Uses(m, v) /\ Uses(n, v) => m = n

LEMMA VniNeverSharedAsParts ==
  ASSUME Typed
  PROVE  VniNeverShared <=> Below /\ Apart
<1>1. vniSeq \in Nat \ {0}
  BY DEF Typed, TypeOK, DbTypeOK
<1>2. ASSUME Below, NEW v \in Nat \ {0}, NEW net \in Nets, Uses(net, v)
      PROVE  v \in 1..(vniSeq - 1)
  BY <1>1, <1>2 DEF Below, Uses
<1> QED
  BY <1>1, <1>2 DEF VniNeverShared, Below, Apart

LEMMA BelowStep ==
  ASSUME Typed, Below, VniStep, vniSeq' \in Nat \ {0}
  PROVE  Below'
<1>0. MzThreadsOK /\ MemoryOK /\ DbTypeOK
  BY DEF Typed, TypeOK, Handlers, MzTypeOK, MzThreadsOK, MemoryOK
<1>9. /\ vniSeq \in Nat \ {0} /\ vxlan \in [Nets -> Nat]
      /\ \A t \in MzThreads : mzThr[t].vni \in Nat
      /\ \A i \in DocIds, net \in Nets : memVni[i][net] \in Nat
  BY <1>0, MzFields DEF DbTypeOK, MemoryOK
<1>1. ASSUME NEW t \in MzThreads, ConstructVni(t) PROVE Below'
  <2>0. PICK new \in Nets : InsertVxlan(new) \/ RefuseVxlan(new) \/ SameNumbers
    BY <1>0, <1>1, ConstructVniCases
  <2>1. vniSeq' >= vniSeq /\ \A m \in Nets : vxlan'[m] < vniSeq'
    BY <1>9, <2>0 DEF Below, InsertVxlan, RefuseVxlan, SameNumbers
  <2>2. \A u \in MzThreads : mzThr'[u].vni < vniSeq' \/ Nets = {}
    <3>1. \A u \in MzThreads \ {t} : mzThr'[u] = mzThr[u]
      BY <1>0, <1>1, ConstructVniCases
    <3>2. \/ mzThr'[t].vni = mzThr[t].vni
          \/ /\ mzThr'[t].vni = vniSeq
             /\ \E net \in Nets : InsertVxlan(net)
      BY <1>0, <1>1, ConstructVniCases
    <3>3. (\E net \in Nets : InsertVxlan(net)) => vniSeq' = vniSeq + 1
      BY DEF InsertVxlan
    <3> QED
      BY <1>9, <2>1, <3>1, <3>2, <3>3 DEF Below
  <2>3. \A i \in DocIds, net \in Nets : memVni'[i][net] < vniSeq'
    BY <1>0, <1>1, <1>9, <2>1, ConstructVniCases DEF Below
  <2> QED
    BY <2>1, <2>2, <2>3 DEF Below
<1>2. ASSUME NEW t \in MzThreads, ConstructMem(t) PROVE Below'
  <2> DEFINE i == mzThr[t].doc.id
             net == mzThr[t].net
  <2>1. /\ vniSeq' = vniSeq /\ vxlan' = vxlan
        /\ \A u \in MzThreads : mzThr'[u].vni = 0 \/ mzThr'[u] = mzThr[u]
        /\ \A j \in DocIds, m \in Nets :
             memVni'[j][m] = memVni[j][m] \/ memVni'[j][m] = mzThr[t].vni
    BY <1>0, <1>2, ConstructMemCases DEF SameNumbers
  <2> QED
    BY <1>9, <2>1 DEF Below
<1>3. CASE MzReset /\ SameNumbers
  BY <1>3, <1>9, ResetFacts DEF Below, SameNumbers
<1>4. CASE SameHands /\ UNCHANGED memVni /\ (SameNumbers \/ \E net \in Nets : FreeVxlanVni(net))
  BY <1>4, <1>9 DEF Below, SameHands, SameNumbers, FreeVxlanVni
<1> QED
  BY <1>1, <1>2, <1>3, <1>4 DEF VniStep

LEMMA ApartStep ==
  ASSUME Typed, Below, Apart, VniStep
  PROVE  Apart'
<1>0. MzThreadsOK /\ MemoryOK /\ DbTypeOK
  BY DEF Typed, TypeOK, Handlers, MzTypeOK, MzThreadsOK, MemoryOK
<1>9. /\ vniSeq \in Nat \ {0} /\ vxlan \in [Nets -> Nat]
      /\ \A t \in MzThreads : mzThr[t].vni \in Nat
      /\ \A i \in DocIds, net \in Nets : memVni[i][net] \in Nat
  BY <1>0, MzFields DEF DbTypeOK, MemoryOK
\* It is enough that a number in use was in use before, or is the new one.
<1>s. ASSUME NEW new \in Nets,
             \A m \in Nets, v \in Nat \ {0} :
               Uses(m, v)' => Uses(m, v) \/ (m = new /\ v = vniSeq)
      PROVE  Apart'
  <2>1. \A m \in Nets : ~ Uses(m, vniSeq)
    BY <1>9 DEF Below, Uses
  <2> QED
    BY <1>s, <2>1 DEF Apart
<1>t. ASSUME \A m \in Nets, v \in Nat \ {0} : Uses(m, v)' => Uses(m, v)
      PROVE  Apart'
  BY <1>t DEF Apart
<1>1. ASSUME NEW t \in MzThreads, ConstructVni(t) PROVE Apart'
  <2>1. PICK net \in Nets :
          /\ \A m \in Nets : vxlan'[m] \in {0, vxlan[m]} \/ (m = net /\ vxlan'[m] = vniSeq)
          /\ \/ mzThr'[t].pc = "done"
             \/ mzThr'[t].net = net /\ mzThr'[t].vni = vniSeq
    BY <1>0, <1>1, <1>9, ConstructVniCases DEF InsertVxlan, RefuseVxlan, SameNumbers
  <2>2. /\ UNCHANGED memVni
        /\ \A u \in MzThreads \ {t} : mzThr'[u] = mzThr[u]
    BY <1>0, <1>1, ConstructVniCases
  <2>3. \A m \in Nets, v \in Nat \ {0} :
          Uses(m, v)' => Uses(m, v) \/ (m = net /\ v = vniSeq)
    BY <2>1, <2>2 DEF Uses
  <2> QED
    BY <2>3, <1>s
<1>2. ASSUME NEW t \in MzThreads, ConstructMem(t) PROVE Apart'
  <2> DEFINE i == mzThr[t].doc.id
             net == mzThr[t].net
  <2>1. /\ mzThr[t].pc = "c_mem" /\ vxlan' = vxlan
        /\ \A u \in MzThreads : mzThr'[u].pc = "c_mem" => mzThr'[u] = mzThr[u]
        /\ \A j \in DocIds, m \in Nets :
             \/ memVni'[j][m] = memVni[j][m]
             \/ m = mzThr[t].net /\ memVni'[j][m] = mzThr[t].vni
    BY <1>0, <1>2, ConstructMemCases DEF SameNumbers
  <2>2. \A m \in Nets, v \in Nat \ {0} : Uses(m, v)' => Uses(m, v)
    BY <2>1 DEF Uses
  <2> QED
    BY <2>2, <1>t
<1>3. CASE MzReset /\ SameNumbers
  BY <1>3, <1>t, ResetFacts DEF Uses, SameNumbers
<1>4. CASE SameHands /\ UNCHANGED memVni /\ (SameNumbers \/ \E net \in Nets : FreeVxlanVni(net))
  <2>1. \A m \in Nets : vxlan'[m] \in {0, vxlan[m]}
    BY <1>4, <1>9 DEF SameNumbers, FreeVxlanVni
  <2>2. \A m \in Nets, v \in Nat \ {0} : Uses(m, v)' => Uses(m, v)
    BY <1>4, <2>1 DEF Uses, SameHands
  <2> QED
    BY <2>2, <1>t
<1> QED
  BY <1>1, <1>2, <1>3, <1>4 DEF VniStep

\* No two networks ever use one vxlan identifier, counting what the service
\* still remembers of rows that were freed.
THEOREM VniIsolation == Spec => []VniNeverShared
<1>1. Init => Below /\ Apart
  <2> SUFFICES ASSUME Init PROVE Below /\ Apart
    OBVIOUS
  <2>1. /\ \A t \in MzThreads : mzThr[t].pc = "idle" /\ mzThr[t].vni = 0
        /\ \A i \in DocIds, net \in Nets : memVni[i][net] = 0
    BY DEF Init, MzInit, MzIdle, MzRecord, NoVnis
  <2>2. /\ vniSeq = InitVnis + 1 /\ vxlan \in [Nets -> 0..InitVnis]
        /\ \A m, n \in Nets : m # n /\ vxlan[m] # 0 => vxlan[m] # vxlan[n]
    BY DEF Init, DbInit
  <2>3. Below
    BY <2>1, <2>2 DEF Below
  <2>4. Apart
    BY <2>1, <2>2 DEF Apart, Uses
  <2> QED
    BY <2>3, <2>4
<1>2. Typed /\ Below /\ Apart /\ [Next]_vars => Below' /\ Apart'
  <2>1. Typed' => vniSeq' \in Nat \ {0}
    BY DEF Typed, TypeOK, DbTypeOK
  <2> QED
    BY <2>1, NextTyped, NextIsVniStep, BelowStep, ApartStep
<1>3. Typed /\ Below /\ Apart => VniNeverShared
  BY VniNeverSharedAsParts
<1> QED
  BY <1>1, <1>2, <1>3, TypedAlways, PTL DEF Spec

=============================================================================
