------------------------- MODULE ControlPlaneProofs -------------------------
(***************************************************************************)
(* Theorems about ControlPlane, for any number of names, documents,        *)
(* networks and threads and any bounds: its types; what every step of it   *)
(* does to the tables, one statement of the database with well-typed       *)
(* arguments or nothing; and what follows from the statements alone.       *)
(***************************************************************************)
EXTENDS ControlPlane, TLAPS

(***************************************************************************)
(* The statements the handlers send, and what a lost one does to `faults'. *)
(***************************************************************************)
Statement ==
  \/ \E d \in Docs : SaveBlueprint(d)
  \/ \E n \in Names : DeleteBlueprintRow(n)
  \/ \E n \in Names, d \in Docs : SaveMaterialization(n, d)
  \/ \E n \in Names : DeleteMaterialization(n)
  \/ \E tp \in Topos \cup {NoTopo} : SetHwTopo(tp)
  \/ \E net \in Nets : InsertVxlan(net) \/ RefuseVxlan(net) \/ FreeVxlanVni(net)
  \/ UNCHANGED tables

Counted == faults' = faults \/ (faults < MaxFaults /\ faults' = faults + 1)

(***************************************************************************)
(* What a thread in the middle of a handler holds.                         *)
(***************************************************************************)
BpHolds(r) ==
  /\ r.pc = "save" => r.doc \in Docs
  /\ r.pc \in {"get", "check", "list", "del_check", "del_row"} => r.name \in Names

HasDoc == {"c_lock", "c_embed", "c_vni", "c_mem", "d_topo", "d_free"}

HasName == HasDoc \cup {"c_fetch", "d_fetch", "info"}

MzHolds(r) ==
  /\ r.pc \in HasDoc => r.doc \in Docs
  /\ r.pc \in HasName => r.name \in Names
  /\ r.pc \in {"c_vni", "c_mem"} => r.todo \subseteq r.doc.nets
  /\ r.pc = "c_mem" => r.net \in r.todo

Handlers ==
  /\ \A t \in BpThreads : BpHolds(bpThr[t])
  /\ \A t \in MzThreads : MzHolds(mzThr[t])

Typed == TypeOK /\ Handlers

USE DocsAssumption, NoneAssumption, DbBoundsAssumption, MzAssumption,
    BoundsAssumption

LEMMA InitTyped == Init => Typed
<1> SUFFICES ASSUME Init PROVE Typed
  OBVIOUS
<1> USE DEF Init, DbInit, BpInit, MzInit
<1>1. DbTypeOK
  BY DEF DbTypeOK
<1>2. BpTypeOK
  BY DEF BpTypeOK, BpThread, BpIdle, BpPcs, BpReplies
<1>3. MzTypeOK
  BY DEF MzTypeOK, MzThread, MzIdle, MzRecord, MzPcs, MzReplies, NoVnis
<1>4. Handlers
  BY DEF Handlers, BpHolds, MzHolds, HasName, HasDoc, BpIdle, MzIdle, MzRecord
<1> QED
  BY <1>1, <1>2, <1>3, <1>4 DEF Typed, TypeOK

LEMMA StatementTyped ==
  ASSUME DbTypeOK, Statement, Counted
  PROVE  DbTypeOK'
<1> USE DEF DbTypeOK
<1>0. faults' \in 0..MaxFaults
  BY DEF Counted
<1>1. ASSUME NEW d \in Docs, SaveBlueprint(d) PROVE DbTypeOK'
  BY <1>0, <1>1 DEF SaveBlueprint, Doc
<1>2. ASSUME NEW n \in Names, DeleteBlueprintRow(n) PROVE DbTypeOK'
  BY <1>0, <1>2 DEF DeleteBlueprintRow
<1>3. ASSUME NEW n \in Names, NEW d \in Docs, SaveMaterialization(n, d)
      PROVE  DbTypeOK'
  BY <1>0, <1>3 DEF SaveMaterialization
<1>4. ASSUME NEW n \in Names, DeleteMaterialization(n) PROVE DbTypeOK'
  BY <1>0, <1>4 DEF DeleteMaterialization
<1>5. ASSUME NEW tp \in Topos \cup {NoTopo}, SetHwTopo(tp) PROVE DbTypeOK'
  BY <1>0, <1>5 DEF SetHwTopo
<1>6. ASSUME NEW net \in Nets, InsertVxlan(net) PROVE DbTypeOK'
  BY <1>0, <1>6 DEF InsertVxlan
<1>7. ASSUME NEW net \in Nets, RefuseVxlan(net) PROVE DbTypeOK'
  BY <1>0, <1>7 DEF RefuseVxlan
<1>8. ASSUME NEW net \in Nets, FreeVxlanVni(net) PROVE DbTypeOK'
  BY <1>0, <1>8 DEF FreeVxlanVni
<1>9. CASE UNCHANGED tables
  BY <1>0, <1>9 DEF tables
<1> QED
  BY <1>1, <1>2, <1>3, <1>4, <1>5, <1>6, <1>7, <1>8, <1>9 DEF Statement

-----------------------------------------------------------------------------
(* The blueprint service.                                                  *)

LEMMA BpReplyTyped ==
  ASSUME BpTypeOK, \A u \in BpThreads : BpHolds(bpThr[u]),
         NEW t \in BpThreads, NEW r \in BpReplies, BpReply(t, r)
  PROVE  BpTypeOK' /\ \A u \in BpThreads : BpHolds(bpThr'[u])
<1> DEFINE q == [bpThr[t] EXCEPT !.pc = "done", !.reply = r]
<1>1. q \in BpThread /\ BpHolds(q)
  <2>1. bpThr[t] \in BpThread  BY DEF BpTypeOK
  <2>2. "done" \in BpPcs  BY DEF BpPcs
  <2>3. q \in BpThread  BY <2>1, <2>2 DEF BpThread
  <2>4. q.pc = "done"  BY <2>1 DEF BpThread
  <2> QED  BY <2>3, <2>4 DEF BpHolds
<1>2. bpThr' = [bpThr EXCEPT ![t] = q] /\ bpUp' = bpUp
  BY DEF BpTypeOK, BpReply
<1> HIDE DEF q
<1> QED
  BY <1>1, <1>2 DEF BpTypeOK

LEMMA BpTyped ==
  ASSUME Typed, NEW t \in BpThreads, BpStep(t)
  PROVE  /\ Statement /\ Counted
         /\ BpTypeOK' /\ \A u \in BpThreads : BpHolds(bpThr'[u])
<1> DEFINE G == /\ Statement /\ Counted
                /\ BpTypeOK' /\ \A u \in BpThreads : BpHolds(bpThr'[u])
<1>0. /\ BpTypeOK /\ \A u \in BpThreads : BpHolds(bpThr[u])
      /\ bpThr[t].doc \in Docs \cup {None}
  BY DEF Typed, TypeOK, Handlers, BpTypeOK, BpThread
<1>r. ASSUME NEW r \in BpReplies, BpReply(t, r)
      PROVE  BpTypeOK' /\ \A u \in BpThreads : BpHolds(bpThr'[u])
  BY <1>0, <1>r, BpReplyTyped
<1>q. ASSUME NEW r \in BpReplies, BpRead(t, r) PROVE G
  <2>1. Statement /\ Counted
    BY <1>q DEF BpRead, Answered, Lost, Statement, Counted
  <2>2. "failure" \in BpReplies
    BY DEF BpReplies
  <2> QED
    BY <1>q, <1>r, <2>1, <2>2 DEF BpRead
<1>1. CASE Save(t)
  <2>1. bpThr[t].doc \in Docs
    BY <1>0, <1>1 DEF Save, BpAt, BpHolds
  <2>2. Statement /\ Counted
    BY <1>1, <2>1 DEF Save, Answered, Lost, Statement, Counted
  <2>3. \E r \in BpReplies : BpReply(t, r)
    BY <1>1 DEF Save, BpReplies
  <2> QED
    BY <1>r, <2>2, <2>3
<1>2. CASE Get(t)
  BY <1>2, <1>q DEF Get, BpReplies
<1>3. CASE Check(t)
  BY <1>3, <1>q DEF Check, BpReplies
<1>4. CASE BpList(t)
  BY <1>4, <1>q DEF BpList, BpReplies
<1>5. CASE DelCheck(t)
  <2>1. Statement /\ Counted
    BY <1>5 DEF DelCheck, Answered, Lost, Statement, Counted
  <2>2. CASE BpGoto(t, "del_row")
    <3>1. bpThr[t].pc = "del_check" /\ bpThr[t].name \in Names
      BY <1>0, <1>5 DEF DelCheck, BpAt, BpHolds
    <3> QED
      BY <1>0, <2>1, <2>2, <3>1 DEF BpGoto, BpTypeOK, BpThread, BpPcs, BpHolds
  <2>3. CASE \E r \in BpReplies : BpReply(t, r)
    BY <1>r, <2>1, <2>3
  <2> QED
    BY <1>5, <2>2, <2>3 DEF DelCheck, BpReplies
<1>6. CASE DelRow(t)
  <2>1. bpThr[t].name \in Names
    BY <1>0, <1>6 DEF DelRow, BpAt, BpHolds
  <2>2. Statement /\ Counted
    BY <1>6, <2>1 DEF DelRow, Answered, Lost, Statement, Counted
  <2>3. \E r \in BpReplies : BpReply(t, r)
    BY <1>6 DEF DelRow, BpReplies
  <2> QED
    BY <1>r, <2>2, <2>3
<1>7. CASE BpRespond(t)
  BY <1>0, <1>7 DEF BpRespond, BpIdle, BpTypeOK, BpThread, BpPcs, BpReplies,
     BpHolds, Statement, Counted, dbVars
<1> QED
  BY <1>1, <1>2, <1>3, <1>4, <1>5, <1>6, <1>7 DEF BpStep

-----------------------------------------------------------------------------
(* The materialization service.                                            *)

MzThreadsOK == mzThr \in [MzThreads -> MzThread] /\ \A t \in MzThreads : MzHolds(mzThr[t])

MutexesOK == mtx \in [DocIds -> MzThreads \cup {NoThread}]

MemoryOK == memVni \in [DocIds -> [Nets -> Nat]]

LEMMA MzUpdateTyped ==
  ASSUME MzThreadsOK, NEW t \in MzThreads, NEW r \in MzThread, MzHolds(r),
         MzUpdate(t, r)
  PROVE  MzThreadsOK'
BY DEF MzThreadsOK, MzUpdate

LEMMA MzReplyTyped ==
  ASSUME MzThreadsOK, NEW t \in MzThreads, NEW r \in MzReplies, MzReply(t, r)
  PROVE  MzThreadsOK'
<1> DEFINE q == [mzThr[t] EXCEPT !.pc = "done", !.reply = r]
<1>0. mzThr[t] \in MzThread
  BY DEF MzThreadsOK
<1>1. q \in MzThread
  BY <1>0 DEF MzThread, MzPcs
<1>3. MzHolds(q)
  BY <1>0 DEF MzThread, MzHolds, HasDoc, HasName
<1>2. MzUpdate(t, q)
  BY DEF MzReply
<1> HIDE DEF q
<1> QED
  BY <1>1, <1>2, <1>3, MzUpdateTyped

LEMMA MzResetTyped ==
  ASSUME MzReset
  PROVE  MzThreadsOK' /\ MutexesOK' /\ MemoryOK'
BY DEF MzReset, MzThreadsOK, MutexesOK, MemoryOK, NoVnis, MzIdle, MzRecord,
   MzThread, MzPcs, MzReplies, MzHolds, HasDoc, HasName

LEMMA UnlockTyped ==
  ASSUME MutexesOK, NEW t \in MzThreads, Unlock(t)
  PROVE  MutexesOK'
BY DEF MutexesOK, Unlock

\* The record of a thread in a handler, field by field.
LEMMA MzFields ==
  ASSUME MzThreadsOK, NEW t \in MzThreads
  PROVE  /\ mzThr[t] \in MzThread
         /\ MzHolds(mzThr[t])
         /\ mzThr[t].todo \subseteq Nets
         /\ mzThr[t].topo \in Topos \cup {NoTopo}
         /\ mzThr[t].vni \in Nat
         /\ mzThr[t].pc \in HasDoc =>
              /\ mzThr[t].doc \in Docs
              /\ mzThr[t].doc.id \in DocIds
              /\ mzThr[t].doc.nets \subseteq Nets
              /\ mzThr[t].name \in Names
         /\ mzThr[t].pc = "c_mem" => mzThr[t].net \in Nets
BY DEF MzThreadsOK, MzThread, MzHolds, Doc, HasDoc, HasName

LEMMA ConstructTyped ==
  ASSUME DbTypeOK, MzThreadsOK, MutexesOK, MemoryOK,
         NEW t \in MzThreads, ConstructStep(t)
  PROVE  Statement /\ Counted /\ MzThreadsOK' /\ MutexesOK' /\ MemoryOK'
<1> DEFINE G == Statement /\ Counted /\ MzThreadsOK' /\ MutexesOK' /\ MemoryOK'
           old == mzThr[t]
<1>f. "failure" \in MzReplies /\ "constructed" \in MzReplies
  BY DEF MzReplies
<1>x. ASSUME ConstructFail(t) PROVE MzThreadsOK' /\ MutexesOK'
  BY <1>f, <1>x, MzReplyTyped, UnlockTyped DEF ConstructFail
<1>1. CASE ConstructFetch(t)
  <2>1. Statement /\ Counted /\ MutexesOK' /\ MemoryOK'
    BY <1>1 DEF ConstructFetch, Answered, Lost, Statement, Counted, MutexesOK, MemoryOK
  <2>2. CASE MzReply(t, "failure")
    BY <1>f, <2>1, <2>2, MzReplyTyped
  <2>3. CASE /\ HasBlueprint(old.name)
             /\ MzUpdate(t, [old EXCEPT !.pc = "c_lock", !.doc = blueprints[old.name]])
    <3> DEFINE r == [old EXCEPT !.pc = "c_lock", !.doc = blueprints[old.name]]
    <3>1. old.pc = "c_fetch" /\ old \in MzThread /\ old.name \in Names
      BY <1>1, MzFields DEF ConstructFetch, MzAt, MzHolds, HasName
    <3>2. blueprints[old.name] \in Docs
      BY <2>3, <3>1 DEF HasBlueprint, DbTypeOK
    <3>3. r \in MzThread /\ MzHolds(r)
      BY <3>1, <3>2 DEF MzThread, MzPcs, MzHolds, HasDoc, HasName
    <3> HIDE DEF r
    <3> QED
      BY <2>1, <2>3, <3>3, MzUpdateTyped DEF r
  <2> QED
    BY <1>1, <2>2, <2>3 DEF ConstructFetch
<1>2. CASE ConstructLock(t)
  <2> DEFINE r == [old EXCEPT !.pc = "c_embed"]
  <2>1. old.pc = "c_lock" /\ MzUpdate(t, r)
    BY <1>2 DEF ConstructLock, MzAt
  <2>2. r \in MzThread /\ MzHolds(r)
    BY <2>1, MzFields DEF MzThread, MzPcs, MzHolds, HasDoc, HasName
  <2>3. MzThreadsOK'
    BY <2>1, <2>2, MzUpdateTyped
  <2>4. Statement /\ Counted /\ MutexesOK' /\ MemoryOK'
    BY <1>2 DEF ConstructLock, Statement, Counted, dbVars, MutexesOK, MemoryOK
  <2> QED
    BY <2>3, <2>4
<1>3. CASE ConstructEmbed(t)
  <2>1. Statement /\ Counted
    BY <1>3 DEF ConstructEmbed, Answered, Lost, Statement, Counted
  <2>2. CASE MzReset
    BY <2>1, <2>2, MzResetTyped
  <2>3. CASE ConstructFail(t) /\ UNCHANGED memVni
    BY <1>x, <2>1, <2>3 DEF MemoryOK
  <2>4. CASE /\ MzUpdate(t, [old EXCEPT !.pc = "c_vni", !.todo = old.doc.nets])
             /\ UNCHANGED <<mtx, memVni>>
    <3> DEFINE r == [old EXCEPT !.pc = "c_vni", !.todo = old.doc.nets]
    <3>1. old.pc = "c_embed"
      BY <1>3 DEF ConstructEmbed, MzAt
    <3>2. /\ old \in MzThread /\ old.doc \in Docs /\ old.name \in Names
          /\ old.doc.nets \subseteq Nets
      BY <3>1, MzFields DEF HasDoc
    <3>3. r \in MzThread
      BY <3>2 DEF MzThread, MzPcs
    <3>4. MzHolds(r)
      BY <3>2 DEF MzThread, MzHolds, HasDoc, HasName
    <3>5. MzThreadsOK'
      BY <2>4, <3>3, <3>4, MzUpdateTyped
    <3> QED
      BY <2>1, <2>4, <3>5 DEF MutexesOK, MemoryOK
  <2> QED
    BY <1>3, <2>2, <2>3, <2>4 DEF ConstructEmbed
<1>4. CASE ConstructVni(t)
  <2>1. PICK net \in old.todo :
          \/ /\ Answered(InsertVxlan(net))
             /\ MzUpdate(t, [old EXCEPT !.pc = "c_mem", !.net = net, !.vni = vniSeq])
             /\ UNCHANGED mtx
          \/ Answered(RefuseVxlan(net)) /\ ConstructFail(t)
          \/ Lost(InsertVxlan(net) \/ RefuseVxlan(net)) /\ ConstructFail(t)
    BY <1>4 DEF ConstructVni
  <2>2. net \in Nets /\ old.pc = "c_vni"
    BY <1>4, MzFields DEF ConstructVni, MzAt
  <2>3. Statement /\ Counted /\ MemoryOK'
    BY <1>4, <2>1, <2>2 DEF ConstructVni, Answered, Lost, Statement, Counted, MemoryOK
  <2>4. CASE ConstructFail(t)
    BY <1>x, <2>3, <2>4
  <2>5. CASE /\ MzUpdate(t, [old EXCEPT !.pc = "c_mem", !.net = net, !.vni = vniSeq])
             /\ UNCHANGED mtx
    <3> DEFINE r == [old EXCEPT !.pc = "c_mem", !.net = net, !.vni = vniSeq]
    <3>1. /\ old \in MzThread /\ old.doc \in Docs /\ old.name \in Names
          /\ old.todo \subseteq old.doc.nets /\ vniSeq \in Nat
      BY <2>2, MzFields DEF HasDoc, MzHolds, DbTypeOK
    <3>2. r \in MzThread
      BY <2>2, <3>1 DEF MzThread, MzPcs
    <3>3. MzHolds(r)
      BY <2>2, <3>1 DEF MzThread, MzHolds, HasDoc, HasName
    <3>4. MzThreadsOK'
      BY <2>5, <3>2, <3>3, MzUpdateTyped
    <3> QED
      BY <2>3, <2>5, <3>4 DEF MutexesOK
  <2> QED
    BY <2>1, <2>4, <2>5
<1>5. CASE ConstructMem(t)
  <2> DEFINE r == [old EXCEPT !.pc = "c_vni", !.net = None, !.vni = 0,
                              !.todo = old.todo \ {old.net}]
  <2>1. old.pc = "c_mem" /\ MzUpdate(t, r)
    BY <1>5 DEF ConstructMem, MzAt
  <2>2. /\ old \in MzThread /\ old.doc \in Docs /\ old.name \in Names
        /\ old.todo \subseteq old.doc.nets
    BY <2>1, MzFields DEF HasDoc, MzHolds
  <2>3. MzThreadsOK'
    <3>1. r \in MzThread
      BY <2>2 DEF MzThread, MzPcs
    <3>2. MzHolds(r)
      BY <2>2 DEF MzThread, MzHolds, HasDoc, HasName
    <3> QED
      BY <2>1, <3>1, <3>2, MzUpdateTyped
  <2>4. Statement /\ Counted /\ MutexesOK'
    BY <1>5 DEF ConstructMem, Statement, Counted, dbVars, MutexesOK
  <2>5. MemoryOK'
    BY <1>5, MzFields DEF ConstructMem, MemoryOK
  <2> QED
    BY <2>3, <2>4, <2>5
<1>6. CASE ConstructSave(t)
  <2>1. old.pc = "c_vni"
    BY <1>6 DEF ConstructSave, MzAt
  <2>2. old.name \in Names /\ old.doc \in Docs
    BY <2>1, MzFields DEF HasDoc
  <2>3. Statement /\ Counted /\ MemoryOK'
    BY <1>6, <2>2 DEF ConstructSave, Answered, Lost, Statement, Counted, MemoryOK
  <2>4. MzThreadsOK' /\ MutexesOK'
    BY <1>6, <1>f, <1>x, MzReplyTyped, UnlockTyped DEF ConstructSave
  <2> QED
    BY <2>3, <2>4
<1> QED
  BY <1>1, <1>2, <1>3, <1>4, <1>5, <1>6 DEF ConstructStep

LEMMA DestructTyped ==
  ASSUME DbTypeOK, MzThreadsOK, MutexesOK, MemoryOK,
         NEW t \in MzThreads, DestructStep(t)
  PROVE  Statement /\ Counted /\ MzThreadsOK' /\ MutexesOK' /\ MemoryOK'
<1> DEFINE old == mzThr[t]
<1>f. "failure" \in MzReplies /\ "deconstructed" \in MzReplies
  BY DEF MzReplies
<1>m. MutexesOK' /\ MemoryOK'
  BY DEF DestructStep, DestructFetch, DestructTopo, DestructFree,
     DestructDelete, DestructPut, MutexesOK, MemoryOK
<1>1. CASE DestructFetch(t)
  <2>1. Statement /\ Counted
    BY <1>1 DEF DestructFetch, Answered, Lost, Statement, Counted
  <2>2. CASE MzReply(t, "failure")
    BY <1>f, <1>m, <2>1, <2>2, MzReplyTyped
  <2>3. CASE /\ Referenced(old.name)
             /\ MzUpdate(t, [old EXCEPT !.pc = "d_topo",
                                        !.doc = materializations[old.name]])
    <3> DEFINE r == [old EXCEPT !.pc = "d_topo", !.doc = materializations[old.name]]
    <3>1. old \in MzThread /\ old.name \in Names
      BY <1>1, MzFields DEF DestructFetch, MzAt, MzHolds, HasName
    <3>2. materializations[old.name] \in Docs
      BY <2>3, <3>1 DEF Referenced, DbTypeOK
    <3>3. r \in MzThread /\ MzHolds(r)
      BY <3>1, <3>2 DEF MzThread, MzPcs, MzHolds, HasDoc, HasName
    <3> HIDE DEF r
    <3> QED
      BY <1>m, <2>1, <2>3, <3>3, MzUpdateTyped DEF r
  <2> QED
    BY <1>1, <2>2, <2>3 DEF DestructFetch
<1>2. CASE DestructTopo(t)
  <2>1. Statement /\ Counted
    BY <1>2 DEF DestructTopo, Answered, Lost, Statement, Counted
  <2>2. CASE MzReply(t, "failure")
    BY <1>f, <1>m, <2>1, <2>2, MzReplyTyped
  <2>3. CASE MzUpdate(t, [old EXCEPT !.pc = "d_free", !.topo = hwTopology,
                                     !.todo = old.doc.nets])
    <3> DEFINE r == [old EXCEPT !.pc = "d_free", !.topo = hwTopology,
                                !.todo = old.doc.nets]
    <3>1. /\ old \in MzThread /\ old.doc \in Docs /\ old.name \in Names
          /\ old.doc.nets \subseteq Nets
      BY <1>2, MzFields DEF DestructTopo, MzAt, HasDoc
    <3>2. r \in MzThread
      BY <3>1 DEF MzThread, MzPcs, DbTypeOK
    <3>3. MzHolds(r)
      BY <3>1 DEF MzThread, MzHolds, HasDoc, HasName
    <3> HIDE DEF r
    <3> QED
      BY <1>m, <2>1, <2>3, <3>2, <3>3, MzUpdateTyped DEF r
  <2> QED
    BY <1>2, <2>2, <2>3 DEF DestructTopo
<1>3. CASE DestructFree(t)
  <2>1. PICK net \in old.todo :
          \/ /\ Answered(FreeVxlanVni(net))
             /\ MzUpdate(t, [old EXCEPT !.todo = old.todo \ {net}])
          \/ Lost(FreeVxlanVni(net)) /\ MzReply(t, "failure")
    BY <1>3 DEF DestructFree
  <2>2. old \in MzThread /\ MzHolds(old) /\ net \in Nets /\ old.pc = "d_free"
    BY <1>3, MzFields DEF DestructFree, MzAt
  <2>3. Statement /\ Counted
    BY <2>1, <2>2 DEF Answered, Lost, Statement, Counted
  <2>4. CASE MzReply(t, "failure")
    BY <1>f, <1>m, <2>3, <2>4, MzReplyTyped
  <2>5. CASE MzUpdate(t, [old EXCEPT !.todo = old.todo \ {net}])
    <3> DEFINE r == [old EXCEPT !.todo = old.todo \ {net}]
    <3>1. r \in MzThread
      BY <2>2 DEF MzThread
    <3>2. MzHolds(r)
      BY <2>2 DEF MzThread, MzHolds, HasDoc, HasName
    <3> HIDE DEF r
    <3> QED
      BY <1>m, <2>3, <2>5, <3>1, <3>2, MzUpdateTyped DEF r
  <2> QED
    BY <2>1, <2>4, <2>5
<1>4. CASE DestructDelete(t)
  <2>1. old \in MzThread /\ MzHolds(old) /\ old.name \in Names /\ old.pc = "d_free"
    BY <1>4, MzFields DEF DestructDelete, MzAt, HasDoc
  <2>2. Statement /\ Counted
    BY <1>4, <2>1 DEF DestructDelete, Answered, Lost, Statement, Counted
  <2>3. CASE MzReply(t, "failure")
    BY <1>f, <1>m, <2>2, <2>3, MzReplyTyped
  <2>4. CASE MzUpdate(t, [old EXCEPT !.pc = "d_put"])
    <3> DEFINE r == [old EXCEPT !.pc = "d_put"]
    <3>1. r \in MzThread /\ MzHolds(r)
      BY <2>1 DEF MzThread, MzPcs, MzHolds, HasDoc, HasName
    <3> HIDE DEF r
    <3> QED
      BY <1>m, <2>2, <2>4, <3>1, MzUpdateTyped DEF r
  <2> QED
    BY <1>4, <2>3, <2>4 DEF DestructDelete
<1>5. CASE DestructPut(t)
  <2>1. Statement /\ Counted
    BY <1>5, MzFields DEF DestructPut, Answered, Lost, Statement, Counted
  <2>2. \E r \in MzReplies : MzReply(t, r)
    BY <1>5, <1>f DEF DestructPut
  <2> QED
    BY <1>m, <2>1, <2>2, MzReplyTyped
<1> QED
  BY <1>1, <1>2, <1>3, <1>4, <1>5 DEF DestructStep

LEMMA MzTyped ==
  ASSUME Typed, NEW t \in MzThreads, MzStep(t)
  PROVE  Statement /\ Counted /\ MzThreadsOK' /\ MutexesOK' /\ MemoryOK'
<1>0. DbTypeOK /\ MzThreadsOK /\ MutexesOK /\ MemoryOK
  BY DEF Typed, TypeOK, Handlers, MzTypeOK, MzThreadsOK, MutexesOK, MemoryOK
<1>1. CASE ConstructStep(t)
  BY <1>0, <1>1, ConstructTyped
<1>2. CASE DestructStep(t)
  BY <1>0, <1>2, DestructTyped
<1>3. CASE Topo(t) \/ Info(t) \/ MzList(t) \/ Status(t)
  <2>1. MutexesOK' /\ MemoryOK'
    BY <1>0, <1>3 DEF Topo, Info, MzList, Status, MzRead, MutexesOK, MemoryOK
  <2>2. \E r \in MzReplies : MzReply(t, r)
    BY <1>3 DEF Topo, Info, MzList, Status, MzRead, MzReplies
  <2>3. Statement /\ Counted
    BY <1>0, <1>3, MzFields
    DEF Topo, Info, MzList, Status, MzRead, Answered, Lost, Statement, Counted
  <2> QED
    BY <1>0, <2>1, <2>2, <2>3, MzReplyTyped
<1>4. CASE MzRespond(t)
  <2>1. MzIdle \in MzThread /\ MzHolds(MzIdle)
    BY DEF MzIdle, MzRecord, MzThread, MzPcs, MzReplies, MzHolds, HasDoc, HasName
  <2>2. Statement /\ Counted /\ MutexesOK' /\ MemoryOK'
    BY <1>0, <1>4 DEF MzRespond, dbVars, Statement, Counted, MutexesOK, MemoryOK
  <2> QED
    BY <1>0, <1>4, <2>1, <2>2, MzUpdateTyped DEF MzRespond
<1> QED
  BY <1>1, <1>2, <1>3, <1>4 DEF MzStep

-----------------------------------------------------------------------------
(* Every step of the specification.                                        *)

LEMMA BpRequestTyped ==
  ASSUME Typed, BpRequestArrives
  PROVE  Typed'
<1>1. PICK t \in BpThreads : BpRequest(t)
  BY DEF BpRequestArrives
<1>2. PICK pc \in {"save", "get", "check", "list", "del_check"}, n \in Names,
           d \in Docs \cup {None} :
        (pc = "save" => d \in Docs) /\ BpAccept(t, pc, n, d)
  BY <1>1 DEF BpRequest, Doc
<1> DEFINE r == [pc |-> pc, name |-> n, doc |-> d, reply |-> "none"]
<1>3. r \in BpThread /\ BpHolds(r)
  BY <1>2 DEF BpThread, BpPcs, BpReplies, BpHolds
<1>4. BpTypeOK' /\ \A u \in BpThreads : BpHolds(bpThr'[u])
  <2> HIDE DEF r
  <2> QED
    BY <1>2, <1>3 DEF BpAccept, BpTypeOK, Typed, TypeOK, Handlers, r
<1>5. requests' \in 0..MaxRequests
  BY DEF BpRequestArrives, OneMoreRequest, Typed, TypeOK
<1>6. UNCHANGED <<dbVars, mzVars, kills>>
  BY <1>2 DEF BpAccept, BpRequestArrives
<1> QED
  BY <1>4, <1>5, <1>6 DEF Typed, TypeOK, Handlers, DbTypeOK, MzTypeOK, dbVars,
     tables, mzVars

LEMMA MzRequestTyped ==
  ASSUME Typed, MzRequestArrives
  PROVE  Typed'
<1>0. MzThreadsOK
  BY DEF Typed, TypeOK, Handlers, MzTypeOK, MzThreadsOK
<1>1. PICK t \in MzThreads : MzRequest(t)
  BY DEF MzRequestArrives
<1>2. PICK r : /\ r \in MzThread /\ MzHolds(r)
               /\ MzUpdate(t, r) /\ UNCHANGED <<mzUp, mtx, memVni, dbVars>>
  <2>1. ASSUME NEW n \in Names,
               NEW pc \in {"c_fetch", "d_fetch", "info", "list", "status"},
               MzAccept(t, pc, n, NoTopo)
        PROVE  \E r : /\ r \in MzThread /\ MzHolds(r)
                      /\ MzUpdate(t, r) /\ UNCHANGED <<mzUp, mtx, memVni, dbVars>>
    <3>1. MzRecord(pc, n, NoTopo) \in MzThread /\ MzHolds(MzRecord(pc, n, NoTopo))
      BY DEF MzRecord, MzThread, MzPcs, MzReplies, MzHolds, HasDoc, HasName
    <3> QED
      BY <2>1, <3>1 DEF MzAccept
  <2>2. ASSUME NEW tp \in Topos, MzAccept(t, "topo", None, tp)
        PROVE  \E r : /\ r \in MzThread /\ MzHolds(r)
                      /\ MzUpdate(t, r) /\ UNCHANGED <<mzUp, mtx, memVni, dbVars>>
    <3>1. MzRecord("topo", None, tp) \in MzThread /\ MzHolds(MzRecord("topo", None, tp))
      BY DEF MzRecord, MzThread, MzPcs, MzReplies, MzHolds, HasDoc, HasName
    <3> QED
      BY <2>2, <3>1 DEF MzAccept
  <2> QED
    BY <1>1, <2>1, <2>2 DEF MzRequest
<1>3. MzThreadsOK'
  BY <1>0, <1>2, MzUpdateTyped
<1>4. requests' \in 0..MaxRequests
  BY DEF MzRequestArrives, OneMoreRequest, Typed, TypeOK
<1>5. UNCHANGED <<bpVars, kills>>
  BY DEF MzRequestArrives
<1> QED
  BY <1>2, <1>3, <1>4, <1>5 DEF Typed, TypeOK, Handlers, DbTypeOK, MzTypeOK,
     BpTypeOK, MzThreadsOK, dbVars, tables, bpVars

LEMMA NextTyped == Typed /\ [Next]_vars => Typed'
<1> SUFFICES ASSUME Typed, [Next]_vars PROVE Typed'
  OBVIOUS
<1>0. DbTypeOK
  BY DEF Typed, TypeOK
<1>1. CASE BpRequestArrives
  BY <1>1, BpRequestTyped
<1>2. CASE MzRequestArrives
  BY <1>2, MzRequestTyped
<1>3. ASSUME NEW t \in BpThreads, BpWorks(t) PROVE Typed'
  <2>1. DbTypeOK' /\ BpTypeOK' /\ \A u \in BpThreads : BpHolds(bpThr'[u])
    BY <1>0, <1>3, BpTyped, StatementTyped DEF BpWorks
  <2> QED
    BY <1>3, <2>1 DEF BpWorks, mzVars, env, Typed, TypeOK, Handlers, MzTypeOK
<1>4. ASSUME NEW t \in MzThreads, MzWorks(t) PROVE Typed'
  <2>1. DbTypeOK' /\ MzThreadsOK' /\ MutexesOK' /\ MemoryOK'
    BY <1>0, <1>4, MzTyped, StatementTyped DEF MzWorks
  <2>2. mzUp' \in BOOLEAN
    BY <1>4 DEF MzWorks, MzStep, ConstructStep, DestructStep, ConstructFetch,
       ConstructLock, ConstructEmbed, ConstructVni, ConstructMem, ConstructSave,
       DestructFetch, DestructTopo, DestructFree, DestructDelete, DestructPut,
       Topo, Info, MzList, Status, MzRead, MzRespond, Typed, TypeOK, MzTypeOK
  <2> QED
    BY <1>4, <2>1, <2>2 DEF MzWorks, bpVars, env, Typed, TypeOK, Handlers,
       BpTypeOK, MzTypeOK, MzThreadsOK, MutexesOK, MemoryOK
<1>5. CASE Kill
  <2>1. kills' \in 0..MaxKills /\ requests' = requests
    BY <1>5 DEF Kill, Typed, TypeOK
  <2>2. CASE BpKill /\ UNCHANGED mzVars
    BY <2>1, <2>2 DEF BpKill, mzVars, dbVars, tables, Typed, TypeOK, Handlers,
       DbTypeOK, BpTypeOK, MzTypeOK, BpIdle, BpThread, BpPcs, BpReplies, BpHolds
  <2>3. CASE MzKill /\ UNCHANGED bpVars
    <3>1. MzThreadsOK' /\ MutexesOK' /\ MemoryOK'
      BY <2>3, MzResetTyped DEF MzKill
    <3> QED
      BY <2>1, <2>3, <3>1 DEF MzKill, bpVars, dbVars, tables, Typed, TypeOK,
         Handlers, DbTypeOK, BpTypeOK, MzTypeOK, MzThreadsOK, MutexesOK, MemoryOK
  <2> QED
    BY <1>5, <2>2, <2>3 DEF Kill
<1>6. CASE Restart
  BY <1>6 DEF Restart, BpStart, MzStart, bpVars, mzVars, env, dbVars, tables,
     Typed, TypeOK, Handlers, DbTypeOK, BpTypeOK, MzTypeOK
<1>7. CASE UNCHANGED vars
  BY <1>7 DEF vars, bpVars, mzVars, env, dbVars, tables, Typed, TypeOK,
     Handlers, DbTypeOK, BpTypeOK, MzTypeOK
<1> QED
  BY <1>1, <1>2, <1>3, <1>4, <1>5, <1>6, <1>7 DEF Next, Quiet

LEMMA NextIsStatement ==
  ASSUME Typed, [Next]_vars
  PROVE  Statement /\ Counted
<1>1. ASSUME NEW t \in BpThreads, BpWorks(t) PROVE Statement /\ Counted
  BY <1>1, BpTyped DEF BpWorks
<1>2. ASSUME NEW t \in MzThreads, MzWorks(t) PROVE Statement /\ Counted
  BY <1>2, MzTyped DEF MzWorks
<1>3. CASE BpRequestArrives \/ MzRequestArrives
  BY <1>3 DEF BpRequestArrives, BpRequest, BpAccept, MzRequestArrives,
     MzRequest, MzAccept, dbVars, Statement, Counted
<1>4. CASE Kill \/ Restart \/ UNCHANGED vars
  BY <1>4 DEF Kill, BpKill, MzKill, Restart, BpStart, MzStart, vars, dbVars,
     Statement, Counted
<1> QED
  BY <1>1, <1>2, <1>3, <1>4 DEF Next, Quiet

LEMMA TypedAlways == Spec => []Typed
BY InitTyped, NextTyped, PTL DEF Spec

\* Every variable stays in its domain, and a thread in a handler holds the
\* name and the document its next statement needs.
THEOREM TypeCorrect == Spec => []TypeOK
<1>1. Typed => TypeOK
  BY DEF Typed
<1> QED
  BY <1>1, TypedAlways, PTL

-----------------------------------------------------------------------------
(* Materializations and blueprints.                                        *)

LEMMA StatementKeepsParents ==
  ASSUME DbTypeOK, NoOrphanMaterialization, Statement
  PROVE  NoOrphanMaterialization'
<1> USE DEF DbTypeOK, NoOrphanMaterialization
<1>1. ASSUME NEW d \in Docs, SaveBlueprint(d) PROVE NoOrphanMaterialization'
  BY <1>1 DEF SaveBlueprint
<1>2. ASSUME NEW n \in Names, DeleteBlueprintRow(n) PROVE NoOrphanMaterialization'
  BY <1>2 DEF DeleteBlueprintRow, Referenced
<1>3. ASSUME NEW n \in Names, NEW d \in Docs, SaveMaterialization(n, d)
      PROVE  NoOrphanMaterialization'
  BY <1>3 DEF SaveMaterialization, HasBlueprint
<1>4. ASSUME NEW n \in Names, DeleteMaterialization(n)
      PROVE  NoOrphanMaterialization'
  BY <1>4 DEF DeleteMaterialization
<1>5. CASE UNCHANGED <<blueprints, materializations>>
  BY <1>5
<1> QED
  BY <1>1, <1>2, <1>3, <1>4, <1>5
  DEF Statement, SetHwTopo, InsertVxlan, RefuseVxlan, FreeVxlanVni, tables

\* No materialization outlives its blueprint: deleteBlueprint checks first and
\* deletes in a second statement, and what construct saved in between is seen
\* by the foreign key.
THEOREM NoOrphan == Spec => []NoOrphanMaterialization
<1>1. Init => NoOrphanMaterialization
  BY DEF Init, DbInit, NoOrphanMaterialization
<1>2. Typed /\ NoOrphanMaterialization /\ [Next]_vars => NoOrphanMaterialization'
  BY NextIsStatement, StatementKeepsParents DEF Typed, TypeOK
<1> QED
  BY <1>1, <1>2, TypedAlways, PTL DEF Spec

-----------------------------------------------------------------------------
(* The life of a blueprint.                                                *)

stageNow == [n \in Names |-> Stage(n)]

LEMMA StatementIsLifeStep ==
  ASSUME DbTypeOK, NoOrphanMaterialization, Statement
  PROVE  [Life!Next]_stageNow
<1> USE DEF DbTypeOK, Stage, stageNow
<1>0. \A n \in Names : stageNow'[n] = Stage(n)'
  OBVIOUS
<1>1. ASSUME NEW d \in Docs, SaveBlueprint(d) PROVE [Life!Next]_stageNow
  <2>1. d.name \in Names
    BY DEF Doc
  <2>2. \A n \in Names \ {d.name} : Stage(n)' = Stage(n)
    BY <1>1 DEF SaveBlueprint
  <2>3. CASE Stage(d.name) = "absent"
    <3>1. Stage(d.name)' = "saved"
      BY <1>1, <2>1, <2>3 DEF SaveBlueprint
    <3>2. stageNow' = [stageNow EXCEPT ![d.name] = "saved"]
      BY <2>1, <2>2, <3>1
    <3> QED
      BY <2>1, <2>3, <3>2 DEF Life!Next, Life!SaveBlueprint, Life!Move
  <2>4. CASE Stage(d.name) # "absent"
    <3>1. Stage(d.name)' = Stage(d.name)
      BY <1>1, <2>1, <2>4 DEF SaveBlueprint
    <3> QED
      BY <2>2, <3>1
  <2> QED
    BY <2>3, <2>4
<1>2. ASSUME NEW n \in Names, DeleteBlueprintRow(n) PROVE [Life!Next]_stageNow
  <2>1. \A m \in Names \ {n} : Stage(m)' = Stage(m)
    BY <1>2 DEF DeleteBlueprintRow
  <2>2. Stage(n)' = "absent" /\ Stage(n) \in {"absent", "saved"}
    BY <1>2 DEF DeleteBlueprintRow, Referenced
  <2>3. stageNow' = [stageNow EXCEPT ![n] = "absent"]
    BY <2>1, <2>2
  <2>4. CASE Stage(n) = "saved"
    BY <2>3, <2>4 DEF Life!Next, Life!DeleteBlueprint, Life!Move
  <2>5. CASE Stage(n) = "absent"
    BY <2>3, <2>5
  <2> QED
    BY <2>2, <2>4, <2>5
<1>3. ASSUME NEW n \in Names, NEW d \in Docs, SaveMaterialization(n, d)
      PROVE  [Life!Next]_stageNow
  <2>1. \A m \in Names \ {n} : Stage(m)' = Stage(m)
    BY <1>3 DEF SaveMaterialization
  <2>2. Stage(n)' = "materialized" /\ Stage(n) \in {"saved", "materialized"}
    BY <1>3 DEF SaveMaterialization, HasBlueprint
  <2>3. stageNow' = [stageNow EXCEPT ![n] = "materialized"]
    BY <2>1, <2>2
  <2>4. CASE Stage(n) = "saved"
    BY <2>3, <2>4 DEF Life!Next, Life!Construct, Life!Move
  <2>5. CASE Stage(n) = "materialized"
    BY <2>3, <2>5
  <2> QED
    BY <2>2, <2>4, <2>5
<1>4. ASSUME NEW n \in Names, DeleteMaterialization(n)
      PROVE  [Life!Next]_stageNow
  <2>1. \A m \in Names \ {n} : Stage(m)' = Stage(m)
    BY <1>4 DEF DeleteMaterialization
  <2>2. CASE Stage(n) = "materialized"
    <3>1. Stage(n)' = "saved"
      BY <1>4, <2>2 DEF DeleteMaterialization, NoOrphanMaterialization
    <3>2. stageNow' = [stageNow EXCEPT ![n] = "saved"]
      BY <2>1, <3>1
    <3> QED
      BY <2>2, <3>2 DEF Life!Next, Life!Destruct, Life!Move
  <2>3. CASE Stage(n) # "materialized"
    <3>1. Stage(n)' = Stage(n)
      BY <1>4, <2>3 DEF DeleteMaterialization
    <3> QED
      BY <2>1, <3>1
  <2> QED
    BY <2>2, <2>3
<1>5. CASE UNCHANGED <<blueprints, materializations>>
  BY <1>5
<1> QED
  BY <1>1, <1>2, <1>3, <1>4, <1>5
  DEF Statement, SetHwTopo, InsertVxlan, RefuseVxlan, FreeVxlanVni, tables

\* The two services implement BlueprintLife: every step of theirs, with its
\* lost statements and stopped containers, is a step of it or a stutter.
THEOREM Refinement == Spec => ImplementsBlueprintLife
<1>1. Init => Life!Init
  BY DEF Init, DbInit, Life!Init, Life!Stages, Stage
<1>2. Typed /\ NoOrphanMaterialization /\ [Next]_vars => [Life!Next]_stageNow
  BY NextIsStatement, StatementIsLifeStep DEF Typed, TypeOK
<1> QED
  BY <1>1, <1>2, TypedAlways, NoOrphan, PTL
  DEF Spec, ImplementsBlueprintLife, Life!Spec, stageNow

=============================================================================
