----------------------- MODULE MaterializationService -----------------------
(***************************************************************************)
(* core/materialization-service.cxx: the construct, destruct, info, list,  *)
(* topo and status handlers, the map of in-memory materializations         *)
(* (core/materialization.cxx) with its mutex per blueprint document, and   *)
(* the part of embed() (core/embed.cxx) that decides how construct goes on.*)
(*                                                                         *)
(* Hosts are not contacted in this module because the code never gets      *)
(* there: embed() starts from an empty chart, and the topology it is given *)
(* was parsed from JSON.  Host::json and Switch::json write no id, so      *)
(* fromJson draws fresh ones while the links keep the old ones, and no     *)
(* host is connected to any switch (TestbedTopology::connectedHosts).      *)
(* destruct, too, looks for hosts in an empty chart.                       *)
(***************************************************************************)
EXTENDS Database

CONSTANTS
  MzThreads,          \* worker threads of the service's HttpsServer
  NoThread,           \* nobody holds the mutex
  Switched            \* the topologies with at least one switch

ASSUME MzAssumption == NoThread \notin MzThreads /\ Switched \subseteq Topos

VARIABLES
  mzUp,               \* the process runs
  mzThr,              \* what each worker thread is doing
  mtx,                \* DocIds -> owner of Materialization::mtx
  memVni              \* DocIds -> networks -> NetworkMzInfo::vni, 0 if unset

mzVars == <<mzUp, mzThr, mtx, memVni>>

MzPcs == {"idle", "c_fetch", "c_lock", "c_embed", "c_vni", "c_mem",
          "d_fetch", "d_topo", "d_free", "d_put",
          "info", "list", "topo", "status", "done"}

MzReplies == {"none", "constructed", "deconstructed", "found", "listed",
              "topo", "status", "failure"}

\* todo: networks still to be given, or to lose, their vni.
\* net, vni: the row newVxlanVni has just inserted.
MzThread == [pc : MzPcs, name : Names \cup {None}, doc : Docs \cup {None},
             topo : Topos \cup {NoTopo}, todo : SUBSET Nets,
             net : Nets \cup {None}, vni : Nat, reply : MzReplies]

MzRecord(pc, n, tp) ==
  [pc |-> pc, name |-> n, doc |-> None, topo |-> tp, todo |-> {},
   net |-> None, vni |-> 0, reply |-> "none"]

MzIdle == MzRecord("idle", None, NoTopo)

NoVnis == [i \in DocIds |-> [net \in Nets |-> 0]]

MzTypeOK ==
  /\ mzUp \in BOOLEAN
  /\ mzThr \in [MzThreads -> MzThread]
  /\ mtx \in [DocIds -> MzThreads \cup {NoThread}]
  /\ memVni \in [DocIds -> [Nets -> Nat]]

MzReset ==
  /\ mzThr' = [t \in MzThreads |-> MzIdle]
  /\ mtx' = [i \in DocIds |-> NoThread]
  /\ memVni' = NoVnis

MzInit ==
  /\ mzUp = TRUE
  /\ mzThr = [t \in MzThreads |-> MzIdle]
  /\ mtx = [i \in DocIds |-> NoThread]
  /\ memVni = NoVnis

MzAt(t, pc) == mzUp /\ mzThr[t].pc = pc

MzUpdate(t, r) == mzThr' = [mzThr EXCEPT ![t] = r]

MzReply(t, r) == MzUpdate(t, [mzThr[t] EXCEPT !.pc = "done", !.reply = r])

\* A handler whose single statement only reads.
MzRead(t, r) ==
  /\ \/ Answered(UNCHANGED tables) /\ MzReply(t, r)
     \/ Lost(UNCHANGED tables) /\ MzReply(t, "failure")
  /\ UNCHANGED <<mzUp, mtx, memVni>>

-----------------------------------------------------------------------------
(* Requests.                                                               *)

MzAccept(t, pc, n, tp) ==
  /\ MzAt(t, "idle")
  /\ MzUpdate(t, MzRecord(pc, n, tp))
  /\ UNCHANGED <<mzUp, mtx, memVni, dbVars>>

MzRequest(t) ==
  \/ \E n \in Names, pc \in {"c_fetch", "d_fetch", "info", "list", "status"} :
       MzAccept(t, pc, n, NoTopo)
  \/ \E tp \in Topos : MzAccept(t, "topo", None, tp)

-----------------------------------------------------------------------------
(* construct                                                               *)

ConstructFetch(t) ==
  /\ MzAt(t, "c_fetch")
  /\ LET n == mzThr[t].name
     IN  \/ /\ Answered(UNCHANGED tables)
            /\ IF HasBlueprint(n)
               THEN MzUpdate(t, [mzThr[t] EXCEPT !.pc = "c_lock",
                                                 !.doc = blueprints[n]])
               ELSE MzReply(t, "failure")
         \/ Lost(UNCHANGED tables) /\ MzReply(t, "failure")
  /\ UNCHANGED <<mzUp, mtx, memVni>>

\* mzm.get(bp.id()) and lock_guard{mzn.mtx}: a thread that finds the mutex
\* taken blocks here, and keeps its server thread.
BugNoLock(i) == TRUE

LockFree(i) == mtx[i] = NoThread

ConstructLock(t) ==
  /\ MzAt(t, "c_lock")
  /\ LockFree(mzThr[t].doc.id)
  /\ mtx' = [mtx EXCEPT ![mzThr[t].doc.id] = t]
  /\ MzUpdate(t, [mzThr[t] EXCEPT !.pc = "c_embed"])
  /\ UNCHANGED <<mzUp, memVni, dbVars>>

Unlock(t) == mtx' = [mtx EXCEPT ![mzThr[t].doc.id] = NoThread]

\* Mutant: the mutex is locked and unlocked by hand, and not on this path.
BugKeepsLock(t) == UNCHANGED mtx /\ MzReply(t, "failure")

\* An exception inside the critical section: the guard releases the mutex on
\* the way to the catch.
ConstructFail(t) == Unlock(t) /\ MzReply(t, "failure")

\* What embed() does with a document over a topology read from the database:
\* with nothing attached to a network there is nothing to place; otherwise the
\* loop over the switches takes front() of an empty vector of hosts, which
\* ends the process, and without switches "embedding failed" is thrown.
EmbedOutcome(d, tp) ==
  CASE ~ d.attached                      -> "embedded"
    [] d.attached /\ tp \in Switched     -> "crash"
    [] d.attached /\ tp \notin Switched  -> "throws"

\* fetchHwTopo, then embed().  Interface addresses are set on the thread's own
\* copy of the blueprint.
ConstructEmbed(t) ==
  /\ MzAt(t, "c_embed")
  /\ \/ /\ Answered(UNCHANGED tables)
        /\ hwTopology # NoTopo
        /\ EmbedOutcome(mzThr[t].doc, hwTopology) = "embedded"
        /\ MzUpdate(t, [mzThr[t] EXCEPT !.pc = "c_vni", !.todo = mzThr[t].doc.nets])
        /\ UNCHANGED <<mzUp, mtx, memVni>>
     \/ /\ Answered(UNCHANGED tables)
        /\ \/ hwTopology = NoTopo
           \/ EmbedOutcome(mzThr[t].doc, hwTopology) = "throws"
        /\ ConstructFail(t)
        /\ UNCHANGED <<mzUp, memVni>>
     \/ /\ Answered(UNCHANGED tables)
        /\ hwTopology # NoTopo
        /\ EmbedOutcome(mzThr[t].doc, hwTopology) = "crash"
        /\ mzUp' = FALSE
        /\ MzReset
     \/ /\ Lost(UNCHANGED tables)
        /\ ConstructFail(t)
        /\ UNCHANGED <<mzUp, memVni>>

\* newVxlanVni for the next network, in the order of an unordered_map.
ConstructVni(t) ==
  /\ MzAt(t, "c_vni")
  /\ \E net \in mzThr[t].todo :
       \/ /\ Answered(InsertVxlan(net))
          /\ MzUpdate(t, [mzThr[t] EXCEPT !.pc = "c_mem", !.net = net, !.vni = vniSeq])
          /\ UNCHANGED mtx
       \/ Answered(RefuseVxlan(net)) /\ ConstructFail(t)
       \/ Lost(InsertVxlan(net) \/ RefuseVxlan(net)) /\ ConstructFail(t)
  /\ UNCHANGED <<mzUp, memVni>>

\* mzn.networks[n.id()].vni = the number returned.
ConstructMem(t) ==
  /\ MzAt(t, "c_mem")
  /\ memVni' = [memVni EXCEPT ![mzThr[t].doc.id][mzThr[t].net] = mzThr[t].vni]
  /\ MzUpdate(t, [mzThr[t] EXCEPT !.pc = "c_vni", !.net = None, !.vni = 0,
                                  !.todo = @ \ {mzThr[t].net}])
  /\ UNCHANGED <<mzUp, mtx, dbVars>>

\* Every network has its number: saveMaterialization under the requested name,
\* then the guard goes out of scope.
ConstructSave(t) ==
  /\ MzAt(t, "c_vni")
  /\ mzThr[t].todo = {}
  /\ LET n == mzThr[t].name
         stmt == SaveMaterialization(n, mzThr[t].doc)
     IN  \/ Answered(stmt) /\ Unlock(t) /\ MzReply(t, "constructed")
         \/ /\ ~ HasBlueprint(n)
            /\ Answered(UNCHANGED tables)
            /\ ConstructFail(t)
         \/ Lost(stmt) /\ ConstructFail(t)
  /\ UNCHANGED <<mzUp, memVni>>

-----------------------------------------------------------------------------
(* destruct: no mutex is taken.                                            *)

DestructFetch(t) ==
  /\ MzAt(t, "d_fetch")
  /\ LET n == mzThr[t].name
     IN  \/ /\ Answered(UNCHANGED tables)
            /\ IF Referenced(n)
               THEN MzUpdate(t, [mzThr[t] EXCEPT !.pc = "d_topo",
                                                 !.doc = materializations[n]])
               ELSE MzReply(t, "failure")
         \/ Lost(UNCHANGED tables) /\ MzReply(t, "failure")
  /\ UNCHANGED <<mzUp, mtx, memVni>>

DestructTopo(t) ==
  /\ MzAt(t, "d_topo")
  /\ \/ /\ Answered(UNCHANGED tables)
        /\ IF hwTopology # NoTopo
           THEN MzUpdate(t, [mzThr[t] EXCEPT !.pc = "d_free", !.topo = hwTopology,
                                             !.todo = mzThr[t].doc.nets])
           ELSE MzReply(t, "failure")
     \/ Lost(UNCHANGED tables) /\ MzReply(t, "failure")
  /\ UNCHANGED <<mzUp, mtx, memVni>>

\* Mutant: the loop over the networks stops after the first one.
BugFreesOne(t) ==
  /\ MzAt(t, "d_free")
  /\ \E net \in mzThr[t].todo :
       \/ /\ Answered(FreeVxlanVni(net))
          /\ MzUpdate(t, [mzThr[t] EXCEPT !.todo = {}])
       \/ Lost(FreeVxlanVni(net)) /\ MzReply(t, "failure")
  /\ UNCHANGED <<mzUp, mtx, memVni>>

\* freeVxlanVni for the next network: by network id, whoever inserted the row.
DestructFree(t) ==
  /\ MzAt(t, "d_free")
  /\ \E net \in mzThr[t].todo :
       \/ /\ Answered(FreeVxlanVni(net))
          /\ MzUpdate(t, [mzThr[t] EXCEPT !.todo = @ \ {net}])
       \/ Lost(FreeVxlanVni(net)) /\ MzReply(t, "failure")
  /\ UNCHANGED <<mzUp, mtx, memVni>>

\* Every number is free: deleteMaterialization.
DestructDelete(t) ==
  /\ MzAt(t, "d_free")
  /\ mzThr[t].todo = {}
  /\ LET stmt == DeleteMaterialization(mzThr[t].name)
     IN  \/ Answered(stmt) /\ MzUpdate(t, [mzThr[t] EXCEPT !.pc = "d_put"])
         \/ Lost(stmt) /\ MzReply(t, "failure")
  /\ UNCHANGED <<mzUp, mtx, memVni>>

\* setHwTopo of the topology read in DestructTopo.
DestructPut(t) ==
  /\ MzAt(t, "d_put")
  /\ LET stmt == SetHwTopo(mzThr[t].topo)
     IN  \/ Answered(stmt) /\ MzReply(t, "deconstructed")
         \/ Lost(stmt) /\ MzReply(t, "failure")
  /\ UNCHANGED <<mzUp, mtx, memVni>>

-----------------------------------------------------------------------------
(* topo, and the handlers that only read.                                  *)

Topo(t) ==
  /\ MzAt(t, "topo")
  /\ LET stmt == SetHwTopo(mzThr[t].topo)
     IN  \/ Answered(stmt) /\ MzReply(t, "topo")
         \/ Lost(stmt) /\ MzReply(t, "failure")
  /\ UNCHANGED <<mzUp, mtx, memVni>>

Info(t) ==
  /\ MzAt(t, "info")
  /\ MzRead(t, IF Referenced(mzThr[t].name) THEN "found" ELSE "failure")

MzList(t) == MzAt(t, "list") /\ MzRead(t, "listed")

Status(t) ==
  /\ MzAt(t, "status")
  /\ MzRead(t, IF hwTopology # NoTopo THEN "status" ELSE "failure")

MzRespond(t) ==
  /\ MzAt(t, "done")
  /\ MzUpdate(t, MzIdle)
  /\ UNCHANGED <<mzUp, mtx, memVni, dbVars>>

ConstructStep(t) ==
  \/ ConstructFetch(t) \/ ConstructLock(t) \/ ConstructEmbed(t)
  \/ ConstructVni(t) \/ ConstructMem(t) \/ ConstructSave(t)

DestructStep(t) ==
  \/ DestructFetch(t) \/ DestructTopo(t) \/ DestructFree(t)
  \/ DestructDelete(t) \/ DestructPut(t)

MzStep(t) ==
  \/ ConstructStep(t) \/ DestructStep(t)
  \/ Topo(t) \/ Info(t) \/ MzList(t) \/ Status(t)
  \/ MzRespond(t)

-----------------------------------------------------------------------------
(* The process dies, and the operator starts it again: memory is lost.     *)

MzKill ==
  /\ mzUp
  /\ mzUp' = FALSE
  /\ MzReset
  /\ UNCHANGED dbVars

MzStart ==
  /\ ~ mzUp
  /\ mzUp' = TRUE
  /\ UNCHANGED <<mzThr, mtx, memVni, dbVars>>

=============================================================================
