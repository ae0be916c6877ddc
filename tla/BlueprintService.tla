-------------------------- MODULE BlueprintService --------------------------
(***************************************************************************)
(* core/blueprint-service.cxx: the save, get, check, delete and list       *)
(* handlers, each run by one thread of the HTTPS server from the request   *)
(* to the response.  A thread is between two database statements whenever  *)
(* another one of this service, or of the materialization service, moves.  *)
(***************************************************************************)
EXTENDS Database

CONSTANT BpThreads     \* worker threads of the service's HttpsServer

VARIABLES
  bpUp,                \* the process runs
  bpThr                \* what each worker thread is doing

bpVars == <<bpUp, bpThr>>

BpPcs == {"idle", "save", "get", "check", "list", "del_check", "del_row", "done"}

BpReplies == {"none", "saved", "found", "checked", "listed", "deleted",
              "active", "unknown", "failure"}

BpThread == [pc : BpPcs, name : Names \cup {None}, doc : Docs \cup {None},
             reply : BpReplies]

BpIdle == [pc |-> "idle", name |-> None, doc |-> None, reply |-> "none"]

BpTypeOK == bpUp \in BOOLEAN /\ bpThr \in [BpThreads -> BpThread]

BpInit == bpUp = TRUE /\ bpThr = [t \in BpThreads |-> BpIdle]

BpAt(t, pc) == bpUp /\ bpThr[t].pc = pc

BpGoto(t, pc) == bpThr' = [bpThr EXCEPT ![t].pc = pc] /\ UNCHANGED bpUp

BpReply(t, r) ==
  /\ bpThr' = [bpThr EXCEPT ![t].pc = "done", ![t].reply = r]
  /\ UNCHANGED bpUp

\* A statement that only reads, the reply when it is answered, and
\* unexpectedFailure when the connection breaks.
BpRead(t, r) ==
  \/ Answered(UNCHANGED tables) /\ BpReply(t, r)
  \/ Lost(UNCHANGED tables) /\ BpReply(t, "failure")

-----------------------------------------------------------------------------
(* Requests.                                                               *)

BpAccept(t, pc, n, d) ==
  /\ BpAt(t, "idle")
  /\ bpThr' = [bpThr EXCEPT ![t] =
                 [pc |-> pc, name |-> n, doc |-> d, reply |-> "none"]]
  /\ UNCHANGED <<bpUp, dbVars>>

\* The name is the one inside the document: source.at("name").
BpRequest(t) ==
  \/ \E d \in Docs : BpAccept(t, "save", d.name, d)
  \/ \E n \in Names, pc \in {"get", "check", "list", "del_check"} :
       BpAccept(t, pc, n, None)

-----------------------------------------------------------------------------
(* Handlers, one action per statement they execute.                        *)

Save(t) ==
  /\ BpAt(t, "save")
  /\ LET stmt == SaveBlueprint(bpThr[t].doc)
     IN  \/ Answered(stmt) /\ BpReply(t, "saved")
         \/ Lost(stmt) /\ BpReply(t, "failure")

Get(t) ==
  /\ BpAt(t, "get")
  /\ BpRead(t, IF HasBlueprint(bpThr[t].name) THEN "found" ELSE "unknown")

Check(t) ==
  /\ BpAt(t, "check")
  /\ BpRead(t, IF HasBlueprint(bpThr[t].name) THEN "checked" ELSE "unknown")

BpList(t) == BpAt(t, "list") /\ BpRead(t, "listed")

\* deleteBlueprint, first statement: fetchMaterialization.  A row means
\* DeleteActiveBlueprintError; out_of_range means go on.
DelCheck(t) ==
  /\ BpAt(t, "del_check")
  /\ \/ /\ Answered(UNCHANGED tables)
        /\ IF Referenced(bpThr[t].name)
           THEN BpReply(t, "active")
           ELSE BpGoto(t, "del_row")
     \/ Lost(UNCHANGED tables) /\ BpReply(t, "failure")

\* deleteBlueprint, second statement: the DELETE, which the foreign key
\* refuses if the blueprint was materialized since the check.
DelRow(t) ==
  /\ BpAt(t, "del_row")
  /\ LET stmt == DeleteBlueprintRow(bpThr[t].name)
     IN  \/ Answered(stmt) /\ BpReply(t, "deleted")
         \/ /\ Referenced(bpThr[t].name)
            /\ Answered(UNCHANGED tables)
            /\ BpReply(t, "failure")
         \/ Lost(stmt) /\ BpReply(t, "failure")

\* The response leaves and the thread can take the next request.
BpRespond(t) ==
  /\ BpAt(t, "done")
  /\ bpThr' = [bpThr EXCEPT ![t] = BpIdle]
  /\ UNCHANGED <<bpUp, dbVars>>

BpStep(t) ==
  \/ Save(t) \/ Get(t) \/ Check(t) \/ BpList(t)
  \/ DelCheck(t) \/ DelRow(t)
  \/ BpRespond(t)

-----------------------------------------------------------------------------
(* `builder' stops the container, or the process dies: requests in flight  *)
(* are gone, the database keeps what was committed.                        *)

BpKill ==
  /\ bpUp
  /\ bpUp' = FALSE
  /\ bpThr' = [t \in BpThreads |-> BpIdle]
  /\ UNCHANGED dbVars

BpStart ==
  /\ ~ bpUp
  /\ bpUp' = TRUE
  /\ UNCHANGED <<bpThr, dbVars>>

=============================================================================
