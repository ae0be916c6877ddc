---------------------------- MODULE ControlPlane ----------------------------
(***************************************************************************)
(* The blueprint service and the materialization service over the database *)
(* they share, with the clients that send them requests (through the api   *)
(* and access relays, which keep no state) and the operator who stops and  *)
(* starts their containers.                                                *)
(***************************************************************************)
EXTENDS BlueprintService, MaterializationService

CONSTANTS
  MaxRequests,     \* bound: requests accepted by the two services
  MaxKills,        \* bound: containers stopped under running requests
  Serial           \* the clients send a request only when none is in progress

ASSUME BoundsAssumption ==
  MaxRequests \in Nat /\ MaxKills \in Nat /\ Serial \in BOOLEAN

VARIABLES requests, kills

env == <<requests, kills>>
vars == <<dbVars, bpVars, mzVars, env>>

-----------------------------------------------------------------------------

Init ==
  /\ DbInit
  /\ BpInit
  /\ MzInit
  /\ requests = 0
  /\ kills = 0

Idle ==
  /\ \A t \in BpThreads : bpThr[t].pc = "idle"
  /\ \A t \in MzThreads : mzThr[t].pc = "idle"

OneMoreRequest ==
  /\ requests < MaxRequests
  /\ requests' = requests + 1
  /\ Serial => Idle

BpRequestArrives ==
  /\ OneMoreRequest
  /\ \E t \in BpThreads : BpRequest(t)
  /\ UNCHANGED <<mzVars, kills>>

MzRequestArrives ==
  /\ OneMoreRequest
  /\ \E t \in MzThreads : MzRequest(t)
  /\ UNCHANGED <<bpVars, kills>>

BpWorks(t) == BpStep(t) /\ UNCHANGED <<mzVars, env>>

MzWorks(t) == MzStep(t) /\ UNCHANGED <<bpVars, env>>

Kill ==
  /\ kills < MaxKills
  /\ kills' = kills + 1
  /\ \/ BpKill /\ UNCHANGED mzVars
     \/ MzKill /\ UNCHANGED bpVars
  /\ UNCHANGED requests

Restart ==
  /\ \/ BpStart /\ UNCHANGED mzVars
     \/ MzStart /\ UNCHANGED bpVars
  /\ UNCHANGED env

\* The bound on requests is used up and every one of them was answered: the
\* only state in which nothing more may happen.  A thread that waits for ever
\* is a deadlock to TLC.
Quiet == requests = MaxRequests /\ Idle /\ bpUp /\ mzUp /\ UNCHANGED vars

Next ==
  \/ BpRequestArrives
  \/ MzRequestArrives
  \/ \E t \in BpThreads : BpWorks(t)
  \/ \E t \in MzThreads : MzWorks(t)
  \/ Kill
  \/ Restart
  \/ Quiet

Spec == Init /\ [][Next]_vars

\* Server threads are scheduled by the operating system, the database answers
\* (or the connection is seen to break), and a released mutex is handed to a
\* waiting thread, of which there are finitely many.  Clients and operator owe
\* nothing.
Fairness ==
  /\ \A t \in BpThreads : WF_vars(BpWorks(t))
  /\ \A t \in MzThreads : WF_vars(MzWorks(t))

FairSpec == Spec /\ Fairness

-----------------------------------------------------------------------------
(* Properties                                                              *)

\* Every variable stays in its domain.
TypeOK ==
  /\ DbTypeOK
  /\ BpTypeOK
  /\ MzTypeOK
  /\ requests \in 0..MaxRequests
  /\ kills \in 0..MaxKills

\* What is materialized is a saved blueprint, whatever delete and construct
\* interleave between the two services: no materialization outlives the
\* blueprint it is looked up by (info, destruct and list all join on it).
NoOrphanMaterialization ==
  \A n \in Names : materializations[n] # None => blueprints[n] # None

\* The numbers of a network: in the table, in the memory of the service, and
\* in the hand of a construct between the INSERT and the assignment.
Uses(net, v) ==
  \/ vxlan[net] = v
  \/ \E i \in DocIds : memVni[i][net] = v
  \/ \E t \in MzThreads :
       mzThr[t].pc = "c_mem" /\ mzThr[t].net = net /\ mzThr[t].vni = v

\* Two networks never share a vxlan identifier, not even when one of the
\* numbers is only a stale copy in memory of a row freed since, and none is
\* ahead of the sequence: traffic of a network that was taken down cannot
\* reach one that comes up later.
VniNeverShared ==
  /\ \A net \in Nets :
       /\ vxlan[net] < vniSeq
       /\ \A i \in DocIds : memVni[i][net] < vniSeq
       /\ \A t \in MzThreads : mzThr[t].vni < vniSeq
  /\ \A v \in 1..(vniSeq - 1) : \A m, n \in Nets :
       Uses(m, v) /\ Uses(n, v) => m = n

\* A construct of document i between the INSERT for net and the assignment.
Recording(t, i, net) ==
  mzThr[t].pc = "c_mem" /\ mzThr[t].doc.id = i /\ mzThr[t].net = net

\* As long as no reply of the database was lost, the number the service
\* remembers for a network is that of its row, unless a destruct has freed the
\* row or a construct is just recording another: of two constructs of one
\* document, the older one never overwrites what the younger one recorded.
MemoryMatchesTable ==
  faults = 0 =>
    \A i \in DocIds, net \in Nets :
      /\ vxlan[net] # 0
      /\ memVni[i][net] # 0
      /\ \A t \in MzThreads : ~ Recording(t, i, net)
      => memVni[i][net] = vxlan[net]

\* A request a service has accepted is answered, whatever the handler ran
\* into (a lost connection, a mutex held by another request, a failing
\* construct), unless the process stops under it.
EveryRequestAnswered ==
  /\ \A t \in BpThreads : bpThr[t].pc # "idle" ~> bpThr[t].pc \in {"idle", "done"}
  /\ \A t \in MzThreads : mzThr[t].pc # "idle" ~> mzThr[t].pc \in {"idle", "done"}

\* Networks of what the table of materializations says is running.
Materialized == {n \in Names : materializations[n] # None}

LiveNets == UNION {materializations[n].nets : n \in Materialized}

\* With requests served one at a time, and none of them interrupted, the vxlan
\* table holds exactly the networks of the materialized blueprints whenever no
\* request is in progress: construct and destruct are inverse to each other on
\* the two tables, also when one of them fails.
IdleTablesAgree == Idle => {net \in Nets : HasVni(net)} = LiveNets

\* "something we did not plan for, but keep the service going none the less"
\* (core/materialization-service.cxx, lines 309, 335, 354 and 373; construct
\* ends in the same catch without the words).  No request ends the process.
KeepsServiceGoing == [][mzUp' \/ kills' # kills]_vars

\* core/client.cxx line 54: "topo topology -- set the testbed topology".  Only
\* that request changes which topology is stored.
OnlyTopoSetsTopology ==
  [][hwTopology' # hwTopology => \E t \in MzThreads : MzAt(t, "topo")]_vars

\* core/materialization-service.cxx line 111: construct is to "setup vxlan
\* virtual network identifier" for each network, so what is materialized has
\* one for each.  A destruct frees them before it deletes the row; when no
\* request is in progress the two must agree again.
MaterializedNetsHaveVni == Idle => \A net \in LiveNets : HasVni(net)

-----------------------------------------------------------------------------
(* What the two services promise together about one blueprint.             *)

Stage(n) ==
  IF materializations[n] # None THEN "materialized"
  ELSE IF blueprints[n] # None THEN "saved" ELSE "absent"

Life == INSTANCE BlueprintLife WITH stage <- [n \in Names |-> Stage(n)]

\* Every step of the services is a step of BlueprintLife: no interleaving of
\* save, delete, construct and destruct takes a materialized blueprint away
\* or materializes one that is not saved.
ImplementsBlueprintLife == Life!Spec

=============================================================================
