------------------------------ MODULE Database ------------------------------
(***************************************************************************)
(* The PostgreSQL database `db' the two state-keeping services of marinatb *)
(* share: the tables of db/marinatb.sql and, one operator per method of    *)
(* class DB (core/db.cxx), the statement that method executes.             *)
(*                                                                         *)
(* A statement is one transaction of its own (no method opens one), so it  *)
(* is atomic; a handler that executes several of them is not.              *)
(*                                                                         *)
(* A blueprint row is keyed by (project, doc->>'name'), the unique index   *)
(* bp_unique; such a pair is one member of Names.  A materialization row   *)
(* is keyed by the blueprint row it references, so by the same name.       *)
(***************************************************************************)
EXTENDS Integers

CONSTANTS
  Names,      \* (project, blueprint name) pairs of existing projects
  DocIds,     \* UUIDs of blueprint documents
  Nets,       \* UUIDs of networks
  Docs,       \* the blueprint documents clients save
  None,       \* no row, no name, no network
  Topos,      \* hardware topology documents
  NoTopo,     \* the hw_topology table is empty
  InitVnis,   \* bound: vnis drawn in earlier sessions
  MaxFaults   \* bound: statements whose connection breaks under them

\* A document carries its id, its name, its networks, and whether some
\* computer of it is attached to a network.  Ids are random UUIDs drawn when
\* the blueprint is compiled (core/util.cxx): only a clone shares them, so two
\* documents with different ids have no network in common.
Doc == [id : DocIds, name : Names, nets : SUBSET Nets, attached : BOOLEAN]

ASSUME DocsAssumption ==
  /\ Docs \subseteq Doc
  /\ \A d, e \in Docs : d.id # e.id => d.nets \cap e.nets = {}

ASSUME NoneAssumption ==
  None \notin Docs \cup Names \cup Nets /\ NoTopo \notin Topos

ASSUME DbBoundsAssumption == InitVnis \in Nat /\ MaxFaults \in Nat

VARIABLES
  blueprints,         \* Names -> document of the row, or None
  materializations,   \* Names -> document of the row, or None
  hwTopology,         \* document of the singleton row, or NoTopo
  vxlan,              \* Nets -> vni of the row, 0 when there is none
  vniSeq,             \* next value of the SERIAL column vxlan.vni
  faults              \* statements lost so far

tables == <<blueprints, materializations, hwTopology, vxlan, vniSeq>>
dbVars == <<tables, faults>>

-----------------------------------------------------------------------------
(* Statements.  Those that only read are expressions on the tables.        *)

SaveBlueprint(d) ==
  /\ blueprints' = [blueprints EXCEPT ![d.name] = d]
  /\ UNCHANGED <<materializations, hwTopology, vxlan, vniSeq>>

\* materializations.blueprint REFERENCES blueprints: the row cannot go while a
\* materialization refers to it.
Referenced(n) == materializations[n] # None

\* Mutants of the schema: no foreign key; ON DELETE CASCADE.
BugDeleteReferenced(n) ==
  /\ blueprints' = [blueprints EXCEPT ![n] = None]
  /\ UNCHANGED <<materializations, hwTopology, vxlan, vniSeq>>

BugDeleteCascade(n) ==
  /\ blueprints' = [blueprints EXCEPT ![n] = None]
  /\ materializations' = [materializations EXCEPT ![n] = None]
  /\ UNCHANGED <<hwTopology, vxlan, vniSeq>>

\* Deleting a row that is not there succeeds.
DeleteBlueprintRow(n) ==
  /\ ~ Referenced(n)
  /\ blueprints' = [blueprints EXCEPT ![n] = None]
  /\ UNCHANGED <<materializations, hwTopology, vxlan, vniSeq>>

\* The sub-select finds no blueprint row: NULL in a NOT NULL column.
HasBlueprint(n) == blueprints[n] # None

SaveMaterialization(n, d) ==
  /\ HasBlueprint(n)
  /\ materializations' = [materializations EXCEPT ![n] = d]
  /\ UNCHANGED <<blueprints, hwTopology, vxlan, vniSeq>>

DeleteMaterialization(n) ==
  /\ materializations' = [materializations EXCEPT ![n] = None]
  /\ UNCHANGED <<blueprints, hwTopology, vxlan, vniSeq>>

SetHwTopo(tp) ==
  /\ hwTopology' = tp
  /\ UNCHANGED <<blueprints, materializations, vxlan, vniSeq>>

\* netid is the primary key.  The default of the vni column is evaluated
\* first, so a refused INSERT consumes a number too.
HasVni(net) == vxlan[net] # 0

\* Mutants: the smallest free number instead of the sequence; a plain integer
\* column, NULL without the SERIAL default.
BugReuseVni(net) ==
  /\ ~ HasVni(net)
  /\ \E v \in 1..vniSeq :
       /\ \A m \in Nets : vxlan[m] # v
       /\ \A w \in 1..(v - 1) : \E m \in Nets : vxlan[m] = w
       /\ vxlan' = [vxlan EXCEPT ![net] = v]
  /\ vniSeq' = vniSeq + 1
  /\ UNCHANGED <<blueprints, materializations, hwTopology>>

BugNullVni(net) ==
  /\ ~ HasVni(net)
  /\ vxlan' = [vxlan EXCEPT ![net] = None]
  /\ UNCHANGED <<blueprints, materializations, hwTopology, vniSeq>>

InsertVxlan(net) ==
  /\ ~ HasVni(net)
  /\ vxlan' = [vxlan EXCEPT ![net] = vniSeq]
  /\ vniSeq' = vniSeq + 1
  /\ UNCHANGED <<blueprints, materializations, hwTopology>>

RefuseVxlan(net) ==
  /\ HasVni(net)
  /\ vniSeq' = vniSeq + 1
  /\ UNCHANGED <<blueprints, materializations, hwTopology, vxlan>>

FreeVxlanVni(net) ==
  /\ vxlan' = [vxlan EXCEPT ![net] = 0]
  /\ UNCHANGED <<blueprints, materializations, hwTopology, vniSeq>>

-----------------------------------------------------------------------------
(* How a statement ends.                                                   *)

\* PQexec returned the statement's own result.
Answered(stmt) == stmt /\ UNCHANGED faults

\* The connection broke after connect() had found it good: PQexec reports an
\* error, the method throws "pq query failure", and the caller cannot know
\* whether the server committed the statement.
Lost(stmt) ==
  /\ faults < MaxFaults
  /\ faults' = faults + 1
  /\ stmt \/ UNCHANGED tables

DbTypeOK ==
  /\ blueprints \in [Names -> Docs \cup {None}]
  /\ materializations \in [Names -> Docs \cup {None}]
  /\ hwTopology \in Topos \cup {NoTopo}
  /\ vxlan \in [Nets -> Nat]
  /\ vniSeq \in Nat \ {0}
  /\ faults \in 0..MaxFaults

\* A database that earlier sessions left, no request of theirs interrupted:
\* blueprints saved, a topology set or not, some blueprints materialized, each
\* network of those with a vni of its own.
DbInit ==
  /\ blueprints \in [Names -> Docs \cup {None}]
  /\ \A n \in Names : blueprints[n] # None => blueprints[n].name = n
  /\ \E up \in SUBSET {n \in Names : blueprints[n] # None} :
       /\ \A m, n \in up :
            m # n => blueprints[m].nets \cap blueprints[n].nets = {}
       /\ materializations =
            [n \in Names |-> IF n \in up THEN blueprints[n] ELSE None]
       /\ vxlan \in [Nets -> 0..InitVnis]
       /\ \A net \in Nets :
            vxlan[net] # 0 <=> \E n \in up : net \in blueprints[n].nets
       /\ \A m, n \in Nets : m # n /\ vxlan[m] # 0 => vxlan[m] # vxlan[n]
  /\ hwTopology \in Topos \cup {NoTopo}
  /\ vniSeq = InitVnis + 1
  /\ faults = 0

=============================================================================
