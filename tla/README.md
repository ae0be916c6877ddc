# A TLA+ development of marinatb

marinatb is a network testbed: users describe an experiment as a *blueprint* of
computers and networks, save it, and have it *materialized* on the testbed's
hosts. This directory models the graphs users build, their embedding in a
testbed, the services that store and materialize them, the way a request takes
to a service, and the controller of a host; it checks them with TLC on small
instances and proves with TLAPS, for all instances, every safety property that
a run checks and that holds.

## 1. The system

```
client -> api -> access -+-> blueprint service -------+
          (relays)       +-> materialization service -+-> PostgreSQL `db`
                         +-> accounts   |
                                        +-> host-control on each host
```

Each box is a process (a container) around one `HttpsServer`
(`common/net/http_server.cxx`), which has at least four worker threads and runs
a handler to its end, synchronously, inside `RqHandler::onEOM`. `onEOM` is
`noexcept`: an exception that leaves a handler ends the process, and nothing
restarts it but an operator (`builder`, `do_restart`).

| component | state | operations | correct when |
|---|---|---|---|
| database, `db/marinatb.sql`, `core/db.cxx` | tables `blueprints`, `materializations`, `hw_topology`, `vxlan` with a sequence | one SQL statement per method of `DB` (`deleteBlueprint`: two) | rows that refer to each other exist together; a vxlan number belongs to one network |
| blueprint service | none of its own | save, get, check, delete, list | a materialized blueprint is not deleted |
| materialization service | `mzm`: per document id, the vxlan number of each network, and a mutex | construct, destruct, info, list, topo, status | what is materialized has its numbers, and only that has; memory agrees with the table; every request is answered; no request ends the service |
| embedding, `core/embed.cxx` | an `EChart`: machines by host, networks by switch | `embed`, `unembed`, `pack` | no host is overloaded; each computer is on one host; the computers of a blueprint that are on a network get hosts all at once or not at all; nobody else's computer moves |
| object graphs and JSON, `core/blueprint.cxx`, `core/topo.cxx` | graphs of computers, networks, hosts, switches, links | build, clone, remove, `json`, `fromJson` | links lead to what they were made for, after any edits; a round trip keeps what refers to what |
| host controller, `core/host-control.cxx` | id maps, live blueprints, bridges, ports, virtual machines, one network block device | construct (detached thread), destruct, info, list | destruct takes down what construct put up; two constructs do not share a resource |
| `LinearIdCacheMap`, `core/util.hxx` | a counter, a map, one lock object | create, get, erase | ids of live keys differ |
| HTTP client and relay, `common/net` | one promise per request, a pool of threads per server | `relay`, `HttpRequest` | a thread runs one handler at a time, until it returns; a request is handled once at most |
| api, access | none | tables of relays | each route leads to its operation |
| command line client, `core/client.cxx` | none | one request per command | it asks for what it means and finds in the answer what it reads |
| accounts | none | every handler answers "not implemented" | - |

Components interact by requests (client to relays to services), by the tables
both services use, and by the foreign key from `materializations` to
`blueprints`, the only thing that orders what the two services do to one
blueprint. The materialization service also relates its memory to its tables.

What is hard here: handlers are sequences of statements with no transaction
around them, run by several threads of two processes; a connection can break
under a statement whose effect is then unknown; `construct` can fail after each
of its steps; a process can stop between any two. A request holds a thread in
each of up to three servers, and a call that fails is never answered. `embed`
packs from copies of host states that a host on two switches makes stale, and
can fail half way. Objects are found by random ids in links that outlive them.
`PROJECT.json` lists each hazard at its line.

### What is modelled

| component | status | modules |
|---|---|---|
| database | partly | `Database` |
| blueprint service | modelled | `BlueprintService`, `ControlPlane` |
| materialization service | modelled | `MaterializationService`, `ControlPlane` |
| embedding | modelled | `Testbed`, `Load`, `Placement`; how it ends when called from `construct` in `MaterializationService` |
| object graphs and JSON | partly | `ObjectGraph`, `Testbed`, `Load` |
| HTTPS server, client request, relay | partly | `Relay`, the two service modules |
| api, access | modelled | `Relay` |
| command line client | partly | `Relay`, `ControlPlane` |
| accounts | partly: as a destination of routes | `Relay` |
| host controller | modelled | `HostControl` |
| `LinearIdCacheMap` | modelled | `LinearIdCacheMap` |
| ids, endpoints, builder scripts | partly | `ObjectGraph`, `Relay`, `ControlPlane` |
| compilation, guest tools | not modelled | |

Section 6 says what "partly" leaves out.

## 2. The modules

```
Database <- BlueprintService ------+
       ^--- MaterializationService +- ControlPlane -> BlueprintLife (refined)
                                       ^- MCControlPlane (instances for TLC)
                                       ^- ControlPlaneProofs
                                            ^- ControlPlaneVniProofs
                                                 ^- ControlPlaneMemoryProofs

LinearIdCacheMap <- HostControl
                      ^- MCHostControl (instances for TLC)
                      ^- HostControlProofs

ObjectGraph <- Testbed -> Placement (refined)
                 ^- MCTestbed (instances for TLC; with Load)
                 ^- TestbedProofs <- GraphProofs

Load <- MCTestbed (its Overloaded and Free)
  ^---- LoadProofs

Relay <- MCRelay (instance for TLC)
   ^---- RelayProofs
```

The four groups meet at the following seams, and are checked apart there.
`Relay` ends where a handler of a service begins: it knows only that the
handler runs, and what keys an answer of status 200 has; the handlers are
`ControlPlane`. `ControlPlane` treats a document as an id and a set of networks,
and `embed()` as its outcome; graphs and `embed()` are `Testbed`. The
materialization service is the only client of hosts in the repository and sends
them nothing in any reachable state (below). What it would send, `{"computer",
"mz-info"}` and `{"hosts", "nets"}` (`materialization-service.cxx` 141, 267), is
not what a host reads either: `construct` and `destruct` of host-control parse a
blueprint, and would answer a bad request. `HostControl` is therefore driven by
the requests its own handlers take, blueprints in any order.

**Database.** One variable per table. A name stands for the pair (project,
name inside the document), which is the key `bp_unique` gives a blueprint; a
materialization row refers to a blueprint row, so the same name keys it. `vxlan`
maps a network to its number, 0 for no row, and `vniSeq` is the sequence behind
the SERIAL column: it advances also when the INSERT is refused, and never goes
back. There is an operator per statement. `Answered(stmt)` is the statement
with its result; `Lost(stmt)` is a connection that breaks under it: the handler
sees an error and the server may or may not have committed. A statement is
atomic because none is inside a larger transaction, and none is split.

**BlueprintService** and **MaterializationService.** The state of a worker
thread is a record: where in its handler it is, the request, the local
variables that later statements use (`doc`, `topo`, what is left of the loop over
the networks), and the reply. There is one action per database statement,
since this is where other threads can come in between, plus taking the mutex
and storing a number in memory. Failure branches are disjuncts of the action in
which the code throws. Correspondence:

| handler | actions | code |
|---|---|---|
| save, get, check, list | `Save`, `Get`, `Check`, `BpList` | `blueprint-service.cxx` 52-162, 206-230 |
| delete | `DelCheck` (look for a materialization), `DelRow` (DELETE) | 165-204, `db.cxx` 153-185 |
| construct | `ConstructFetch`, `ConstructLock`, `ConstructEmbed` (topology and `embed()`), for each network `ConstructVni` (INSERT) and `ConstructMem` (assignment), `ConstructSave` | `materialization-service.cxx` 72-186 |
| destruct | `DestructFetch`, `DestructTopo`, for each network `DestructFree`, `DestructDelete`, `DestructPut` | 210-311 |
| topo, info, list, status | `Topo`, `Info`, `MzList`, `Status` | 188-208, 313-375 |
| catch clauses | `MzReply(t, "failure")`, `ConstructFail` (the guard releases the mutex) | 185, 310 |

Requests to hosts do not appear because the code never sends one. `construct`
and `destruct` send them for what is in an `EChart`, which both start
empty from a topology read from the database, and `Host::fromJson` and
`Switch::fromJson` draw new ids while the links keep the old ones, so that no
host is connected to any switch. `EmbedOutcome` is what `embed()` then does:
nothing to place, and it returns; a computer on a network and a switch, and it
takes `front()` of an empty vector, which is undefined and ends the process (the
other outcomes of that read are not modelled); no switch, and it throws
"embedding failed". The average load of an empty set of hosts, computed when
there are several switches, is taken to be harmless: `reduce` is an external
library's, and nothing depends on the order it gives.

**ControlPlane** composes them with the environment: clients that send any
request in any order, at most `MaxRequests` of them; an operator who stops a
container at any point, at most `MaxKills` times, and starts it again. `Serial`
restricts clients to one request at a time and is used where the question is
about single requests. `Quiet` is the only stuttering step and is enabled when
all is done, so TLC reports any other state without a successor as a deadlock:
a thread that waits for ever on a mutex is one.

**BlueprintLife** is the abstract specification: a blueprint is absent, saved or
materialized, and moves only between neighbours. `ImplementsBlueprintLife` in
`ControlPlane` is the refinement, with the stage computed from the two tables.

**ObjectGraph.** Blueprints and topologies as values: maps from ids to what an
object is, and a sequence of links between endpoints, each an id and perhaps a mac
address. An id is `<<name, draw>>` with a fresh draw for every object, as the
code draws a UUID; links refer to ids, lookups by a user go by name. There is an
operator per method, with what the method forgets to do: `removeComputer` leaves
links, `clone` leaves address spaces (the copy of a `Network` is a new one),
`removeHost` leaves the host, and its endpoint without a mac matches no end of a
link at a host. `BlueprintFromJson(BlueprintJson(b))` is the round trip: a parsed
`Computer` is born with an interface of its own and is then given what the document
says. Hosts and switches are written without ids and draw new ones.

| code | operators |
|---|---|
| `Blueprint::computer`, `network`, `connect`, `removeComputer`, `removeNetwork`, `clone`, `json`, `fromJson` | `AddComputer`, `AddNetwork`, `Connect`, `ConnectNets`, `RemoveComputer`, `RemoveNetwork`, `CloneBlueprint`, `BlueprintJson`, `BlueprintFromJson`, `ComputerFromJson` |
| `neighbors`, `Network::connections` and the lookup by mac that throws | `Neighbors`, `ConnectedComputers`, `ConnectedNetworks`, `Broken` |
| `TestbedTopology` | `AddHost`, `AddSwitch`, `ConnectHost`, `ConnectSwitches`, `RemoveHost`, `RemoveSw`, `ConnectedHosts`, `ConnectedSwitches`, `SameTopology`, `TopologyRead` |
| `operator==` of `Endpoint` | `SameEndpoint`, which is not symmetric |

What a network is connected to is a function from the positions of the links
that matter, in their order, and so is what `construct` counts along them
(`NextAddress`): the code walks the list of links and skips the others, and a
position tells apart two links that are alike.

**Load.** What a set of machines takes of a host: four resources, each in its own
unit, with the shifts of `Memory::megabytes` and `Bandwidth::megabits`, the
interface every `Computer` is born with, and the norm that orders hosts. Shares
are counted in `Scale` parts instead of floating point.

**Testbed** is a program that uses these, as `test/core/model_embed.cxx` does: it edits
two blueprints and a topology, makes a chart, and then embeds and unembeds
in any order.

| code | actions |
|---|---|
| edits | `Build`: `NewComputer`, `LinkComputer`, `DropComputer`, `Clone`, `SendBlueprint`, `NewHost`, `Plug`, `DropHost`, `SendTopology`, ... |
| `EChart ec{tt}` | `Chart` |
| `embed`: the sorts and the copies it begins with | `Embed` |
| one iteration of its packing loop, with `pack` | `PackHost` |
| `front()` of an empty vector, "embedding failed", a computer it does not find | `FrontOfEmpty`, `EmbeddingFailed`, `NotFound` |
| its second half, and `return` | `Commit` |
| addresses in `construct` (119-139) | `AssignAddresses` |
| `unembed` with its exception | `Unembed` |

`embed` takes the chart by value: the caller's chart changes when it returns and
not when it throws. `sws` holds a copy of the embedding of each host of each
switch, so a host on two switches has two (`copies`), and what is put into the chart
that will be returned (`work`) is the copy that was packed last. The sorts are
by keys that may tie; `Embed` takes any order they allow, since neither the
standard's sort nor the order of the hash tables it starts from fixes it.
With a switch without hosts a key is 0/0 and any order is taken.

**Placement** is what a user of the testbed is promised, with what the code takes back
from it. A tenant is an embedded blueprint: its computers on a network (`wired`) and
the others (`loose`). `Admit` gives all the wired ones a host, with no host overloaded and
nobody else moved; the loose ones get none, since `embed` counts and packs computers through
their networks only (`embed.cxx` 272-286) and succeeds without them. `Evict` frees
the computers of a tenant and asks that none is loose, since `unembed` throws at
a computer it does not find; such a blueprint stays. `ImplementsPlacement` is the
refinement, with `place` and `tenants` computed from the chart.

**Relay.** `Command` is the client's requests with the parameters they carry and the
keys they read, `Needs` and `Gives` what the handlers extract and answer,
`ApiRoute` and `AccessRoute` the two tables of routes. A request passes three levels:
client to api, api to access, access to service. `asked` is what the caller knows
of a call, `served` what the callee has done, and these may differ: a timeout
leaves a request that was sent to be handled all the same, with nobody to
hear of it. Connections are given to threads of the callee when they are made
(proxygen's acceptor), so that a request can wait for a busy thread while
another is idle.

| code | actions |
|---|---|
| a command, `HttpRequest` | `Send`, and `Call` in `Forward` |
| handshake, `onEOM`, return of the handler | `Accept`, `Read`, `Return` |
| `relay` | `Forward`, and `HasAnswer` in `Return` |
| a path without handler; a handler of a service (its answers 200; the 400 of `get` and `check` for an unknown blueprint, which no command of the client asks for, are left out) | `Reject`; `Execute` |
| `connectError` (refused, 3 s), `onError` (5 s) | `Refuse`, `Expire` |
| a connection closed before its request was read | `Drop` |
| end and start of a process | `Stop`, `Start` |

**LinearIdCacheMap** has the id allocators of a host, one per name in `Maps`, and
the lock around `live_blueprints`, which is of the same make: one
`std::unique_lock` object that every thread calls `lock()` and `unlock()` on.
Its own flag decides whether `lock()` throws and whether `unlock()` does, and
it is written without protection, so `lock` is two steps (test the flag, take the
mutex) and `unlock` two (release, clear the flag); what is merged is what no
other thread can tell apart. `create` draws and stores a new id after the
unlock, as two more steps. A call that throws inside leaves the mutex taken.

**HostControl** is `core/host-control.cxx`. A thread's record says where it is, for
which blueprint, and what is left of the loops over computers and networks; the
other variables are what the host has.

| code | actions |
|---|---|
| `construct` and its detached thread (534-578) | `Construct`, `Live`, `LaunchDone` |
| `initXpDir` (483), `createNetworkBridge` (420) | `InitXpDir`, `CreateBridge` |
| `launchVm` (325) | `CreateId`, `GetPorts`, `CreateImage`, `Boot` |
| `plopLinuxConfig` (196) | `Detach`, `Connect`, `Copy`, `Release` |
| `terminateComputers` (585) | `Terminate` |
| `terminateNetworks` (607) | `FindBridge`, `DeleteBridge`, `ErasePorts` |
| `delXpDir` (580) | `DelXpDir` |
| `list` (687), `main` (91) | `List` (the exception ends the process), `Restart` |
| the catch clauses | `CallThrew`, `CommandFails` |

Commands are external: `ovs-vsctl add-br` fails on a bridge that is there,
`del-br` on one that is not, `kill` when the pid file is missing or its process
gone, `qemu-nbd --connect` while another image is connected,
`qemu-system-x86_64` when its ports are in use. Commands whose exit code the code
looks at may also fail for reasons of their own, at most `MaxFaults` times in all. `umount` and
`qemu-nbd --disconnect` may fail as well, but nobody looks (lines 247-248, 271-272,
320-321): `LetGo` then leaves the image attached and the handler goes on, or,
behind a failed mount or copy, ends with it attached. The next connect fails on it.
An image whose directory is removed meanwhile stays attached without its name
(`Removed`). `rm -rf` of a directory and `pkill` at the start are taken
to work. The commands of one phase of
`plopLinuxConfig` are one action. `launchVm` throws a string, which no catch
clause takes, for a computer that is not linux (382-385); `isLinux`
(`core/blueprint.cxx` 1184) says of each that it is, so this is no step of the model. The command that adds a vxlan port names an
argument it is not given (`{vni}`, line 448), so the formatting throws once the
bridge exists: a construct ends at its first network, and ports
(`createComputerPort`) are never created. `info` changes nothing and is left out.
A computer is in versions of one blueprint; clones that share computers are
left out.

## 3. The runs

`MCControlPlane` defines the documents. `Plain` and `Wired` have one network
without and with a computer on it; `Again` is `Plain` compiled again, which draws
new ids under the same name; `Pair` has two networks and `Twin` is a clone of it
under another name, which shares ids.

| run | instance | question | result |
|---|---|---|---|
| `services` | 1 name, 3 documents, 1 + 2 threads, 4 requests, 1 lost reply, 1 kill | types, no orphan materialization, numbers never shared, memory agrees with the table, refinement of `BlueprintLife` | holds, 1.2 million states |
| `sequential` | 2 names, 2 documents with the same 2 networks, 4 requests one at a time | numbers in the table are those of the materialized networks | holds |
| `answered` | 1 name, 2 documents, 1 + 2 threads, 3 requests, 1 lost reply | every accepted request is answered, under fairness | holds |
| `host_serial` | 1 thread, 6 versions of a blueprint with up to 2 networks and 2 computers, 4 requests, 2 failing commands | ids differ, no bridge is forgotten, own configuration, destruct is complete, only a miss abandons a lock, handlers end | holds, 430 thousand states |
| `host_threads` | 2 threads, 4 blueprints, 3 overlapping requests, 1 failing command | the shared lock object excludes | holds, 5.5 million states |
| `ids_shared` | 2 threads, a network each | "these data structures are thread safe" | violated |
| `service_stops` | 1 document with a computer on a network | "keep the service going none the less" | violated |
| `topology_lost` | 2 topologies, 2 threads | only topo sets the topology | violated |
| `vni_lost` | 2 threads, 4 overlapping requests, nothing fails | when no request is in progress, a materialized network has a number | violated |
| `testbed` | 3 pairs of blueprints of up to 3 computers and 2 networks, 3 topologies of 2 hosts and 2 switches, 1 edit | types, links, round trip, no host overloaded, the chart, lost computers, neighbours, addresses, refinement of `Placement`, the loops of `embed` end | holds, 59 thousand states |
| `remove_host` | the same | adding and removing a host changes nothing | violated |
| `relay` | 2 clients, 2 threads in api and 1 in the other servers, 1 end of a process | threads agree with handlers, who waits holds a thread, once and as meant, only an answer releases, answers unless a call fails | holds, 584 thousand states |

The bounds are small on purpose and chosen per question. Two threads of the
materialization service and four requests are enough for construct against
construct on one mutex, construct against destruct, and both against save
and delete; a third thread adds only a second waiter on the mutex. One
lost reply and one kill reach every failure branch, each at every point, and
the two together. Two document ids under one name give the re-saved blueprint.
The state spaces start from every database that an earlier session may have
left (`DbInit`): with and without a topology, with blueprints materialized
already. The invariants of `services` that matter most are also proved for any
bounds, see section 4.

The symmetry in `services` permutes the materialization threads, which no
property of that run tells apart; `answered`, a liveness run, uses none.

*Fairness* (`answered`). Each worker thread is weakly fair: it is an operating
system thread, its only waits are the database and the mutex, the database
is assumed to answer or to be seen to break, and a released mutex goes to one of
finitely many waiters. Nothing is assumed of clients or of the operator. In the
code `DB::connect` retries for ever when the database is away; the run does
not speak about that case.

*What `IdleTablesAgree` does not say.* It holds for requests served one at a
time, nothing interrupted. The model shows where the code loses the
agreement otherwise: a construct that overlaps a destruct (the run
`vni_lost`); a blueprint saved again with new network ids while it is
materialized, and then constructed again, since the row's document is replaced and
the old networks keep their numbers; a clone that has some of its networks in
common with a materialized blueprint, since its construct takes the free
numbers before it is refused at a taken one; a lost reply or a kill
between two statements. A destruct that loses its connection between freeing the
numbers (line 250) and `deleteMaterialization` (line 299) leaves a materialized
blueprint without numbers; no run shows it, since `vni_lost` loses no reply in order that
its trace is the overlap.

*The host runs.* `host_serial` sends a request when the thread of the one before has
ended, and asks what the code promises then. Four requests give a construct, a
change of version, a repeated construct and a destruct; the versions cover a
network, two, a computer before and after it is linked to a network, one linked to
nothing, and two computers, so that every loop runs twice and every lookup hits and
misses. `list` can fall between any two requests. Two commands may fail, which is
what it takes for an image to stay attached where the next computer's is to be connected: a
`umount` that fails behind one computer, and again in front of the next.
`BootsOwnConfig` then rests on the check of `qemu-nbd --connect`, as its mutant shows.
`BridgesKnown` says that `bridgeId` forgets no bridge that is up. It does not say
that a destruct finds it: once a `get` has missed, the lock of the map stays
taken until the process ends, and every later lookup throws
(`OnlyMissAbandons` states this, and `HandlersEnd` that nobody waits). Its fairness
(`FairSpec`) is that of the threads: they are scheduled, and commands end. `HandlersEnd`
is not obvious there: `get` of a missing key leaves its lock taken, and later calls
must throw, not wait. With overlap this fails: a thread can clear the flag
another has set, the next `unlock()` throws with the mutex taken, and the next
`lock()` waits for ever. `host_threads` therefore has no deadlock check, and asks
for mutual exclusion only; its symmetry permutes the two threads. `BootsOwnConfig`
and `DestructedIsDown` are not claimed for overlapping requests: two constructs
detach each other's image from the one block device, and share ids.

*The testbed run.* `MCBlueprints` and `MCTopologies` are the graphs the program
has built before its last edit; that edit is any of the fifteen of `Build`. They are chosen for
the cases of the packing loop: a blueprint that fills a host and one that fits on no
host with it, so that embedding fails half way; a computer on two networks; a
computer on none, which `unembed` does not find; a removed one with its link
left behind, and a name drawn again; hosts on one switch, on a switch each, and a
host on both, which is packed from a stale copy. `Octet` is 4 and `lan` starts at
11, so that the first address to be skipped is reached. The sizes in
`MCSpecs` are in different units and decide embeddings by cores, by memory and by
the interface nobody asked for. *Fairness*: a call runs to its end, since
it is a loop in one thread; nothing is assumed of the program that calls. With ties
taken in any order `EmbedEnds` says that every iteration packs something or drops
a switch. `LostOnlyMultiHomed` and `NeighboursShareSwitch` state what is true
of the code where hosts may be on two switches; `embed` does throw "lost" there in
this run. Deadlock is not checked: reading the front of an empty vector ends the program.

*The relay run.* Two requests and these pools are the least with which one request
can wait for a thread that another holds at every level, and with which a thread
that is kept is missed. One client may send any command and the other always
constructs. A process may end once and be started again, at any point of both
requests. *Fairness*: the threads of servers run, and a refused connection is refused;
timers may be as slow as they like, so `AnsweredUnlessFailed` is not saved by
a timeout, and it speaks of behaviours in which no call fails, since the
code answers nobody when one does. That is what `OnlyAnswerReleases` says of
it: the thread above a failed call is kept for good, and no property here
claims that threads are not used up so. `ThreadsAccounted` counts such a thread as one whose handler
has not returned, which is the case; `WaitersHoldThreads` says who holds one: always who
waits for an answer below, and who waited for a call that failed unless nobody
waits for him. Deadlock is not checked as a client may wait for ever.

### The five violations

- `ids_shared`: two construct threads both find their network missing from the map,
  release the lock, and draw the same number; both then create the bridge with
  that number (`core/util.hxx` 142).

- `service_stops`: topo, save and construct of a blueprint with a computer on a
  network are enough. `embed()` gets a topology in which no switch has a
  host and takes `front()` of an empty vector (`core/embed.cxx` 334). The test
  `hi-marina-construct` (`test/api/materialization.cxx` 31-46) expects
  "constructed".
- `topology_lost`: destruct reads the topology (line 226), topo sets another,
  destruct writes the one it read (line 300). A plain lost update.
- `vni_lost`: destruct reads the materialization; another destruct finishes; a
  construct of the same document inserts its number; the first destruct frees
  it (line 250); construct saves. All have ended, nothing failed, and the blueprint is
  materialized without a number.
- `remove_host`: `removeHost` looks for links that match an endpoint without a mac,
  and does not erase the host (the line that did is a comment, `core/topo.cxx` 414).
  The test `deter-is-not-deter3` (`test/core/jsonification.cxx` 152-155) adds a host
  to the topology `t_`, removes it, and has `REQUIRE( t == t_ )` against the topology
  without it. The links stay too: an end at a host has a mac and does
  not match. `embed` goes on placing machines on such a host.

Every property of a passing run has a mutant in `PROJECT.json`: a variant of a
modelled operator with a plausible bug (no foreign key, a cascading delete, reuse
of the smallest free number, no mutex, a mutex kept on the failure path, a loop
that stops early) under which TLC finds the property violated.

## 4. The proofs

The theorems about `ControlPlane`, `HostControl`, `Testbed` and `Relay` are about
their `Spec`, for every value of the constants under the assumptions the modules
name: documents are well formed and two with different ids share no network (ids
are random UUIDs), the special values are not members of the sets they are added
to, the bounds are natural numbers; the graphs a program starts from were built
by its operations (`BaseAssumption`, `LinksAssumption`) and no two of its
blueprints share an object; computers, networks, hosts and switches have
different names; address spaces begin at natural numbers (`SpaceAssumption`), and of
two addresses in a row one may be used (`OctetAssumption`); a host without machines
is not overloaded and fewer machines are no more load (`LoadAssumption`), and how
free a host is is a number (`FreeAssumption`); every server has a thread. The two
assumptions about load are theorems about `Load` (`LoadIsMonotone`, `FreeIsInt`),
so they hold for what the code reckons.

| theorem | module | statement |
|---|---|---|
| `TypeCorrect` | `ControlPlaneProofs` | `[]TypeOK` |
| `NoOrphan` | `ControlPlaneProofs` | `[]NoOrphanMaterialization` |
| `Refinement` | `ControlPlaneProofs` | `ImplementsBlueprintLife` |
| `VniIsolation` | `ControlPlaneVniProofs` | `[]VniNeverShared` |
| `MutualExclusion` | `ControlPlaneMemoryProofs` | who is in construct's critical section owns the mutex of its document |
| `MemoryAgrees` | `ControlPlaneMemoryProofs` | `[]MemoryMatchesTable` |
| `SerialTables` | `ControlPlaneMemoryProofs` | `[]IdleTablesAgree` while nothing was lost or killed, if `Serial` and `OneSource` |
| `HostTypeCorrect` | `HostControlProofs` | `[]HostTypeOK` |
| `SharedLockExcludes` | `HostControlProofs` | `[]Exclusion` |
| `SerialIds`, `SerialBridges`, `SerialConfigs`, `SerialDestruct`, `SerialLocks` | `HostControlProofs` | `[]IdsDistinct`, `[]BridgesKnown`, `[]BootsOwnConfig`, `[]DestructedIsDown`, `OnlyMissAbandons`, if `Serial` |
| `TestbedTyped` | `TestbedProofs` | `[]TestbedTypeOK` |
| `HostsBear` | `TestbedProofs` | `[]NoHostOverloaded` |
| `ChartKept` | `TestbedProofs` | `[]ChartHoldsEmbedded` |
| `EmbedImplementsPlacement` | `TestbedProofs` | `ImplementsPlacement` |
| `LinksResolve` | `GraphProofs` | `[]ConnectionsResolve` |
| `RemovedStayRemoved` | `GraphProofs` | `DeadLinksStayDead` |
| `SentArrives` | `GraphProofs` | `[]RoundTripKeepsConnections` |
| `SingleHomedLosesNothing` | `GraphProofs` | `[]LostOnlyMultiHomed` |
| `SwitchesCarry` | `GraphProofs` | `[]NeighboursShareSwitch` |
| `AddressesServe` | `GraphProofs` | `[]AddressesUsable` |
| `PackingProgresses`, `PackingGoesOn` | `GraphProofs` | an iteration of `embed` makes what is left smaller; it can always be taken until `embed` ends |
| `LoadIsMonotone`, `FreeIsInt` | `LoadProofs` | what `Load` defines satisfies `LoadAssumption` and `FreeAssumption` |
| `RelayTyped` | `RelayProofs` | `[]RelayTypeOK` |
| `NoThreadLost` | `RelayProofs` | `[]ThreadsAccounted` |
| `CallersHoldThreads` | `RelayProofs` | `[]WaitersHoldThreads` |
| `RunsOnceAsMeant` | `RelayProofs` | `[]OnceAsMeant` |
| `FailuresKeepThreads` | `RelayProofs` | `OnlyAnswerReleases` |

*Typing.* `TypeOK` is not inductive: that a statement stores a document requires
that the thread holds one. `Typed` adds `Handlers`, what a thread holds at each
point of its handler. The proof first shows that every step executes one
statement of `Database` or none (`NextIsStatement`), so that later proofs about
the tables need not look at handlers.

*Orphans and refinement* follow from the statements alone: DELETE refuses a
referenced row, `SaveMaterialization` requires the blueprint row. No part of
the argument uses the check at the start of delete, which shows that it is the
foreign key and not the check that protects a materialized blueprint.

*Numbers.* Every use of a number is below the sequence (`Below`) and no two
networks use one (`Apart`). `VniStep` sums up what steps can do to numbers: insert
and take in hand, store from hand to memory, lose memory, or free rows.
Only the first creates a use, of the value of the sequence, which by `Below`
nobody uses. Memory needs no cleaning for this: since the sequence never goes
back, stale numbers are harmless.

*Memory.* `MemoryMatchesTable` needs that a number in a construct's hand is
that of the row, if there is one (`HandMatches`). That is inductive only with
the mutex (`MutexHeld`): two constructs that hold numbers of one network
construct documents with a common network, hence of one id, hence own one
mutex. It also needs that memory lists networks under their own document
(`MemOwned`). `destruct` takes no mutex, and the theorem holds without it
because destruct never writes memory.

*Tables.* `Ledger` says what the two tables owe each other at each place of a
handler: between requests the networks with a row are those of what is
materialized (`Level`), and at a place inside the loops of construct and destruct
(`Midway`) exactly the networks that the loop has, or has still, to deal with are
off. It needs that two materializations share no network (`UpApart`), which in
turn needs the last of the hypotheses: `Serial`, so that one thread moves from one
`Level` to the next; nothing lost and nobody killed (the guard in the theorem), since
then the loop stops half way; and `OneSource`, documents of one name or with a
common network have the same networks. The last is not for convenience: with a document and its
recompiled version TLC finds that construct replaces the document of the row, and the
networks of the old one keep their numbers. That is the hazard listed at
`materialization-service.cxx` 178. In an instance where every
document is compiled once, as in `sequential`, `OneSource` holds.

*The host.* `HostInv` adds to the types what a handler holds at each of its places
(`Places`: a thread that launches a computer keeps the finished call that gave it its
id), what `create` returns (`Results`) and that a thread between lock and unlock
owns the mutex (`Holding`). `Exclusion` follows from `Holding` alone; the flag
of the lock object plays no part in the argument, which is why its races are harmless to
exclusion and harmful only to progress. Each action is reduced to a move of its
own thread (`Moves`), so the proof has one short lemma per action.

*The host, one request at a time.* `SerialInv` says of the one thread that is busy
which call of a map it can be in (`Fits`), what that call knows of the id of its key
(`Knows`: an id just returned is still there, one about to be stored is the
counter's), and how far the handler has come (`Progress`: after a
connect that succeeded the image attached is this computer's until its script is on it,
whatever was left there before, or is left behind; machines and ids behind the loop are gone, the
bridge of an id about to be erased is down). Ids differ since the counter is
above all of them. `Serial` cannot be dropped: each of these facts is one that
another thread can change between two steps, and the run `ids_shared` shows that the
first of the properties then fails. When the process ends, maps and calls are
new and the next start kills machines and wipes bridges; pid files, images and what
is attached stay, and `SerialInv` asks nothing of them between two launches.
For `OnlyMissAbandons` `Knows` says that the flag is still set
when `unlock` asks it, since no other thread clears it; so only the `get` of a
missing key leaves between lock and unlock.

*Embedding.* `TestbedInv` is what `embed` maintains from one iteration to the
next (`Packing`): a copy of a host's machines has what the chart has there
and, beyond that, computers of this call only, each in one copy; computers
still to be packed are in none; and what will be returned of a host is the chart's
or one of the copies. So a stale copy can lose a computer, which is found out
before the chart is returned, but cannot place one twice or overload a host. Of
`Overloaded` the proof uses only `LoadAssumption`; the order `Free` gives to hosts
plays no part, and the topology may be any. The refinement maps `Commit` to
`Admit` and a completed `Unembed` to `Evict`, with every connected computer of the
blueprint in `wired` and the rest in `loose`. An `Unembed` completes only if it found
every computer in the chart, and one on no network never gets there, so that
`loose` is then empty. That `Unembed` erases all computers of a
blueprint, also those `embed` did not place, is harmless because
blueprints share no objects (`Apart`, in `GraphInv`).

*Lost computers.* With every host on one switch, a host's copy at its switch is what
will be returned of it, and a computer of the call is still to be packed or on a host
(`HomeInv`). Only a second switch with the same host breaks the first part.

*Links.* `LinksInv`: the ends of links are ids that were drawn, and if such a
computer is there, it has the mac. Each edit keeps it, removal because links are not
looked at, sending because a parsed computer keeps all macs of the document.
An id that is drawn now is no end of a link, hence dead links stay dead.

*Switches.* `SharesInv` is the property for every pair of positions of links, which
is what `Commit` computes (`Spanned`); it is kept by the calls of other blueprints
because networks belong to one blueprint (`NetsInv`) and machines of an embedded
one do not move.

*Addresses.* `NextAddress` is a recursive function over the positions of links. That it
exists (`NextExists`) and never falls, and rises behind each address that is taken
(`NextGrows`), is shown for the least position at which it could be wrong: the
library's induction takes an operator as parameter, but well-founded orders have
minimal elements (`WFMin`), and those of `Nat` give `LeastNat`. Two positions then have
different addresses, and an interface that is on one network only keeps the last
it was given there.

*The end of packing.* Each iteration drops a switch or takes computers from the list, so that
the sum of what is left falls (`PackingProgresses`); the freest host exists, by a
least set of hosts without one, and a host takes the computers before the first
one that overloads it (`PackingGoesOn`). What is left to fairness is that a thread
in a loop goes on.

*Load.* Resources are sums over finite sets, which the library defines by a recursive
function over subsets. `SumIs` shows that it is this recursion, and the lemmas after it
that a sum is a natural number, depends on the values only, can begin with any element, and is no more over
a subset, each for the least set for which it could be wrong.

*Relay.* `RelayInv` relates the two views of each call: what was not
asked has not been served, what was answered is done, whoever waits below is handled
above (and whoever waited for a call that failed, unless his own was given up), and a thread has the request whose handler runs on
it. That levels lead to different servers (`ServersDiffer`) is a lemma about the tables
of routes; so is that what the client's commands name is where both tables lead
them and that the answer has what they read (`Routed`).

*Only model-checked:* liveness under fairness (`EveryRequestAnswered`,
`HandlersEnd`, `EmbedEnds`, `AnsweredUnlessFailed`), which the provers cannot
do; and the five violations, which are behaviours.

## 5. What the model assumes

- Each statement has the connection to itself. In the code all threads of a
  service share one `PGconn`, replaced by `connect()` at every call and not
  locked; what libpq does with one connection in two threads is undefined.
- Requests are well formed, and projects and users exist. A value of the
  wrong JSON type escapes the handlers' catch clauses and ends the process;
  `Kill` covers the effect on the state at any point, not the cause.
- Which computers a blueprint has, addresses, and other content of documents is
  abstracted to whether some computer is on a network.
- A reply that does not reach the client changes nothing in the services, and
  clients may send anything at any time, so lost and repeated requests are
  among the behaviours checked.

- The graphs a program has in `Testbed` do not change while it embeds, since
  `Interface` objects are shared between a blueprint and a chart and the code copies
  neither; and a program embeds a blueprint that is in the chart only after
  it has unembedded it.

## 6. Not modelled

- The race of threads on the shared `PGconn` and the loop in `DB::connect` that retries
  for ever: no outcomes to enumerate, and no promise while the database is away.
- TLS, flow control, the idle timeout of a connection, and a name lookup that
  throws out of a `noexcept` handler; its effect, the end of the process at any
  point, is `Stop`.
- Changes of attributes and interfaces of an object that is in a graph already
  (`Ifxs` and `Specs` give them once); `TestbedTopology::clone`; the allocation
  fields of `Host` and `Switch`, which `embed` does not fill; the disk
  attribute, which JSON does not carry, so that a stored computer has the default.
- What a request with a value of the wrong JSON type does: it depends on the
  exceptions of an external library.
- The numbers of a blueprint that was compiled again while it was materialized
  (section 3, `IdleTablesAgree`), which no text of the repository promises.
- Placements of several materializations on one testbed: `construct` makes a new chart
  from the topology each time, in which nothing is placed. Over a stored topology
  nothing can be, as `service_stops` shows.
- The accounts service, whose handlers answer "not implemented"; `Compilation`,
  a result type with two accessors; the guest tools, one lookup by address; the
  client's compilation of sources, its files and its printing; logging and formatting.
