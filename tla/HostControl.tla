---------------------------- MODULE HostControl ----------------------------
(***************************************************************************)
(* core/host-control.cxx: construct, which works in a detached thread of   *)
(* its own, destruct and list, over what they manage on the host: bridges  *)
(* of Open vSwitch, virtual machines, their pid files and disk images, and *)
(* the one network block device images are prepared through.               *)
(*                                                                         *)
(* createNetworkBridge formats the command that adds the vxlan port        *)
(* without the argument `vni' that it names, so format() throws once the   *)
(* bridge exists: a construct ends at its first network, and only          *)
(* blueprints without networks get as far as launching computers.  No port *)
(* is ever created (vhostId has no key), though ids of ports are looked up *)
(* and erased.                                                             *)
(***************************************************************************)
EXTENDS LinearIdCacheMap

CONSTANTS
  Nets,           \* networks
  Comps,          \* computers
  Blueprints,     \* the documents posted to a host
  Ids,            \* of blueprints, whatever their version
  NoBlueprint,
  NoComp,         \* nothing attached; an image without configuration
  Removed,        \* the image of a computer whose directory was removed
  MaxRequests,    \* bound: requests
  MaxFaults,      \* bound: commands that fail for reasons of their own
  Serial          \* clients wait for the thread of a construct, too

\* A version of a blueprint: its networks and computers, and which computers
\* are linked, to all its networks.  A computer is in versions of one
\* blueprint (clones are left out).  "live" is the lock of live_blueprints.
ASSUME HostAssumption ==
  /\ Blueprints \subseteq [id : Ids, nets : SUBSET Nets, comps : SUBSET Comps,
                          linked : SUBSET Comps]
  /\ \A x, y \in Blueprints : x.comps \cap y.comps # {} => x.id = y.id
  /\ Keys = Nets \cup Comps
  /\ Maps = {"bridge", "qk", "vhost", "live"}
  /\ NoBlueprint \notin Blueprints 
  /\ NoComp \notin Comps /\ Removed \notin Comps \cup {NoComp}
  /\ MaxRequests \in Nat /\ MaxFaults \in Nat /\ Serial \in BOOLEAN

VARIABLES
  up,             \* the process runs
  thr,            \* Threads -> handler in progress
  bridges,        \* ids of the bridges mrtb-vbr-<id>
  vm,             \* Comps -> the machine that runs it
  pids,           \* computers with a pid file in the experiment's directory
  nbd,            \* computer whose image is connected, mounted or both
  image,          \* Comps -> computer whose init script is on the image
  requests, faults

hostVars == <<bridges, vm, pids, nbd, image>>
count == <<requests, faults>>
vars == <<mapVars, up, thr, hostVars, count>>

Pcs == {"idle", "live", "dir", "net", "comp", "detach", "connect", "copy",
        "release", "boot", "kill", "find", "delete", "ports", "clean"}

Handler == [pc : Pcs, bp : Blueprints \cup {NoBlueprint},
            nets : SUBSET Nets, comps : SUBSET Comps]

IdleHandler == [pc |-> "idle", bp |-> NoBlueprint, nets |-> {}, comps |-> {}]

\* port: of vnc and ssh; config: whose init script the image had at boot.
Machine == [port : Nat, config : Comps \cup {NoComp}]

Off == [off |-> TRUE]

Runs(c) == vm[c] # Off

Init ==
  /\ MapInit
  /\ up = TRUE
  /\ thr = [t \in Threads |-> IdleHandler]
  /\ bridges = {}
  /\ vm = [c \in Comps |-> Off]
  /\ pids = {}
  /\ nbd = NoComp
  /\ image = [c \in Comps |-> NoComp]
  /\ requests = 0
  /\ faults = 0

-----------------------------------------------------------------------------
(* Steps of a handler.                                                     *)

At(t, pc) == up /\ thr[t].pc = pc

\* The thread is at pc and makes no call, or its call of op has returned.
Free(t, pc) == At(t, pc) /\ call[t].pc = "none"

Back(t, pc, op) == At(t, pc) /\ Called(t, op)

Goto(t, pc) == thr' = [thr EXCEPT ![t].pc = pc]

End(t) == thr' = [thr EXCEPT ![t] = IdleHandler]

\* A command whose exit code is looked at fails, and execFail throws.
CommandFails(t) ==
  /\ faults < MaxFaults
  /\ faults' = faults + 1
  /\ End(t)
  /\ UNCHANGED <<up, hostVars, requests>>

\* Steps that touch nothing but the handler's place and its call.
OnlyThread == UNCHANGED <<up, hostVars, count>>

\* A call threw: the catch of the handler ends it.
CallThrew(t) ==
  /\ up /\ call[t].pc = "threw"
  /\ EndCall(t)
  /\ End(t)
  /\ OnlyThread

InCall(t) ==
  /\ up
  /\ MapStep(t)
  /\ UNCHANGED thr
  /\ OnlyThread

-----------------------------------------------------------------------------
(* construct                                                               *)

\* live_blueprints.insert_or_assign under lb_lk.  The map is read by info
\* only, which changes nothing.
Live(t) ==
  \/ /\ Free(t, "live")
     /\ MakeCall(t, "live", "section", CHOOSE k \in Keys : TRUE)
     /\ UNCHANGED thr
     /\ OnlyThread
  \/ /\ Back(t, "live", "section")
     /\ EndCall(t)
     /\ Goto(t, "dir")
     /\ OnlyThread

\* The computers whose files are in xpdir(bp).
InDir(bp) == UNION {x.comps : x \in {y \in Blueprints : y.id = bp.id}}

\* rm -rf of xpdir(bp).  An image that is attached stays so without its name.
RemoveDir(bp) ==
  /\ pids' = pids \ InDir(bp)
  /\ nbd' = IF nbd \in InDir(bp) THEN Removed ELSE nbd

\* initXpDir: rm -rf and mkdir.
InitXpDir(t) ==
  /\ Free(t, "dir")
  /\ RemoveDir(thr[t].bp)
  /\ \/ Goto(t, IF thr[t].bp.nets # {} THEN "net" ELSE "comp") /\ UNCHANGED faults
     \/ faults < MaxFaults /\ faults' = faults + 1 /\ End(t)
  /\ UNCHANGED <<mapVars, up, bridges, vm, image, requests>>

\* createNetworkBridge, up to the exception that format() throws.  add-br
\* fails when the bridge is there.
CreateBridge(t) ==
  \/ /\ Free(t, "net")
     /\ \E n \in thr[t].nets : MakeCall(t, "bridge", "create", n)
     /\ UNCHANGED thr
     /\ OnlyThread
  \/ /\ Back(t, "net", "create")
     /\ EndCall(t)
     /\ \/ /\ bridges' = bridges \cup {call[t].id}
           /\ End(t)
           /\ UNCHANGED <<up, vm, pids, nbd, image, count>>
        \/ CommandFails(t)

\* launchVm for the next computer: an id...
CreateId(t) ==
  /\ Free(t, "comp")
  /\ \E c \in thr[t].comps : MakeCall(t, "qk", "create", c)
  /\ UNCHANGED thr
  /\ OnlyThread

\* ...the ids of its ports, of which there are none...
GetPorts(t) ==
  /\ Back(t, "comp", "create")
  /\ call[t].key \in thr[t].bp.linked
  /\ MakeCall(t, "vhost", "get", call[t].key)
  /\ UNCHANGED thr
  /\ OnlyThread

\* ...and an image without configuration.  isLinux says so of every computer,
\* so that launchVm never throws the string it has for others.
CreateImage(t) ==
  /\ Back(t, "comp", "create")
  /\ call[t].key \notin thr[t].bp.linked
  /\ \/ /\ image' = [image EXCEPT ![call[t].key] = NoComp]
        /\ Goto(t, "detach")
        /\ UNCHANGED <<mapVars, up, bridges, vm, pids, nbd, count>>
     \/ CommandFails(t) /\ EndCall(t)

LaunchDone(t) ==
  /\ Free(t, "comp") /\ thr[t].comps = {}
  /\ End(t)
  /\ UNCHANGED mapVars
  /\ OnlyThread

\* The computer being launched, kept in the call that gave it its id.
Launching(t) == call[t].key

\* umount and qemu-nbd --disconnect, after f commands that failed: nobody looks
\* at their exit codes, and when one of the two fails the image stays.
LetGo(f) ==
  \/ nbd' = NoComp /\ faults' = faults + f
  \/ /\ nbd # NoComp /\ faults + f < MaxFaults
     /\ nbd' = nbd /\ faults' = faults + f + 1

\* plopLinuxConfig: unmount and disconnect whatever is hooked up...
Detach(t) ==
  /\ At(t, "detach")
  /\ LetGo(0)
  /\ Goto(t, "connect")
  /\ UNCHANGED <<mapVars, up, bridges, vm, pids, image, requests>>

\* Mutant: exit codes are not looked at here either.
BugConnects(t) ==
  /\ At(t, "connect")
  /\ nbd' = IF nbd = NoComp THEN Launching(t) ELSE nbd
  /\ Goto(t, "copy")
  /\ UNCHANGED <<mapVars, up, bridges, vm, pids, image, count>>

\* ...connect the image, which fails while another one is, and mount it, or
\* disconnect it again, which may fail as well...
Connect(t) ==
  /\ At(t, "connect")
  /\ \/ /\ nbd = NoComp
        /\ nbd' = Launching(t)
        /\ Goto(t, "copy")
        /\ UNCHANGED <<mapVars, up, bridges, vm, pids, image, count>>
     \/ /\ nbd # NoComp
        /\ End(t) /\ EndCall(t)
        /\ OnlyThread
     \/ CommandFails(t) /\ EndCall(t)
     \/ /\ nbd = NoComp /\ faults + 1 < MaxFaults
        /\ nbd' = Launching(t)
        /\ faults' = faults + 2
        /\ End(t) /\ EndCall(t)
        /\ UNCHANGED <<up, bridges, vm, pids, image, requests>>

\* The images once the script of t is on the one that is mounted, if any.
Written(t) ==
  IF nbd \in Comps THEN [image EXCEPT ![nbd] = Launching(t)] ELSE image

\* ...copy the init script and the rest to whatever is mounted; a command that
\* fails comes before or after the script...
Copy(t) ==
  /\ At(t, "copy")
  /\ \/ /\ image' = Written(t)
        /\ Goto(t, "release")
        /\ UNCHANGED <<mapVars, up, bridges, vm, pids, nbd, count>>
     \/ /\ faults < MaxFaults
        /\ LetGo(1)
        /\ image' \in {image, Written(t)}
        /\ End(t) /\ EndCall(t)
        /\ UNCHANGED <<up, bridges, vm, pids, requests>>

\* ...and let the image go.
Release(t) ==
  /\ At(t, "release")
  /\ LetGo(0)
  /\ Goto(t, "boot")
  /\ UNCHANGED <<mapVars, up, bridges, vm, pids, image, requests>>

PortInUse(p) == \E c \in Comps : Runs(c) /\ vm[c].port = p

\* qemu-system-x86_64: fails when its vnc and ssh ports are in use.
Boot(t) ==
  /\ At(t, "boot")
  /\ EndCall(t)
  /\ LET c == Launching(t)
     IN  \/ /\ ~ PortInUse(call[t].id)
            /\ vm' = [vm EXCEPT ![c] = [port |-> call[t].id, config |-> image[c]]]
            /\ pids' = pids \cup {c}
            /\ thr' = [thr EXCEPT ![t].pc = "comp", ![t].comps = @ \ {c}]
            /\ UNCHANGED <<up, bridges, nbd, image, count>>
         \/ PortInUse(call[t].id) /\ End(t) /\ OnlyThread
         \/ CommandFails(t)

-----------------------------------------------------------------------------
(* destruct                                                                *)

\* Mutant: the exit code of kill is ignored.
BugIgnoresKill(t) ==
  \/ /\ Free(t, "kill")
     /\ \E c \in thr[t].comps :
          /\ vm' = IF c \in pids THEN [vm EXCEPT ![c] = Off] ELSE vm
          /\ MakeCall(t, "qk", "erase", c)
          /\ UNCHANGED <<up, thr, bridges, pids, nbd, image, count>>
  \/ /\ Back(t, "kill", "erase")
     /\ thr' = [thr EXCEPT ![t].comps = @ \ {call[t].key}]
     /\ EndCall(t)
     /\ OnlyThread
  \/ /\ Free(t, "kill") /\ thr[t].comps = {}
     /\ Goto(t, "find")
     /\ UNCHANGED mapVars
     /\ OnlyThread

\* terminateComputers: kill by pid file, which fails when there is none or
\* its process is gone, then forget the id.
Terminate(t) ==
  \/ /\ Free(t, "kill")
     /\ \E c \in thr[t].comps :
          \/ /\ c \in pids /\ Runs(c)
             /\ vm' = [vm EXCEPT ![c] = Off]
             /\ MakeCall(t, "qk", "erase", c)
             /\ UNCHANGED <<up, thr, bridges, pids, nbd, image, count>>
          \/ /\ ~ (c \in pids /\ Runs(c))
             /\ End(t)
             /\ UNCHANGED mapVars
             /\ OnlyThread
  \/ /\ Back(t, "kill", "erase")
     /\ thr' = [thr EXCEPT ![t].comps = @ \ {call[t].key}]
     /\ EndCall(t)
     /\ OnlyThread
  \/ /\ Free(t, "kill") /\ thr[t].comps = {}
     /\ Goto(t, "find")
     /\ UNCHANGED mapVars
     /\ OnlyThread

\* terminateNetworks: look the id of a bridge up...
FindBridge(t) ==
  \/ /\ Free(t, "find")
     /\ \E n \in thr[t].nets : MakeCall(t, "bridge", "get", n)
     /\ UNCHANGED thr
     /\ OnlyThread
  \/ /\ Free(t, "find") /\ thr[t].nets = {}
     /\ Goto(t, "clean")
     /\ UNCHANGED mapVars
     /\ OnlyThread

\* ...delete the bridge, which fails when there is none, and forget the id,
\* mutant: the other way round...
BugForgetsFirst(t) ==
  \/ /\ Back(t, "find", "get")
     /\ MakeCall(t, "bridge", "erase", call[t].key)
     /\ Goto(t, "delete")
     /\ OnlyThread
  \/ /\ Back(t, "delete", "erase")
     /\ thr' = [thr EXCEPT ![t].pc = "ports", ![t].comps = thr[t].bp.linked,
                           ![t].nets = @ \ {call[t].key}]
     /\ EndCall(t)
     /\ \/ bridges' = {b \in bridges : \E n \in Nets : ids["bridge"][n] = b}
           /\ UNCHANGED faults
        \/ faults < MaxFaults /\ faults' = faults + 1 /\ UNCHANGED bridges
     /\ UNCHANGED <<up, vm, pids, nbd, image, requests>>

DeleteBridge(t) ==
  \/ /\ Back(t, "find", "get")
     /\ \/ /\ call[t].id \in bridges
           /\ bridges' = bridges \ {call[t].id}
           /\ MakeCall(t, "bridge", "erase", call[t].key)
           /\ Goto(t, "delete")
           /\ UNCHANGED <<up, vm, pids, nbd, image, count>>
        \/ /\ call[t].id \notin bridges
           /\ End(t) /\ EndCall(t)
           /\ OnlyThread
        \/ CommandFails(t) /\ EndCall(t)
  \/ /\ Back(t, "delete", "erase")
     /\ thr' = [thr EXCEPT ![t].pc = "ports", ![t].comps = thr[t].bp.linked,
                           ![t].nets = @ \ {call[t].key}]
     /\ EndCall(t)
     /\ OnlyThread

\* ...and the ids of the ports on it.
ErasePorts(t) ==
  \/ /\ Free(t, "ports")
     /\ \E c \in thr[t].comps : MakeCall(t, "vhost", "erase", c)
     /\ UNCHANGED thr
     /\ OnlyThread
  \/ /\ Back(t, "ports", "erase")
     /\ thr' = [thr EXCEPT ![t].comps = @ \ {call[t].key}]
     /\ EndCall(t)
     /\ OnlyThread
  \/ /\ Free(t, "ports") /\ thr[t].comps = {}
     /\ Goto(t, "find")
     /\ UNCHANGED mapVars
     /\ OnlyThread

\* delXpDir, and "ok".
DelXpDir(t) ==
  /\ Free(t, "clean")
  /\ RemoveDir(thr[t].bp)
  /\ End(t)
  /\ UNCHANGED <<mapVars, up, bridges, vm, image, count>>

-----------------------------------------------------------------------------
(* Requests, and the process.                                              *)

Idle == \A t \in Threads : thr[t].pc = "idle"

OneMoreRequest ==
  /\ up
  /\ requests < MaxRequests
  /\ requests' = requests + 1
  /\ Serial => Idle

Accept(t, pc) ==
  /\ OneMoreRequest
  /\ thr[t].pc = "idle"
  /\ \E bp \in Blueprints :
       thr' = [thr EXCEPT ![t] =
                 [pc |-> pc, bp |-> bp, nets |-> bp.nets, comps |-> bp.comps]]
  /\ UNCHANGED <<mapVars, up, hostVars, faults>>

Construct(t) == Accept(t, "live")
Destruct(t) == Accept(t, "kill")

\* list throws outside every try: the process ends, what it started stays.
List ==
  /\ OneMoreRequest
  /\ up' = FALSE
  /\ thr' = [t \in Threads |-> IdleHandler]
  /\ MapReset
  /\ UNCHANGED <<hostVars, faults>>

\* main: initQemuKvm kills every machine, initOvs wipes the bridges, and
\* ends the process again when one of its commands fails.
Restart ==
  /\ ~ up
  /\ \/ up' = TRUE /\ UNCHANGED faults
     \/ faults < MaxFaults /\ faults' = faults + 1 /\ UNCHANGED up
  /\ vm' = [c \in Comps |-> Off]
  /\ bridges' = {}
  /\ UNCHANGED <<mapVars, thr, pids, nbd, image, requests>>

ConstructStep(t) ==
  \/ Live(t) \/ InitXpDir(t) \/ CreateBridge(t) \/ CreateId(t) \/ GetPorts(t)
  \/ CreateImage(t) \/ LaunchDone(t)
  \/ Detach(t) \/ Connect(t) \/ Copy(t) \/ Release(t) \/ Boot(t)

DestructStep(t) ==
  Terminate(t) \/ FindBridge(t) \/ DeleteBridge(t) \/ ErasePorts(t) \/ DelXpDir(t)

HandlerStep(t) ==
  ConstructStep(t) \/ DestructStep(t) \/ InCall(t) \/ CallThrew(t)

Quiet == requests = MaxRequests /\ Idle /\ up /\ UNCHANGED vars

Next ==
  \/ \E t \in Threads : Construct(t) \/ Destruct(t) \/ HandlerStep(t)
  \/ List
  \/ Restart
  \/ Quiet

Spec == Init /\ [][Next]_vars

\* Threads are scheduled, and commands end.
FairSpec == Spec /\ \A t \in Threads : WF_vars(HandlerStep(t))

-----------------------------------------------------------------------------
(* Properties.                                                             *)

\* Every variable stays in its domain, and a thread makes calls in a handler.
HostTypeOK ==
  /\ MapTypeOK
  /\ up \in BOOLEAN
  /\ thr \in [Threads -> Handler]
  /\ bridges \subseteq Nat
  /\ vm \in [Comps -> Machine \cup {Off}]
  /\ pids \subseteq Comps
  /\ nbd \in Comps \cup {NoComp, Removed}
  /\ image \in [Comps -> Comps \cup {NoComp}]
  /\ requests \in Nat /\ faults \in Nat
  /\ \A t \in Threads : thr[t].pc = "idle" => call[t] = NoCall

\* No two threads are ever between lock and unlock of one map, the lock object
\* they share notwithstanding.
Exclusion ==
  \A t, u \in Threads :
    /\ t # u
    /\ call[t].pc \in {"inside", "unlock"} /\ call[u].pc \in {"inside", "unlock"}
    => call[t].map # call[u].map

\* No two keys of a map have one id: not two networks one bridge, not two
\* computers one vnc port, "these data structures are thread safe"
\* (core/host-control.cxx:53).
IdsDistinct ==
  \A m \in Maps : \A j, k \in Keys :
    ids[m][j] = ids[m][k] /\ ids[m][j] # NoId => j = k

\* No bridge on the host is forgotten: whatever fails on the way, and whether
\* add-br or del-br comes before or after create or erase, bridgeId has a
\* network for each bridge as long as the process lives.  This does not say
\* that a destruct can still ask: after one get of a missing key the lock of
\* bridgeId stays taken (core/util.hxx:148) until the process ends, and with
\* it every later lookup.
BridgesKnown == up => \A b \in bridges : \E n \in Nets : ids["bridge"][n] = b

\* A machine runs with its own init script: not with that of another computer,
\* and not without one, although a umount or a disconnect that fails unseen
\* leaves an image on the one block device when the next computer's turn
\* comes (core/host-control.cxx:247-248).
BootsOwnConfig == \A c \in Comps : Runs(c) => vm[c].config = c

\* A destruct about to answer "ok" has left no machine of its blueprint, and
\* no id of its networks and computers that another construct would take up.
DestructedIsDown ==
  \A t \in Threads : thr[t].pc = "clean" =>
    /\ \A c \in thr[t].bp.comps : ~ Runs(c) /\ ids["qk"][c] = NoId
    /\ \A n \in thr[t].bp.nets : ids["bridge"][n] = NoId

\* The mutex of m is held by a thread that will not release it.
Abandoned(m) ==
  /\ mtx[m] # NoThread
  /\ LET c == call[mtx[m]]
     IN  ~ (c.pc \in {"inside", "unlock"} /\ c.map = m)

\* A lock is abandoned only where get looks for a key that is not there.
OnlyMissAbandons ==
  [][\A m \in Maps : ~ Abandoned(m) /\ Abandoned(m)' =>
       LET c == call[mtx[m]] IN c.op = "get" /\ ids[m][c.key] = NoId]_vars

\* Every handler ends, also after a lock was abandoned.
HandlersEnd == \A t \in Threads : thr[t].pc # "idle" ~> thr[t].pc = "idle"

=============================================================================
