------------------------- MODULE HostControlProofs -------------------------
(***************************************************************************)
(* HostControl keeps its types, and the lock object that all threads share *)
(* still keeps them apart, for any number of threads and overlapping       *)
(* requests.                                                               *)
(***************************************************************************)
EXTENDS HostControl, TLAPS

\* Where a computer is being launched, with its id in the finished call.
Launches == {"detach", "connect", "copy", "release", "boot"}

\* What a handler h holds at each of its places, c being its call.
Place(h, c) ==
  /\ h.pc = "idle" => c = NoCall
  /\ h.pc # "idle" => h.bp \in Blueprints
  /\ h.pc \in Launches \cup {"comp"} /\ c.pc # "none" => c.key \in Comps
  /\ h.pc \in Launches => c.pc = "returned" /\ c.id \in Nat

Places == \A t \in Threads : Place(thr[t], call[t])

\* What create returns is a number.
Results ==
  \A t \in Threads :
    \/ call[t].pc = "store"
    \/ call[t].pc = "returned" /\ call[t].op = "create"
    => call[t].id \in Nat

\* Who is between lock and unlock owns the mutex.
Holding ==
  \A t \in Threads :
    call[t].pc \in {"inside", "unlock"} => mtx[call[t].map] = t

MapInv == MapTypeOK /\ Results /\ Holding

\* What is neither maps nor threads.
Things ==
  /\ up \in BOOLEAN
  /\ bridges \subseteq Nat
  /\ vm \in [Comps -> Machine \cup {Off}]
  /\ pids \subseteq Comps
  /\ nbd \in Comps \cup {NoComp, Removed}
  /\ image \in [Comps -> Comps \cup {NoComp}]
  /\ requests \in Nat /\ faults \in Nat

HostInv ==
  /\ MapInv
  /\ thr \in [Threads -> Handler]
  /\ Things
  /\ Places

-----------------------------------------------------------------------------
(* The maps.                                                               *)

\* A step inside a call keeps the map's invariant and the call's key, and is
\* none of a finished call.
LEMMA MapStepKeeps ==
  ASSUME MapInv, NEW t \in Threads, MapStep(t)
  PROVE  /\ MapInv'
         /\ \A u \in Threads \ {t} : call'[u] = call[u]
         /\ call[t].pc \notin {"none", "returned", "threw"}
         /\ call'[t].pc # "none"
         /\ call'[t].key = call[t].key
<1> DEFINE m == call[t].map
           k == call[t].key
           Rec == [pc : CallPcs, map : Maps, op : Ops, key : Keys,
                   id : Nat \cup {NoId}]
<1>0. ASSUME call[t].pc # "none"
      PROVE  call[t] \in Rec
  BY <1>0 DEF MapInv, MapTypeOK, Calls, NoCall
<1> USE MapAssumption DEF MapInv, MapTypeOK, Results, Holding, Calls, CallPcs,
        Ops, NoCall, Advance
<1>1. CASE Lock(t)
  <2>1. CASE owns[m]
    BY <1>0, <1>1, <2>1 DEF Lock
  <2>2. CASE ~ owns[m]
    BY <1>0, <1>1, <2>2 DEF Lock
  <2> QED
    BY <2>1, <2>2
<1>2. CASE Take(t)
  <2> DEFINE c == [call[t] EXCEPT !.pc = "inside"]
  <2>1. /\ call[t].pc = "take" /\ mtx[m] = NoThread
        /\ call' = [call EXCEPT ![t] = c]
        /\ mtx' = [mtx EXCEPT ![m] = t]
        /\ owns' = [owns EXCEPT ![m] = TRUE]
        /\ UNCHANGED <<nextId, ids>>
    BY <1>2 DEF Take
  <2>2. call[t] \in Rec
    BY <1>0, <2>1
  <2>3. c \in Rec /\ c.pc = "inside" /\ c.map = m /\ c.key = k
    BY <2>2
  <2> HIDE DEF c
  <2>4. MapTypeOK'
    BY <2>1, <2>2, <2>3
  <2> QED
    BY <2>1, <2>2, <2>3, <2>4
<1>3. CASE Inside(t)
  <2> DEFINE c == [call[t] EXCEPT
             !.id = IF call[t].op \in {"create", "get"} THEN ids[m][k] ELSE NoId,
             !.pc = IF call[t].op = "get" /\ ids[m][k] = NoId
                    THEN "threw" ELSE "unlock"]
  <2>1. /\ call[t].pc = "inside"
        /\ call' = [call EXCEPT ![t] = c]
        /\ UNCHANGED <<mtx, owns, nextId>>
    BY <1>3 DEF Inside
  <2>2. call[t] \in Rec
    BY <1>0, <2>1
  <2>3. ids[m][k] \in Nat \cup {NoId}
    BY <2>2
  <2>4. c \in Rec /\ c.pc \in {"threw", "unlock"} /\ c.map = m /\ c.key = k
    BY <2>2, <2>3
  <2>5. ids' \in [Maps -> [Keys -> Nat \cup {NoId}]]
    BY <1>3, <2>2 DEF Inside
  <2> HIDE DEF c, Rec
  <2>6. MapTypeOK'
    BY <2>1, <2>4, <2>5 DEF Rec
  <2> QED
    BY <2>1, <2>4, <2>6
<1>4. CASE Unlock(t)
  <2>1. CASE /\ owns[m] /\ mtx' = [mtx EXCEPT ![m] = NoThread]
             /\ Advance(t, "disown")
    <3> DEFINE c == [call[t] EXCEPT !.pc = "disown"]
    <3>1. /\ call[t].pc = "unlock"
          /\ call' = [call EXCEPT ![t] = c]
          /\ UNCHANGED <<owns, nextId, ids>>
      BY <1>4, <2>1 DEF Unlock
    <3>2. call[t] \in Rec
      BY <1>0, <3>1
    <3>3. c \in Rec /\ c.pc = "disown" /\ c.map = m /\ c.key = k
      BY <3>2
    <3> HIDE DEF c, Rec
    <3>4. MapTypeOK'
      <4>1. call' \in [Threads -> Calls]
        BY <3>1, <3>3 DEF Rec
      <4>2. mtx' \in [Maps -> Threads \cup {NoThread}]
        BY <2>1
      <4> QED
        BY <3>1, <4>1, <4>2
    <3>5. Holding'
      <4>1. \A u \in Threads \ {t} : call'[u] = call[u]
        BY <3>1
      <4>2. \A u \in Threads \ {t} : call[u].pc \in {"inside", "unlock"} =>
              mtx[call[u].map] # t
        OBVIOUS
      <4>3. mtx[m] = t
        BY <3>1
      <4>4. m \in Maps
        BY <3>2 DEF Rec
      <4>5. \A n \in Maps : n # m => mtx'[n] = mtx[n]
        BY <2>1
      <4>6. \A u \in Threads : call[u].pc \in {"inside", "unlock"} =>
              call[u].map \in Maps
        OBVIOUS
      <4>7. call'[t].pc = "disown"
        BY <3>1, <3>3
      <4> QED
        BY <4>1, <4>2, <4>3, <4>4, <4>5, <4>6, <4>7
    <3> QED
      BY <3>1, <3>3, <3>4, <3>5
  <2>2. CASE ~ owns[m] /\ UNCHANGED mtx /\ Advance(t, "threw")
    BY <1>0, <1>4, <2>2 DEF Unlock
  <2> QED
    BY <1>4, <2>1, <2>2 DEF Unlock
<1>5. CASE Disown(t)
  <2> DEFINE c == [call[t] EXCEPT
             !.pc = IF call[t].op = "create" /\ call[t].id = NoId
                    THEN "draw" ELSE "returned"]
  <2>1. /\ call[t].pc = "disown"
        /\ call' = [call EXCEPT ![t] = c]
        /\ owns' = [owns EXCEPT ![m] = FALSE]
        /\ UNCHANGED <<mtx, nextId, ids>>
    BY <1>5 DEF Disown
  <2>2. call[t] \in Rec
    BY <1>0, <2>1
  <2>3. /\ c \in Rec /\ c.pc \in {"draw", "returned"}
        /\ c.key = k
        /\ c.pc = "returned" /\ c.op = "create" => c.id \in Nat
    <3>1. CASE call[t].op = "create" /\ call[t].id = NoId
      BY <2>2, <3>1
    <3>2. CASE ~ (call[t].op = "create" /\ call[t].id = NoId)
      BY <2>2, <3>2
    <3> QED
      BY <3>1, <3>2
  <2> HIDE DEF c, Rec
  <2>4. MapTypeOK'
    BY <2>1, <2>3 DEF Rec
  <2> QED
    BY <2>1, <2>3, <2>4
<1>6. CASE Draw(t)
  <2> DEFINE c == [call[t] EXCEPT !.pc = "store", !.id = nextId[m]]
  <2>1. /\ call[t].pc = "draw"
        /\ call' = [call EXCEPT ![t] = c]
        /\ UNCHANGED <<mtx, owns, nextId, ids>>
    BY <1>6 DEF Draw
  <2>2. call[t] \in Rec
    BY <1>0, <2>1
  <2>3. nextId[m] \in Nat
    BY <2>2
  <2>4. c \in Rec /\ c.pc = "store" /\ c.key = k /\ c.id \in Nat
    BY <2>2, <2>3
  <2> HIDE DEF c, Rec
  <2>5. MapTypeOK'
    BY <2>1, <2>4 DEF Rec
  <2> QED
    BY <2>1, <2>4, <2>5
<1>7. CASE Store(t)
  <2> DEFINE c == [call[t] EXCEPT !.pc = "returned"]
  <2>1. /\ call[t].pc = "store"
        /\ call' = [call EXCEPT ![t] = c]
        /\ nextId' = [nextId EXCEPT ![m] = call[t].id + 1]
        /\ ids' = [ids EXCEPT ![m][k] = call[t].id]
        /\ UNCHANGED <<mtx, owns>>
    BY <1>7 DEF Store
  <2>2. call[t] \in Rec /\ call[t].id \in Nat
    BY <1>0, <2>1
  <2>3. c \in Rec /\ c.pc = "returned" /\ c.key = k /\ c.id \in Nat
    BY <2>2
  <2>4. /\ ids' \in [Maps -> [Keys -> Nat \cup {NoId}]]
        /\ nextId' \in [Maps -> Nat]
    BY <2>1, <2>2
  <2> HIDE DEF c, Rec
  <2>5. MapTypeOK'
    BY <2>1, <2>3, <2>4 DEF Rec
  <2> QED
    BY <2>1, <2>3, <2>5
<1> QED
  BY <1>1, <1>2, <1>3, <1>4, <1>5, <1>6, <1>7 DEF MapStep

\* Making a call, ending one and losing all keep the map's invariant.
LEMMA MakeCallKeeps ==
  ASSUME MapInv, NEW t \in Threads, NEW m \in Maps, NEW op \in Ops,
         NEW k \in Keys, MakeCall(t, m, op, k)
  PROVE  MapInv' /\ call' = [call EXCEPT ![t] = Invocation(m, op, k)]
BY DEF MapInv, MapTypeOK, Results, Holding, Calls, CallPcs, MakeCall, Invocation

LEMMA EndCallKeeps ==
  ASSUME MapInv, NEW t \in Threads, EndCall(t)
  PROVE  MapInv' /\ call' = [call EXCEPT ![t] = NoCall]
BY DEF MapInv, MapTypeOK, Results, Holding, Calls, CallPcs, EndCall, NoCall

LEMMA MapSame ==
  ASSUME MapInv, UNCHANGED mapVars
  PROVE  MapInv'
BY DEF MapInv, MapTypeOK, Results, Holding, mapVars

LEMMA MapStarts ==
  MapInit => MapInv /\ call = [t \in Threads |-> NoCall]
BY MapAssumption DEF MapInit, NewMaps, MapInv, MapTypeOK, Results, Holding, Calls,
   CallPcs, NoCall

LEMMA MapRestarts ==
  MapReset => MapInv' /\ call' = [t \in Threads |-> NoCall]
BY MapAssumption DEF MapReset, NewMaps, MapInv, MapTypeOK, Results, Holding, Calls,
   CallPcs, NoCall

-----------------------------------------------------------------------------
(* Handlers.                                                               *)

\* A step of one thread keeps the invariant if it does so for that thread.
LEMMA Moves ==
  ASSUME HostInv, MapInv', Things', NEW t \in Threads, NEW h \in Handler,
         thr' = [thr EXCEPT ![t] = h],
         \A u \in Threads \ {t} : call'[u] = call[u],
         Place(h, call'[t])
  PROVE  HostInv'
<1>1. thr' \in [Threads -> Handler]
  BY DEF HostInv
<1>2. \A u \in Threads : Place(thr'[u], call'[u])
  BY DEF HostInv, Places
<1> QED
  BY <1>1, <1>2 DEF HostInv, Places

\* A handler ends, with its call if it has one.
LEMMA Ends ==
  ASSUME HostInv, Things', NEW t \in Threads, End(t),
         EndCall(t) \/ (UNCHANGED mapVars /\ call[t].pc = "none")
  PROVE  HostInv'
<1>1. IdleHandler \in Handler
  BY DEF IdleHandler, Handler, Pcs
<1>2. MapInv' /\ \A u \in Threads \ {t} : call'[u] = call[u]
  <2>1. CASE EndCall(t)
    BY <2>1, EndCallKeeps DEF HostInv, MapInv, MapTypeOK
  <2>2. CASE UNCHANGED mapVars
    BY <2>2, MapSame DEF HostInv, mapVars
  <2> QED
    BY <2>1, <2>2
<1>3. call'[t] = NoCall
  <2>1. CASE EndCall(t)
    BY <2>1, EndCallKeeps DEF HostInv, MapInv, MapTypeOK
  <2>2. CASE UNCHANGED mapVars /\ call[t].pc = "none"
    BY <2>2 DEF HostInv, MapInv, MapTypeOK, Calls, CallPcs, NoCall, mapVars
  <2> QED
    BY <2>1, <2>2
<1>4. Place(IdleHandler, call'[t])
  BY <1>3 DEF Place, IdleHandler, Launches, NoCall
<1> QED
  BY <1>1, <1>2, <1>4, Moves DEF End

\* A handler makes a call and stays out of launching.
LEMMA CallsMap ==
  ASSUME HostInv, Things', NEW t \in Threads, NEW h \in Handler,
         NEW m \in Maps, NEW op \in Ops, NEW k \in Keys,
         MakeCall(t, m, op, k), thr' = [thr EXCEPT ![t] = h],
         h.pc # "idle", h.bp \in Blueprints, h.pc \notin Launches,
         h.pc = "comp" => k \in Comps
  PROVE  HostInv'
<1>1. MapInv' /\ call' = [call EXCEPT ![t] = Invocation(m, op, k)]
  BY MakeCallKeeps DEF HostInv
<1>2. /\ \A u \in Threads \ {t} : call'[u] = call[u]
      /\ call'[t] = Invocation(m, op, k)
  BY <1>1 DEF HostInv, MapInv, MapTypeOK
<1>3. Place(h, call'[t])
  BY <1>2 DEF Place, Invocation
<1> QED
  BY <1>1, <1>2, <1>3, Moves

\* A call of a handler ends, or it had none, and the handler goes on.
LEMMA GoesOn ==
  ASSUME HostInv, Things', NEW t \in Threads, NEW h \in Handler,
         EndCall(t) \/ (UNCHANGED mapVars /\ call[t].pc = "none"),
         thr' = [thr EXCEPT ![t] = h],
         h.pc # "idle", h.bp \in Blueprints, h.pc \notin Launches
  PROVE  HostInv'
<1>1. MapInv' /\ \A u \in Threads \ {t} : call'[u] = call[u]
  <2>1. CASE EndCall(t)
    BY <2>1, EndCallKeeps DEF HostInv, MapInv, MapTypeOK
  <2>2. CASE UNCHANGED mapVars
    BY <2>2, MapSame DEF HostInv, mapVars
  <2> QED
    BY <2>1, <2>2
<1>2. call'[t].pc = "none"
  <2>1. CASE EndCall(t)
    BY <2>1, EndCallKeeps DEF HostInv, MapInv, MapTypeOK, NoCall
  <2>2. CASE UNCHANGED mapVars /\ call[t].pc = "none"
    BY <2>2 DEF mapVars
  <2> QED
    BY <2>1, <2>2
<1>3. Place(h, call'[t])
  BY <1>2 DEF Place
<1> QED
  BY <1>1, <1>3, Moves

\* A handler that launches a computer goes on to launch it.
LEMMA Launches1 ==
  ASSUME HostInv, Things', NEW t \in Threads, NEW h \in Handler,
         UNCHANGED mapVars, thr' = [thr EXCEPT ![t] = h],
         h.bp = thr[t].bp, h.pc \in Launches, thr[t].pc \in Launches
  PROVE  HostInv'
<1>1. MapInv' /\ call' = call
  BY MapSame DEF HostInv, mapVars
<1>2. Place(h, call'[t])
  BY <1>1 DEF Place, HostInv, Places, Launches
<1> QED
  BY <1>1, <1>2, Moves

-----------------------------------------------------------------------------
(* The actions.                                                            *)

\* What each action's proof starts from: its thread and its thread's call.
LEMMA AtPlace ==
  ASSUME HostInv, NEW t \in Threads
  PROVE  /\ thr[t] \in Handler /\ Things
         /\ Place(thr[t], call[t])
         /\ call[t] \in Calls
         /\ call[t].pc = "returned" /\ call[t].op = "create" => call[t].id \in Nat
         /\ "bridge" \in Maps /\ "qk" \in Maps /\ "vhost" \in Maps /\ "live" \in Maps
BY HostAssumption DEF HostInv, Places, MapInv, MapTypeOK, Results

LEMMA InCallKeeps ==
  ASSUME HostInv, NEW t \in Threads, InCall(t)
  PROVE  HostInv'
<1>1. /\ MapInv'
      /\ \A u \in Threads \ {t} : call'[u] = call[u]
      /\ call[t].pc \notin {"none", "returned", "threw"}
      /\ call'[t].pc # "none"
      /\ call'[t].key = call[t].key
  BY MapStepKeeps DEF InCall, HostInv
<1>2. Place(thr[t], call'[t])
  BY <1>1, AtPlace DEF Place, NoCall
<1>3. Things' /\ thr' = [thr EXCEPT ![t] = thr[t]]
  BY DEF InCall, OnlyThread, hostVars, count, HostInv, Things
<1> QED
  BY <1>1, <1>2, <1>3, AtPlace, Moves

LEMMA CallThrewKeeps ==
  ASSUME HostInv, NEW t \in Threads, CallThrew(t)
  PROVE  HostInv'
BY Ends DEF CallThrew, OnlyThread, hostVars, count, HostInv, Things

LEMMA LiveKeeps ==
  ASSUME HostInv, NEW t \in Threads, Live(t)
  PROVE  HostInv'
<1>1. Things'
  BY AtPlace DEF Live, OnlyThread, hostVars, count, Things
<1>2. CASE Free(t, "live")
  <2>1. (CHOOSE k \in Keys : TRUE) \in Keys
    BY MapAssumption
  <2>2. /\ MakeCall(t, "live", "section", CHOOSE k \in Keys : TRUE)
        /\ thr' = [thr EXCEPT ![t] = thr[t]]
        /\ thr[t].pc = "live"
    BY <1>2 DEF Live, Free, At, Back, Called, HostInv
  <2> QED
    BY <1>1, <2>1, <2>2, AtPlace, CallsMap DEF Ops, Place, Launches
<1>3. CASE ~ Free(t, "live")
  <2> DEFINE h == [thr[t] EXCEPT !.pc = "dir"]
  <2>1. EndCall(t) /\ thr' = [thr EXCEPT ![t] = h] /\ thr[t].pc = "live"
    BY <1>3 DEF Live, Back, At, Goto
  <2>2. h \in Handler /\ h.pc = "dir" /\ h.bp \in Blueprints
    BY <2>1, AtPlace DEF Handler, Pcs, Place
  <2> HIDE DEF h
  <2> QED
    BY <1>1, <2>1, <2>2, GoesOn DEF Launches
<1> QED
  BY <1>2, <1>3

LEMMA InitXpDirKeeps ==
  ASSUME HostInv, NEW t \in Threads, InitXpDir(t)
  PROVE  HostInv'
<1>1. Things' /\ UNCHANGED mapVars /\ call[t].pc = "none" /\ thr[t].pc = "dir"
  BY AtPlace DEF InitXpDir, RemoveDir, Free, At, Things
<1>2. CASE End(t)
  BY <1>1, <1>2, Ends
<1>3. ASSUME NEW pc \in {"net", "comp"}, Goto(t, pc)
      PROVE  HostInv'
  <2> DEFINE h == [thr[t] EXCEPT !.pc = pc]
  <2>1. h \in Handler /\ h.pc = pc /\ h.bp \in Blueprints
    BY <1>1, AtPlace DEF Handler, Pcs, Place
  <2>2. thr' = [thr EXCEPT ![t] = h]
    BY <1>3 DEF Goto
  <2> HIDE DEF h
  <2> QED
    BY <1>1, <2>1, <2>2, GoesOn DEF Launches
<1> QED
  BY <1>2, <1>3 DEF InitXpDir

LEMMA CreateBridgeKeeps ==
  ASSUME HostInv, NEW t \in Threads, CreateBridge(t)
  PROVE  HostInv'
<1>1. CASE Free(t, "net")
  <2>1. /\ Things' /\ thr' = [thr EXCEPT ![t] = thr[t]] /\ thr[t].pc = "net"
        /\ \E n \in thr[t].nets : MakeCall(t, "bridge", "create", n)
    BY <1>1 DEF CreateBridge, Free, At, Back, Called, OnlyThread, hostVars, count,
       Things, HostInv
  <2>2. thr[t].nets \subseteq Keys
    BY AtPlace, HostAssumption DEF Handler
  <2> QED
    BY <2>1, <2>2, AtPlace, CallsMap DEF Ops, Place, Launches
<1>2. CASE Back(t, "net", "create")
  <2>1. EndCall(t) /\ End(t)
    BY <1>2 DEF CreateBridge, Free, Back, Called, CommandFails
  <2>2. call[t].id \in Nat
    BY <1>2, AtPlace DEF Back, Called
  <2>3. Things'
    BY <1>2, <2>2, AtPlace
       DEF CreateBridge, Free, Back, Called, CommandFails, hostVars, count, Things
  <2> QED
    BY <2>1, <2>3, Ends
<1> QED
  BY <1>1, <1>2 DEF CreateBridge

LEMMA CreateIdKeeps ==
  ASSUME HostInv, NEW t \in Threads, CreateId(t)
  PROVE  HostInv'
<1>1. /\ Things' /\ thr' = [thr EXCEPT ![t] = thr[t]] /\ thr[t].pc = "comp"
      /\ \E c \in thr[t].comps : MakeCall(t, "qk", "create", c)
  BY DEF CreateId, Free, At, OnlyThread, hostVars, count, Things, HostInv
<1>2. thr[t].comps \subseteq Keys \cap Comps
  BY AtPlace, HostAssumption DEF Handler
<1> QED
  BY <1>1, <1>2, AtPlace, CallsMap DEF Ops, Place, Launches

LEMMA GetPortsKeeps ==
  ASSUME HostInv, NEW t \in Threads, GetPorts(t)
  PROVE  HostInv'
<1>1. /\ Things' /\ thr' = [thr EXCEPT ![t] = thr[t]] /\ thr[t].pc = "comp"
      /\ MakeCall(t, "vhost", "get", call[t].key)
      /\ call[t].pc # "none"
  BY DEF GetPorts, Back, Called, At, OnlyThread, hostVars, count, Things, HostInv
<1>2. call[t].key \in Comps /\ call[t].key \in Keys
  BY <1>1, AtPlace, HostAssumption DEF Place
<1> QED
  BY <1>1, <1>2, AtPlace, CallsMap DEF Ops, Place, Launches

LEMMA CreateImageKeeps ==
  ASSUME HostInv, NEW t \in Threads, CreateImage(t)
  PROVE  HostInv'
<1>1. /\ thr[t].pc = "comp" /\ call[t].pc = "returned" /\ call[t].id \in Nat
      /\ call[t].key \in Comps
  BY AtPlace DEF CreateImage, Back, Called, At, Place
<1>2. Things'
  <2>1. CASE CommandFails(t)
    BY <2>1, AtPlace DEF CommandFails, hostVars, Things
  <2>2. CASE /\ image' = [image EXCEPT ![call[t].key] = NoComp]
             /\ UNCHANGED <<up, bridges, vm, pids, nbd, count>>
    BY <2>2, <1>1, AtPlace DEF count, Things
  <2> QED
    BY <2>1, <2>2 DEF CreateImage
<1>3. CASE CommandFails(t) /\ EndCall(t)
  BY <1>2, <1>3, Ends DEF CommandFails
<1>4. CASE Goto(t, "detach") /\ UNCHANGED mapVars
  <2> DEFINE h == [thr[t] EXCEPT !.pc = "detach"]
  <2>1. h \in Handler /\ h.pc = "detach" /\ h.bp \in Blueprints
    BY <1>1, AtPlace DEF Handler, Pcs, Place
  <2>2. thr' = [thr EXCEPT ![t] = h] /\ MapInv' /\ call' = call
    BY <1>4, MapSame DEF Goto, HostInv, mapVars
  <2> HIDE DEF h
  <2>3. Place(h, call'[t])
    BY <1>1, <2>1, <2>2 DEF Place
  <2> QED
    BY <1>2, <2>1, <2>2, <2>3, Moves
<1> QED
  BY <1>3, <1>4 DEF CreateImage

LEMMA LaunchDoneKeeps ==
  ASSUME HostInv, NEW t \in Threads, LaunchDone(t)
  PROVE  HostInv'
BY Ends DEF LaunchDone, Free, OnlyThread, hostVars, count, HostInv, Things

\* Whether or not the image could be let go.
LEMMA LetGoKeeps ==
  ASSUME Things, NEW f \in {0, 1}, LetGo(f)
  PROVE  nbd' \in Comps \cup {NoComp, Removed} /\ faults' \in Nat
BY DEF LetGo, Things

LEMMA LaunchingKeeps ==
  ASSUME HostInv, NEW t \in Threads,
         Detach(t) \/ Connect(t) \/ Copy(t) \/ Release(t)
  PROVE  HostInv'
<1>1. /\ thr[t].pc \in Launches /\ Launching(t) \in Comps
  BY AtPlace DEF Detach, Connect, Copy, Release, At, Place, Launches, Launching
<1>2. ASSUME NEW pc \in Launches, Goto(t, pc), UNCHANGED mapVars, Things'
      PROVE  HostInv'
  <2> DEFINE h == [thr[t] EXCEPT !.pc = pc]
  <2>1. h \in Handler /\ h.pc = pc /\ h.bp = thr[t].bp
    BY <1>1, AtPlace DEF Handler, Pcs, Launches
  <2>2. thr' = [thr EXCEPT ![t] = h]
    BY <1>2 DEF Goto
  <2> HIDE DEF h
  <2> QED
    BY <1>1, <1>2, <2>1, <2>2, Launches1
<1>3. CASE Detach(t)
  <2>1. Things'
    BY <1>3, AtPlace, LetGoKeeps DEF Detach, Things
  <2> QED
    BY <1>2, <1>3, <2>1 DEF Detach, Launches
<1>4. CASE Connect(t)
  <2>1. Things'
    BY <1>1, <1>4, AtPlace
       DEF Connect, CommandFails, OnlyThread, hostVars, count, Things
  <2>2. CASE End(t) /\ EndCall(t)
    BY <2>1, <2>2, Ends
  <2>3. CASE Goto(t, "copy") /\ UNCHANGED mapVars
    BY <1>2, <2>1, <2>3 DEF Launches
  <2> QED
    BY <1>4, <2>2, <2>3 DEF Connect, CommandFails
<1>5. CASE Copy(t)
  <2>1. Things'
    <3>1. Written(t) \in [Comps -> Comps \cup {NoComp}]
      BY <1>1, AtPlace DEF Written, Things
    <3> QED
      BY <1>5, <3>1, AtPlace, LetGoKeeps DEF Copy, count, Things
  <2>2. CASE End(t) /\ EndCall(t)
    BY <2>1, <2>2, Ends
  <2>3. CASE Goto(t, "release") /\ UNCHANGED mapVars
    BY <1>2, <2>1, <2>3 DEF Launches
  <2> QED
    BY <1>5, <2>2, <2>3 DEF Copy
<1>6. CASE Release(t)
  <2>1. Things'
    BY <1>6, AtPlace, LetGoKeeps DEF Release, Things
  <2> QED
    BY <1>2, <1>6, <2>1 DEF Release, Launches
<1> QED
  BY <1>3, <1>4, <1>5, <1>6

LEMMA BootKeeps ==
  ASSUME HostInv, NEW t \in Threads, Boot(t)
  PROVE  HostInv'
<1>1. /\ thr[t].pc = "boot" /\ Launching(t) \in Comps /\ call[t].id \in Nat
      /\ thr[t].bp \in Blueprints /\ EndCall(t)
  BY AtPlace DEF Boot, At, Place, Launches, Launching
<1>2. CASE End(t) /\ (OnlyThread \/ CommandFails(t))
  BY <1>1, <1>2, Ends, AtPlace DEF CommandFails, OnlyThread, hostVars, count, Things
<1>3. CASE /\ vm' = [vm EXCEPT ![Launching(t)] =
                       [port |-> call[t].id, config |-> image[Launching(t)]]]
           /\ pids' = pids \cup {Launching(t)}
           /\ thr' = [thr EXCEPT ![t].pc = "comp",
                                 ![t].comps = @ \ {Launching(t)}]
           /\ UNCHANGED <<up, bridges, nbd, image, count>>
  <2>1. [port |-> call[t].id, config |-> image[Launching(t)]] \in Machine
    BY <1>1, AtPlace DEF Machine, Things
  <2>2. Things'
    BY <1>1, <1>3, <2>1, AtPlace DEF count, Things
  <2> DEFINE h == [thr[t] EXCEPT !.pc = "comp", !.comps = @ \ {Launching(t)}]
  <2>3. h \in Handler /\ h.pc = "comp" /\ h.bp \in Blueprints
    BY <1>1, AtPlace DEF Handler, Pcs
  <2>4. thr' = [thr EXCEPT ![t] = h]
    BY <1>3
  <2> HIDE DEF h
  <2> QED
    BY <1>1, <2>2, <2>3, <2>4, GoesOn DEF Launches
<1> QED
  BY <1>2, <1>3 DEF Boot, CommandFails

\* The returns of destruct's loops: the key is taken off what is left to do.
LEMMA LoopsOn ==
  ASSUME HostInv, Things', NEW t \in Threads, EndCall(t),
         thr[t].pc \in {"kill", "delete", "ports"},
         \/ thr' = [thr EXCEPT ![t].comps = @ \ {call[t].key}]
         \/ thr' = [thr EXCEPT ![t].pc = "ports", ![t].comps = thr[t].bp.linked,
                               ![t].nets = @ \ {call[t].key}]
  PROVE  HostInv'
<1>1. thr[t].bp \in Blueprints /\ thr[t].bp.linked \subseteq Comps
  BY AtPlace, HostAssumption DEF Place
<1>2. CASE thr' = [thr EXCEPT ![t].comps = @ \ {call[t].key}]
  <2> DEFINE h == [thr[t] EXCEPT !.comps = @ \ {call[t].key}]
  <2>1. h \in Handler /\ h.pc = thr[t].pc /\ h.bp \in Blueprints
    BY <1>1, AtPlace DEF Handler
  <2>2. thr' = [thr EXCEPT ![t] = h]
    BY <1>2
  <2> HIDE DEF h
  <2> QED
    BY <2>1, <2>2, GoesOn DEF Launches
<1>3. CASE thr' = [thr EXCEPT ![t].pc = "ports", ![t].comps = thr[t].bp.linked,
                              ![t].nets = @ \ {call[t].key}]
  <2> DEFINE h == [thr[t] EXCEPT !.pc = "ports", !.comps = thr[t].bp.linked,
                                 !.nets = @ \ {call[t].key}]
  <2>1. h \in Handler /\ h.pc = "ports" /\ h.bp \in Blueprints
    BY <1>1, AtPlace DEF Handler, Pcs
  <2>2. thr' = [thr EXCEPT ![t] = h]
    BY <1>3
  <2> HIDE DEF h
  <2> QED
    BY <2>1, <2>2, GoesOn DEF Launches
<1> QED
  BY <1>2, <1>3

\* A loop of destruct is over.
LEMMA NextLoop ==
  ASSUME HostInv, Things', NEW t \in Threads, UNCHANGED mapVars,
         call[t].pc = "none", thr[t].pc # "idle",
         NEW pc \in {"find", "clean"}, Goto(t, pc)
  PROVE  HostInv'
<1> DEFINE h == [thr[t] EXCEPT !.pc = pc]
<1>1. h \in Handler /\ h.pc = pc /\ h.bp \in Blueprints
  BY AtPlace DEF Handler, Pcs, Place
<1>2. thr' = [thr EXCEPT ![t] = h]
  BY DEF Goto
<1> HIDE DEF h
<1> QED
  BY <1>1, <1>2, GoesOn DEF Launches

LEMMA TerminateKeeps ==
  ASSUME HostInv, NEW t \in Threads, Terminate(t)
  PROVE  HostInv'
<1>1. thr[t].comps \subseteq Keys \cap Comps
  BY AtPlace, HostAssumption DEF Handler
<1>2. Things' /\ thr[t].pc = "kill"
  BY <1>1, AtPlace
     DEF Terminate, Free, Back, At, OnlyThread, hostVars, count, Things
<1>3. CASE Free(t, "kill") /\ thr[t].comps # {}
  <2>1. PICK c \in thr[t].comps :
          \/ MakeCall(t, "qk", "erase", c) /\ UNCHANGED thr
          \/ End(t) /\ UNCHANGED mapVars
    BY <1>3 DEF Terminate, Free, Back, Called
  <2>2. CASE MakeCall(t, "qk", "erase", c) /\ UNCHANGED thr
    <3>1. thr' = [thr EXCEPT ![t] = thr[t]]
      BY <2>2 DEF HostInv
    <3> QED
      BY <1>1, <1>2, <2>2, <3>1, AtPlace, CallsMap DEF Ops, Place, Launches
  <2>3. CASE End(t) /\ UNCHANGED mapVars
    BY <1>2, <1>3, <2>3, Ends DEF Free
  <2> QED
    BY <2>1, <2>2, <2>3
<1>4. CASE Free(t, "kill") /\ thr[t].comps = {}
  BY <1>2, <1>4, NextLoop DEF Terminate, Free, Back, Called
<1>5. CASE Back(t, "kill", "erase")
  BY <1>2, <1>5, LoopsOn DEF Terminate, Free, Back, Called
<1> QED
  BY <1>3, <1>4, <1>5 DEF Terminate

LEMMA FindBridgeKeeps ==
  ASSUME HostInv, NEW t \in Threads, FindBridge(t)
  PROVE  HostInv'
<1>1. Things' /\ thr[t].pc = "find" /\ call[t].pc = "none"
  BY AtPlace DEF FindBridge, Free, At, OnlyThread, hostVars, count, Things
<1>2. ASSUME NEW n \in thr[t].nets, MakeCall(t, "bridge", "get", n), UNCHANGED thr
      PROVE  HostInv'
  <2>1. n \in Keys /\ thr' = [thr EXCEPT ![t] = thr[t]]
    BY <1>2, AtPlace, HostAssumption DEF Handler, HostInv
  <2> QED
    BY <1>1, <1>2, <2>1, AtPlace, CallsMap DEF Ops, Place, Launches
<1>3. CASE Goto(t, "clean") /\ UNCHANGED mapVars
  BY <1>1, <1>3, NextLoop
<1> QED
  BY <1>2, <1>3 DEF FindBridge

LEMMA DeleteBridgeKeeps ==
  ASSUME HostInv, NEW t \in Threads, DeleteBridge(t)
  PROVE  HostInv'
<1>1. Things' /\ call[t].pc = "returned" /\ thr[t].pc \in {"find", "delete"}
  BY AtPlace DEF DeleteBridge, Back, Called, At, CommandFails, OnlyThread, hostVars,
     count, Things
<1>2. CASE MakeCall(t, "bridge", "erase", call[t].key) /\ Goto(t, "delete")
  <2> DEFINE h == [thr[t] EXCEPT !.pc = "delete"]
  <2>1. h \in Handler /\ h.pc = "delete" /\ h.bp \in Blueprints
    BY <1>1, AtPlace DEF Handler, Pcs, Place
  <2>2. thr' = [thr EXCEPT ![t] = h]
    BY <1>2 DEF Goto
  <2>3. call[t].key \in Keys
    BY <1>1, AtPlace DEF Calls, NoCall
  <2> HIDE DEF h
  <2> QED
    BY <1>1, <1>2, <2>1, <2>2, <2>3, AtPlace, CallsMap DEF Ops, Launches
<1>3. CASE End(t) /\ EndCall(t)
  BY <1>1, <1>3, Ends
<1>4. CASE Back(t, "delete", "erase")
  BY <1>1, <1>4, LoopsOn DEF DeleteBridge, Back, Called, At
<1> QED
  BY <1>2, <1>3, <1>4 DEF DeleteBridge, CommandFails

LEMMA ErasePortsKeeps ==
  ASSUME HostInv, NEW t \in Threads, ErasePorts(t)
  PROVE  HostInv'
<1>1. Things' /\ thr[t].pc = "ports"
  BY AtPlace DEF ErasePorts, Free, Back, At, OnlyThread, hostVars, count, Things
<1>2. ASSUME NEW c \in thr[t].comps, MakeCall(t, "vhost", "erase", c), UNCHANGED thr
      PROVE  HostInv'
  <2>1. c \in Keys /\ thr' = [thr EXCEPT ![t] = thr[t]]
    BY <1>2, AtPlace, HostAssumption DEF Handler, HostInv
  <2> QED
    BY <1>1, <1>2, <2>1, AtPlace, CallsMap DEF Ops, Place, Launches
<1>3. CASE Back(t, "ports", "erase") /\ EndCall(t)
           /\ thr' = [thr EXCEPT ![t].comps = @ \ {call[t].key}]
  BY <1>1, <1>3, LoopsOn
<1>4. CASE Free(t, "ports") /\ Goto(t, "find") /\ UNCHANGED mapVars
  BY <1>1, <1>4, NextLoop DEF Free
<1> QED
  BY <1>2, <1>3, <1>4 DEF ErasePorts

LEMMA DelXpDirKeeps ==
  ASSUME HostInv, NEW t \in Threads, DelXpDir(t)
  PROVE  HostInv'
BY AtPlace, Ends DEF DelXpDir, RemoveDir, Free, count, Things

LEMMA AcceptKeeps ==
  ASSUME HostInv, NEW t \in Threads, NEW pc \in {"live", "kill"}, Accept(t, pc)
  PROVE  HostInv'
<1>1. PICK bp \in Blueprints :
        thr' = [thr EXCEPT ![t] =
                  [pc |-> pc, bp |-> bp, nets |-> bp.nets, comps |-> bp.comps]]
  BY DEF Accept
<1> DEFINE h == [pc |-> pc, bp |-> bp, nets |-> bp.nets, comps |-> bp.comps]
<1>2. h \in Handler /\ h.pc = pc /\ h.bp \in Blueprints
  BY HostAssumption DEF Handler, Pcs
<1>3. Things' /\ UNCHANGED mapVars
  BY AtPlace DEF Accept, OneMoreRequest, hostVars, Things
<1>4. call[t].pc = "none"
  BY AtPlace DEF Accept, Place, NoCall
<1>5. thr' = [thr EXCEPT ![t] = h]
  BY <1>1
<1> HIDE DEF h
<1> QED
  BY <1>2, <1>3, <1>4, <1>5, GoesOn DEF Launches

LEMMA ProcessKeeps ==
  ASSUME HostInv, List \/ Restart \/ UNCHANGED vars
  PROVE  HostInv'
<1>1. CASE List
  <2>1. MapInv' /\ call' = [t \in Threads |-> NoCall]
    BY <1>1, MapRestarts DEF List
  <2>2. thr' \in [Threads -> Handler] /\ Things'
    <3>1. IdleHandler \in Handler
      BY DEF IdleHandler, Handler, Pcs
    <3>2. requests' \in Nat
      BY <1>1 DEF List, OneMoreRequest, HostInv, Things
    <3>3. up' \in BOOLEAN
      BY <1>1 DEF List
    <3>4. UNCHANGED <<bridges, vm, pids, nbd, image, faults>>
      BY <1>1 DEF List, hostVars
    <3>5. Things'
      BY <3>2, <3>3, <3>4 DEF HostInv, Things
    <3> QED
      BY <1>1, <3>1, <3>5 DEF List
  <2>3. Places'
    BY <1>1, <2>1 DEF List, Places, Place, IdleHandler, Launches, NoCall
  <2> QED
    BY <2>1, <2>2, <2>3 DEF HostInv
<1>2. CASE Restart
  <2>1. MapInv' /\ UNCHANGED <<thr, call>>
    BY <1>2, MapSame DEF Restart, HostInv, mapVars
  <2>2. Things'
    <3>1. UNCHANGED <<pids, nbd, image, requests>> /\ bridges' = {}
          /\ vm' = [c \in Comps |-> Off] /\ up \in BOOLEAN
      BY <1>2 DEF Restart, HostInv, Things
    <3>2. up' \in BOOLEAN
      BY <1>2, <3>1, Zenon DEF Restart
    <3>4. faults' = faults \/ faults' = faults + 1
      BY <1>2, Zenon DEF Restart
    <3>5. faults' \in Nat
      BY <3>4 DEF HostInv, Things
    <3>3. vm' \in [Comps -> Machine \cup {Off}]
      BY <3>1
    <3> QED
      BY <3>1, <3>2, <3>3, <3>5 DEF HostInv, Things
  <2> QED
    BY <2>1, <2>2 DEF HostInv, Places
<1>3. CASE UNCHANGED vars
  <2>1. MapInv'
    BY <1>3, MapSame DEF vars, HostInv
  <2> QED
    BY <1>3, <2>1 DEF vars, mapVars, hostVars, count, HostInv, Things, Places
<1> QED
  BY <1>1, <1>2, <1>3

-----------------------------------------------------------------------------
(* The theorems.                                                           *)

LEMMA HostInit == Init => HostInv
<1> SUFFICES ASSUME Init PROVE HostInv
  OBVIOUS
<1>1. MapInv /\ call = [t \in Threads |-> NoCall]
  BY MapStarts DEF Init
<1>2. thr \in [Threads -> Handler] /\ Things
  BY DEF Init, IdleHandler, Handler, Pcs, Things
<1>3. Places
  BY <1>1 DEF Init, Places, Place, IdleHandler, Launches, NoCall
<1> QED
  BY <1>1, <1>2, <1>3 DEF HostInv

LEMMA HostStep ==
  ASSUME HostInv, [Next]_vars
  PROVE  HostInv'
<1>1. ASSUME NEW t \in Threads, Construct(t) \/ Destruct(t)
      PROVE  HostInv'
  BY <1>1, AcceptKeeps DEF Construct, Destruct
<1>2. ASSUME NEW t \in Threads, ConstructStep(t)
      PROVE  HostInv'
  BY <1>2, LiveKeeps, InitXpDirKeeps, CreateBridgeKeeps, CreateIdKeeps,
     GetPortsKeeps, CreateImageKeeps, LaunchDoneKeeps, LaunchingKeeps, BootKeeps
     DEF ConstructStep
<1>3. ASSUME NEW t \in Threads, DestructStep(t)
      PROVE  HostInv'
  BY <1>3, TerminateKeeps, FindBridgeKeeps, DeleteBridgeKeeps, ErasePortsKeeps,
     DelXpDirKeeps DEF DestructStep
<1>4. CASE List \/ Restart \/ UNCHANGED vars
  BY <1>4, ProcessKeeps
<1> QED
  BY <1>1, <1>2, <1>3, <1>4, InCallKeeps, CallThrewKeeps
     DEF Next, HandlerStep, Quiet

LEMMA HostInvariant == Spec => []HostInv
BY HostInit, HostStep, PTL DEF Spec

\* The variables of the host controller stay in their domains, and a thread
\* between requests is in no call.
THEOREM HostTypeCorrect == Spec => []HostTypeOK
<1>1. HostInv => HostTypeOK
  BY DEF HostInv, MapInv, Things, Places, Place, HostTypeOK
<1> QED
  BY <1>1, HostInvariant, PTL

\* The lock that the threads of a LinearIdCacheMap share excludes them, though
\* its flag is written with no lock held: at most one thread is between lock
\* and unlock of a map.
THEOREM SharedLockExcludes == Spec => []Exclusion
<1>1. HostInv => Exclusion
  BY DEF HostInv, MapInv, Holding, Exclusion
<1> QED
  BY <1>1, HostInvariant, PTL

-----------------------------------------------------------------------------
(* One request at a time.  IdsShared.cfg shows what overlapping requests do *)
(* to the ids; what follows is for clients that wait, as Serial says.       *)

\* At most one handler is in progress, and none while the process is down.
OneBusy ==
  /\ \A t, u \in Threads : t # u => thr[t].pc = "idle" \/ thr[u].pc = "idle"
  /\ ~ up => Idle

\* Which calls a handler makes at its place.
Makes(h, m, op) ==
  \/ h.pc = "live" /\ m = "live" /\ op = "section"
  \/ h.pc = "net" /\ m = "bridge" /\ op = "create"
  \/ h.pc \in Launches \cup {"comp"} /\ m = "qk" /\ op = "create"
  \/ h.pc = "comp" /\ m = "vhost" /\ op = "get"
  \/ h.pc = "kill" /\ m = "qk" /\ op = "erase"
  \/ h.pc = "find" /\ m = "bridge" /\ op = "get"
  \/ h.pc = "delete" /\ m = "bridge" /\ op = "erase"
  \/ h.pc = "ports" /\ m = "vhost" /\ op = "erase"

Fits(h, c) ==
  /\ c.pc # "none" => Makes(h, c.map, c.op)
  /\ h.pc \in {"net", "find", "delete"} /\ c.pc # "none" => c.key \in Nets
  /\ h.pc = "delete" => c.pc # "none"

\* What a call c knows of the id of its key, and that the flag says so while
\* the mutex is held.
Knows(c) ==
  /\ c.pc \in {"inside", "unlock"} => owns[c.map]
  /\ c.pc \in {"unlock", "disown", "returned"} =>
       /\ c.op \in {"create", "get"} => ids[c.map][c.key] = c.id
       /\ c.op = "erase" => ids[c.map][c.key] = NoId
  /\ c.pc \in {"draw", "store"} =>
       c.op = "create" /\ ids[c.map][c.key] = NoId
  /\ c.pc = "store" => c.id = nextId[c.map]

\* The numbers that were drawn.
IdsDrawn ==
  /\ \A m \in Maps, k \in Keys : ids[m][k] # NoId => ids[m][k] < nextId[m]
  /\ IdsDistinct

Gone(c) == ~ Runs(c) /\ ids["qk"][c] = NoId

\* How far a handler h with call c has come.
Progress(h, c) ==
  /\ h.pc = "delete" => ids["bridge"][c.key] \notin bridges
  /\ h.pc = "copy" => nbd = c.key
  /\ h.pc \in {"release", "boot"} => image[c.key] = c.key
  /\ h.pc = "kill" =>
       /\ \A x \in h.bp.comps \ h.comps : Gone(x)
       /\ c.pc # "none" => ~ Runs(c.key)
  /\ h.pc \in {"find", "delete", "ports", "clean"} =>
       \A x \in h.bp.comps : Gone(x)
  /\ h.pc \in {"kill", "find", "delete", "ports", "clean"} =>
       \A n \in h.bp.nets \ h.nets : ids["bridge"][n] = NoId
  /\ h.pc = "clean" => h.nets = {}

Local(t) ==
  Fits(thr[t], call[t]) /\ Knows(call[t]) /\ Progress(thr[t], call[t])

SerialInv ==
  /\ OneBusy
  /\ \A t \in Threads : Local(t)
  /\ IdsDrawn
  /\ BridgesKnown
  /\ BootsOwnConfig

\* A thread between requests is on its way nowhere.
LEMMA IdleIsLocal ==
  ASSUME HostInv', NEW u \in Threads, thr'[u].pc = "idle"
  PROVE  Local(u)'
<1>1. call'[u] = NoCall
  BY DEF HostInv, Places, Place
<1> QED
  BY <1>1 DEF Local, Fits, Knows, Progress, NoCall

\* The step of a thread keeps the invariant if it does so for that thread: the
\* others are idle.
LEMMA SerialMoves ==
  ASSUME SerialInv, HostInv', NEW t \in Threads, up, up' = up,
         thr[t].pc # "idle", \A u \in Threads \ {t} : thr'[u] = thr[u],
         Local(t)', IdsDrawn', BridgesKnown', BootsOwnConfig'
  PROVE  SerialInv'
<1>1. \A u \in Threads \ {t} : thr'[u].pc = "idle"
  BY DEF SerialInv, OneBusy
<1>2. OneBusy'
  BY <1>1 DEF OneBusy
<1>3. \A u \in Threads : Local(u)'
  BY <1>1, IdleIsLocal
<1> QED
  BY <1>2, <1>3 DEF SerialInv

\* A step inside a call: what becomes of the ids, and that the call knows it.
LEMMA MapStepKnows ==
  ASSUME HostInv, SerialInv, NEW t \in Threads, MapStep(t)
  PROVE  /\ Knows(call[t])' /\ IdsDrawn'
         /\ call'[t].map = call[t].map /\ call'[t].op = call[t].op
         /\ \A m \in Maps, k \in Keys :
              \/ ids'[m][k] = ids[m][k]
              \/ /\ m = call[t].map /\ k = call[t].key
                 /\ \/ call[t].op = "erase" /\ ids'[m][k] = NoId
                    \/ call[t].op = "create" /\ ids[m][k] = NoId
<1> DEFINE m == call[t].map
           k == call[t].key
           Rec == [pc : CallPcs, map : Maps, op : Ops, key : Keys,
                   id : Nat \cup {NoId}]
<1>1. /\ Knows(call[t]) /\ IdsDrawn
      /\ call \in [Threads -> Calls]
      /\ ids \in [Maps -> [Keys -> Nat \cup {NoId}]]
      /\ nextId \in [Maps -> Nat] /\ owns \in [Maps -> BOOLEAN]
  BY DEF SerialInv, Local, HostInv, MapInv, MapTypeOK
<1>2. call[t] \in Rec
  <2>1. call[t].pc # "none"
    BY MapStepKeeps DEF HostInv
  <2> QED
    BY <1>1, <2>1 DEF Calls, NoCall
<1>3. m \in Maps /\ k \in Keys /\ call[t].op \in Ops
  BY <1>2
<1> HIDE DEF Rec
<1> DEFINE Effect ==
             \A n \in Maps, j \in Keys :
               \/ ids'[n][j] = ids[n][j]
               \/ /\ n = m /\ j = k
                  /\ \/ call[t].op = "erase" /\ ids'[n][j] = NoId
                     \/ call[t].op = "create" /\ ids[n][j] = NoId
\* Only the place of the call changes, or its id as well.
<1>4. ASSUME NEW pc, NEW id, call' = [call EXCEPT ![t].pc = pc, ![t].id = id]
      PROVE  /\ call'[t].pc = pc /\ call'[t].id = id
             /\ call'[t].map = m /\ call'[t].key = k /\ call'[t].op = call[t].op
  BY <1>1, <1>2, <1>4 DEF Rec
<1>5. ASSUME NEW pc, Advance(t, pc)
      PROVE  /\ call'[t].pc = pc /\ call'[t].id = call[t].id
             /\ call'[t].map = m /\ call'[t].key = k /\ call'[t].op = call[t].op
  BY <1>1, <1>2, <1>5 DEF Rec, Advance
<1>6. ASSUME UNCHANGED <<nextId, ids>>
      PROVE  IdsDrawn' /\ Effect
  BY <1>1, <1>6 DEF IdsDrawn, IdsDistinct
<1> HIDE DEF m, k, Effect
<1>7. CASE Lock(t)
  <2>1. PICK pc \in {"threw", "take"} : Advance(t, pc)
    BY <1>7 DEF Lock
  <2>2. Knows(call[t])'
    BY <2>1, <1>5 DEF Knows
  <2> QED
    BY <1>7, <1>5, <1>6, <2>1, <2>2 DEF Lock, m, k, Effect
<1>8. CASE Take(t)
  <2>1. /\ Advance(t, "inside") /\ owns' = [owns EXCEPT ![m] = TRUE]
        /\ UNCHANGED <<nextId, ids>>
    BY <1>8 DEF Take, m
  <2>2. Knows(call[t])'
    BY <1>1, <1>3, <1>5, <2>1 DEF Knows
  <2> QED
    BY <1>5, <1>6, <2>1, <2>2 DEF m, k, Effect
<1>9. CASE Inside(t)
  <2> DEFINE id == IF call[t].op \in {"create", "get"} THEN ids[m][k] ELSE NoId
             pc == IF call[t].op = "get" /\ ids[m][k] = NoId
                   THEN "threw" ELSE "unlock"
  <2>1. /\ call[t].pc = "inside"
        /\ call' = [call EXCEPT ![t].id = id, ![t].pc = pc]
        /\ ids' = IF call[t].op = "erase" THEN [ids EXCEPT ![m][k] = NoId] ELSE ids
        /\ UNCHANGED <<owns, nextId>>
    BY <1>9 DEF Inside, m, k
  <2>2. pc \in {"threw", "unlock"}
    OBVIOUS
  <2>3. call[t].op \in {"create", "get"} => id = ids[m][k]
    OBVIOUS
  <2> HIDE DEF id, pc
  <2>4. /\ call'[t].pc = pc /\ call'[t].id = id
        /\ call'[t].map = m /\ call'[t].key = k /\ call'[t].op = call[t].op
    BY <1>1, <1>2, <2>1 DEF Rec, m, k
  <2>5. owns[m]
    BY <1>1, <2>1 DEF Knows, m
  <2>6. CASE call[t].op = "erase"
    <3>1. \A n \in Maps, j \in Keys :
            ids'[n][j] = IF n = m /\ j = k THEN NoId ELSE ids[n][j]
      BY <1>1, <1>3, <2>1, <2>6
    <3>2. IdsDrawn'
      BY <1>1, <2>1, <3>1 DEF IdsDrawn, IdsDistinct
    <3>3. Effect
      BY <2>6, <3>1 DEF Effect
    <3>4. Knows(call[t])'
      BY <1>3, <2>1, <2>2, <2>4, <2>5, <2>6, <3>1 DEF Knows
    <3> QED
      BY <2>4, <3>2, <3>3, <3>4 DEF m, k, Effect
  <2>7. CASE call[t].op # "erase"
    <3>1. ids' = ids
      BY <2>1, <2>7
    <3>2. Knows(call[t])'
      BY <2>1, <2>2, <2>3, <2>4, <2>5, <2>7, <3>1 DEF Knows
    <3> QED
      BY <1>6, <2>1, <2>4, <3>1, <3>2 DEF m, k, Effect
  <2> QED
    BY <2>6, <2>7
<1>10. CASE Unlock(t)
  <2>1. /\ call[t].pc = "unlock" /\ owns[m]
        /\ Advance(t, "disown") /\ UNCHANGED <<owns, nextId, ids>>
    BY <1>1, <1>10 DEF Unlock, Knows, m
  <2>2. Knows(call[t])'
    BY <1>1, <1>5, <2>1 DEF Knows, m, k
  <2> QED
    BY <1>5, <1>6, <2>1, <2>2 DEF m, k, Effect
<1>11. CASE Disown(t)
  <2>1. /\ call[t].pc = "disown" /\ UNCHANGED <<nextId, ids>>
        /\ Advance(t, IF call[t].op = "create" /\ call[t].id = NoId
                      THEN "draw" ELSE "returned")
    BY <1>11 DEF Disown
  <2>2. Knows(call[t])'
    <3>1. CASE call[t].op = "create" /\ call[t].id = NoId
      BY <1>1, <1>5, <2>1, <3>1 DEF Knows, m, k
    <3>2. CASE ~ (call[t].op = "create" /\ call[t].id = NoId)
      BY <1>1, <1>5, <2>1, <3>2 DEF Knows, m, k
    <3> QED
      BY <3>1, <3>2
  <2> QED
    BY <1>5, <1>6, <2>1, <2>2 DEF m, k, Effect
<1>12. CASE Draw(t)
  <2>1. /\ call[t].pc = "draw" /\ UNCHANGED <<owns, nextId, ids>>
        /\ call' = [call EXCEPT ![t].pc = "store", ![t].id = nextId[m]]
    BY <1>12 DEF Draw, m
  <2>3. call[t].op = "create" /\ ids[m][k] = NoId
    BY <1>1, <2>1 DEF Knows, m, k
  <2>4. /\ call'[t].pc = "store" /\ call'[t].id = nextId[m]
        /\ call'[t].map = m /\ call'[t].key = k /\ call'[t].op = call[t].op
    BY <1>4, <2>1
  <2>2. Knows(call[t])'
    BY <2>1, <2>3, <2>4 DEF Knows
  <2> QED
    BY <1>6, <2>1, <2>2, <2>4 DEF m, k, Effect
<1>13. CASE Store(t)
  <2> DEFINE id == call[t].id
  <2>1. /\ call[t].pc = "store" /\ Advance(t, "returned")
        /\ nextId' = [nextId EXCEPT ![m] = id + 1]
        /\ ids' = [ids EXCEPT ![m][k] = id]
    BY <1>13 DEF Store, m, k
  <2>2. /\ call[t].op = "create" /\ ids[m][k] = NoId /\ id = nextId[m]
        /\ id \in Nat
    BY <1>1, <1>3, <2>1 DEF Knows, m, k
  <2> HIDE DEF id
  <2>3. \A n \in Maps, j \in Keys :
          ids'[n][j] = IF n = m /\ j = k THEN id ELSE ids[n][j]
    BY <1>1, <1>3, <2>1
  <2>4. \A n \in Maps : nextId'[n] = IF n = m THEN id + 1 ELSE nextId[n]
    BY <1>1, <1>3, <2>1
  <2>5. \A j \in Keys : ids[m][j] # NoId => ids[m][j] < id /\ ids[m][j] \in Nat
    BY <1>1, <1>3, <2>2 DEF IdsDrawn
  <2>6. \A n \in Maps, j \in Keys : ids'[n][j] # NoId => ids'[n][j] < nextId'[n]
    BY <1>1, <2>2, <2>3, <2>4, <2>5 DEF IdsDrawn
  <2>7. IdsDistinct'
    BY <1>1, <2>2, <2>3, <2>5 DEF IdsDrawn, IdsDistinct
  <2>8. Effect
    BY <2>2, <2>3 DEF Effect
  <2>9. Knows(call[t])'
    BY <1>3, <1>5, <2>1, <2>2, <2>3 DEF Knows, id
  <2> QED
    BY <1>5, <2>1, <2>6, <2>7, <2>8, <2>9 DEF IdsDrawn, m, k, Effect
<1> QED
  BY <1>7, <1>8, <1>9, <1>10, <1>11, <1>12, <1>13 DEF MapStep

\* A step of thread t outside a call, which may make one or end one.
Outside(t) ==
  /\ up /\ up' = up /\ thr[t].pc # "idle"
  /\ \A u \in Threads \ {t} : thr'[u] = thr[u]
  /\ UNCHANGED <<owns, nextId, ids>>
  /\ call'[t] = call[t] \/ call'[t].pc \in {"none", "lock"}

LEMMA OutsideKeeps ==
  ASSUME SerialInv, HostInv', NEW t \in Threads, Outside(t),
         Fits(thr[t], call[t])', Progress(thr[t], call[t])',
         BridgesKnown', BootsOwnConfig'
  PROVE  SerialInv'
<1>1. Knows(call[t]) /\ IdsDrawn
  BY DEF SerialInv, Local
<1>2. Knows(call[t])'
  BY <1>1 DEF Outside, Knows
<1>3. IdsDrawn'
  BY <1>1 DEF Outside, IdsDrawn, IdsDistinct
<1> QED
  BY <1>2, <1>3, SerialMoves DEF Outside, Local

\* The bridges and the machines are as they were.
LEMMA WorldSame ==
  ASSUME SerialInv, UNCHANGED <<up, bridges, vm, ids>>
  PROVE  BridgesKnown' /\ BootsOwnConfig'
BY DEF SerialInv, BridgesKnown, BootsOwnConfig, Runs

\* A handler is over, and its call with it.
LEMMA EndKeeps ==
  ASSUME SerialInv, HostInv, HostInv', NEW t \in Threads, up, up' = up,
         thr[t].pc # "idle", End(t), UNCHANGED <<owns, nextId, ids>>,
         BridgesKnown', BootsOwnConfig'
  PROVE  SerialInv'
<1>1. /\ thr'[t].pc = "idle"
      /\ \A u \in Threads \ {t} : thr'[u] = thr[u]
  BY DEF End, IdleHandler, HostInv
<1>2. Local(t)'
  BY <1>1, IdleIsLocal
<1>3. IdsDrawn'
  BY DEF SerialInv, IdsDrawn, IdsDistinct
<1> QED
  BY <1>1, <1>2, <1>3, SerialMoves

\* What the steps of handlers are made of does to the thread that makes them.
LEMMA GotoIs ==
  ASSUME HostInv, NEW t \in Threads, NEW pc, Goto(t, pc)
  PROVE  /\ thr'[t].pc = pc /\ thr'[t].bp = thr[t].bp
         /\ thr'[t].nets = thr[t].nets /\ thr'[t].comps = thr[t].comps
         /\ \A u \in Threads \ {t} : thr'[u] = thr[u]
BY AtPlace DEF Goto, HostInv, Handler

LEMMA MakeCallIs ==
  ASSUME HostInv, NEW t \in Threads, NEW m, NEW op, NEW k, MakeCall(t, m, op, k)
  PROVE  /\ call'[t].pc = "lock" /\ call'[t].map = m /\ call'[t].op = op
         /\ call'[t].key = k /\ UNCHANGED <<owns, nextId, ids>>
BY DEF MakeCall, Invocation, HostInv, MapInv, MapTypeOK

LEMMA EndCallIs ==
  ASSUME HostInv, NEW t \in Threads, EndCall(t)
  PROVE  call'[t].pc = "none" /\ UNCHANGED <<owns, nextId, ids>>
BY DEF EndCall, NoCall, HostInv, MapInv, MapTypeOK

\* A handler makes a call and changes nothing else.
LEMMA CallKeeps ==
  ASSUME SerialInv, HostInv, HostInv', NEW t \in Threads, NEW m, NEW op, NEW k,
         up, OnlyThread, UNCHANGED thr, MakeCall(t, m, op, k),
         Makes(thr[t], m, op), thr[t].pc \in {"net", "find"} => k \in Nets,
         thr[t].pc \notin {"idle", "kill", "delete"} \cup Launches
  PROVE  SerialInv'
<1>1. /\ call'[t].pc = "lock" /\ call'[t].map = m /\ call'[t].op = op
      /\ call'[t].key = k /\ UNCHANGED <<owns, nextId, ids>>
  BY MakeCallIs
<1>2. UNCHANGED <<up, bridges, vm, nbd, image, thr>>
  BY DEF OnlyThread, hostVars
<1>3. Fits(thr[t], call[t])'
  BY <1>1, <1>2 DEF Fits, Makes
<1>4. Progress(thr[t], call[t])'
  BY <1>1, <1>2 DEF SerialInv, Local, Progress, Gone, Runs, Launches
<1>5. Outside(t)
  BY <1>1, <1>2 DEF Outside
<1> QED
  BY <1>1, <1>2, <1>3, <1>4, <1>5, WorldSame, OutsideKeeps

\* A handler goes on to a place that promises nothing, between two calls.
LEMMA GoKeeps ==
  ASSUME SerialInv, HostInv, HostInv', NEW t \in Threads,
         NEW pc \in {"dir", "net", "comp"}, Goto(t, pc), up, thr[t].pc # "idle",
         call'[t].pc = "none", UNCHANGED <<up, bridges, vm, owns, nextId, ids>>
  PROVE  SerialInv'
<1>1. /\ thr'[t].pc = pc
      /\ \A u \in Threads \ {t} : thr'[u] = thr[u]
  BY GotoIs
<1>2. Fits(thr[t], call[t])' /\ Progress(thr[t], call[t])'
  BY <1>1 DEF Fits, Progress
<1>3. Outside(t)
  BY <1>1 DEF Outside
<1> QED
  BY <1>2, <1>3, WorldSame, OutsideKeeps

LEMMA SerialLive ==
  ASSUME SerialInv, HostInv, HostInv', NEW t \in Threads, Live(t)
  PROVE  SerialInv'
<1>1. CASE Free(t, "live")
  <2>1. /\ MakeCall(t, "live", "section", CHOOSE k \in Keys : TRUE)
        /\ up /\ OnlyThread /\ UNCHANGED thr /\ thr[t].pc = "live"
    BY <1>1 DEF Live, Free, Back, Called, At
  <2> QED
    BY <2>1, CallKeeps DEF Makes, Launches
<1>2. CASE ~ Free(t, "live")
  <2>1. /\ up /\ thr[t].pc = "live" /\ EndCall(t) /\ Goto(t, "dir")
        /\ UNCHANGED <<up, bridges, vm>>
    BY <1>2 DEF Live, Back, At, OnlyThread, hostVars
  <2> QED
    BY <2>1, EndCallIs, GoKeeps
<1> QED
  BY <1>1, <1>2

LEMMA SerialDir ==
  ASSUME SerialInv, HostInv, HostInv', NEW t \in Threads, InitXpDir(t)
  PROVE  SerialInv'
<1>1. /\ up /\ thr[t].pc = "dir" /\ call'[t].pc = "none"
      /\ UNCHANGED <<up, bridges, vm, owns, nextId, ids>>
      /\ End(t) \/ \E pc \in {"net", "comp"} : Goto(t, pc)
  BY DEF InitXpDir, Free, At, mapVars
<1>2. CASE End(t)
  BY <1>1, <1>2, WorldSame, EndKeeps
<1>3. CASE \E pc \in {"net", "comp"} : Goto(t, pc)
  BY <1>1, <1>3, GoKeeps
<1> QED
  BY <1>1, <1>2, <1>3

\* The bridge that was made is that of the network whose id was drawn.
LEMMA SerialBridge ==
  ASSUME SerialInv, HostInv, HostInv', NEW t \in Threads, CreateBridge(t)
  PROVE  SerialInv'
<1>1. CASE Free(t, "net")
  <2>1. PICK n \in thr[t].nets :
          /\ MakeCall(t, "bridge", "create", n)
          /\ up /\ OnlyThread /\ UNCHANGED thr /\ thr[t].pc = "net"
    BY <1>1 DEF CreateBridge, Free, Back, Called, At
  <2>2. n \in Nets
    BY AtPlace DEF Handler
  <2> QED
    BY <2>1, <2>2, CallKeeps DEF Makes, Launches
<1>2. CASE Back(t, "net", "create")
  <2>1. /\ up /\ thr[t].pc = "net" /\ call[t].pc = "returned"
        /\ call[t].op = "create" /\ EndCall(t) /\ End(t)
        /\ UNCHANGED <<up, vm, ids>>
        /\ bridges' \in {bridges, bridges \cup {call[t].id}}
    BY <1>2, EndCallIs
       DEF CreateBridge, Free, Back, Called, At, CommandFails, hostVars
  <2>2. call[t].key \in Nets /\ ids["bridge"][call[t].key] = call[t].id
    BY <2>1 DEF SerialInv, Local, Fits, Makes, Knows, Launches
  <2>3. BridgesKnown'
    BY <2>1, <2>2 DEF SerialInv, BridgesKnown
  <2>4. BootsOwnConfig'
    BY <2>1 DEF SerialInv, BootsOwnConfig, Runs
  <2> QED
    BY <2>1, <2>3, <2>4, EndCallIs, EndKeeps
<1> QED
  BY <1>1, <1>2 DEF CreateBridge

LEMMA SerialLaunch ==
  ASSUME SerialInv, HostInv, HostInv', NEW t \in Threads,
         CreateId(t) \/ GetPorts(t) \/ LaunchDone(t)
  PROVE  SerialInv'
<1>1. CASE CreateId(t)
  <2>1. PICK c \in thr[t].comps :
          /\ MakeCall(t, "qk", "create", c)
          /\ up /\ OnlyThread /\ UNCHANGED thr /\ thr[t].pc = "comp"
    BY <1>1 DEF CreateId, Free, At
  <2> QED
    BY <2>1, CallKeeps DEF Makes, Launches
<1>2. CASE GetPorts(t)
  <2>1. /\ MakeCall(t, "vhost", "get", call[t].key)
        /\ up /\ OnlyThread /\ UNCHANGED thr /\ thr[t].pc = "comp"
    BY <1>2 DEF GetPorts, Back, At
  <2> QED
    BY <2>1, CallKeeps DEF Makes, Launches
<1>3. CASE LaunchDone(t)
  <2>1. /\ up /\ thr[t].pc = "comp" /\ End(t)
        /\ UNCHANGED <<up, bridges, vm, owns, nextId, ids>>
    BY <1>3 DEF LaunchDone, Free, At, OnlyThread, hostVars, mapVars
  <2> QED
    BY <2>1, WorldSame, EndKeeps
<1> QED
  BY <1>1, <1>2, <1>3

\* A launch goes on, with the id in the finished call.
LEMMA LaunchKeeps ==
  ASSUME SerialInv, HostInv, HostInv', NEW t \in Threads, NEW pc \in Launches,
         Goto(t, pc), thr[t].pc \in Launches \cup {"comp"}, up,
         call[t].pc = "returned", call[t].op = "create",
         UNCHANGED <<mapVars, up, bridges, vm>>,
         pc = "copy" => nbd' = call[t].key,
         pc \in {"release", "boot"} => image'[call[t].key] = call[t].key
  PROVE  SerialInv'
<1>1. /\ thr'[t].pc = pc
      /\ \A u \in Threads \ {t} : thr'[u] = thr[u]
  BY GotoIs
<1>2. call' = call /\ UNCHANGED <<owns, nextId, ids>>
  BY DEF mapVars
<1>3. call[t].map = "qk"
  BY DEF SerialInv, Local, Fits, Makes, Launches
<1>4. Fits(thr[t], call[t])'
  BY <1>1, <1>2, <1>3 DEF Fits, Makes, Launches
<1>5. Progress(thr[t], call[t])'
  BY <1>1, <1>2 DEF Progress, Launches
<1>6. Outside(t)
  BY <1>1, <1>2 DEF Outside, Launches
<1> QED
  BY <1>2, <1>4, <1>5, <1>6, WorldSame, OutsideKeeps

LEMMA SerialImage ==
  ASSUME SerialInv, HostInv, HostInv', NEW t \in Threads, CreateImage(t)
  PROVE  SerialInv'
<1>1. /\ up /\ thr[t].pc = "comp" /\ call[t].pc = "returned"
      /\ call[t].op = "create"
      /\ \/ /\ Goto(t, "detach") /\ UNCHANGED <<mapVars, up, bridges, vm>>
         \/ /\ End(t) /\ EndCall(t) /\ UNCHANGED <<up, bridges, vm>>
  BY DEF CreateImage, Back, Called, At, CommandFails, hostVars
<1>2. CASE Goto(t, "detach") /\ UNCHANGED <<mapVars, up, bridges, vm>>
  BY <1>1, <1>2, LaunchKeeps DEF Launches
<1>3. CASE End(t) /\ EndCall(t) /\ UNCHANGED <<up, bridges, vm>>
  BY <1>1, <1>3, EndCallIs, WorldSame, EndKeeps
<1> QED
  BY <1>1, <1>2, <1>3

\* The image of another computer, or one whose file is gone, may have stayed on
\* the block device; then connect fails, so that the script is copied to the
\* image of the computer being launched and to no other.
LEMMA SerialConfig ==
  ASSUME SerialInv, HostInv, HostInv', NEW t \in Threads,
         Detach(t) \/ Connect(t) \/ Copy(t) \/ Release(t)
  PROVE  SerialInv'
<1> DEFINE c == call[t].key
<1>1. /\ up /\ thr[t].pc \in Launches \ {"boot"}
  BY DEF Detach, Connect, Copy, Release, At, Launches
<1>2. call[t].pc = "returned" /\ call[t].op = "create" /\ c \in Comps
  BY <1>1, AtPlace DEF Place, SerialInv, Local, Fits, Makes, Launches
<1>3. /\ thr[t].pc = "copy" => nbd = c
      /\ thr[t].pc = "release" => image[c] = c
      /\ image \in [Comps -> Comps \cup {NoComp}]
      /\ c # NoComp
  BY <1>2, AtPlace, HostAssumption DEF SerialInv, Local, Progress, Things
<1>4. CASE End(t) /\ EndCall(t) /\ UNCHANGED <<up, bridges, vm>>
  BY <1>1, <1>4, EndCallIs, WorldSame, EndKeeps DEF Launches
<1>5. ASSUME NEW pc \in Launches, Goto(t, pc), UNCHANGED <<mapVars, up, bridges, vm>>,
             pc = "copy" => nbd' = c,
             pc \in {"release", "boot"} => image'[c] = c
      PROVE  SerialInv'
  BY <1>1, <1>2, <1>5, LaunchKeeps
<1>6. CASE Detach(t)
  BY <1>5, <1>6 DEF Detach, Launches
<1>7. CASE Connect(t)
  <2>1. \/ /\ Goto(t, "copy") /\ UNCHANGED <<mapVars, up, bridges, vm>> /\ nbd' = c
        \/ /\ End(t) /\ EndCall(t) /\ UNCHANGED <<up, bridges, vm>>
    BY <1>7 DEF Connect, Launching, CommandFails, OnlyThread, hostVars
  <2> QED
    BY <1>4, <1>5, <2>1 DEF Launches
<1>8. CASE Copy(t)
  <2>1. \/ /\ Goto(t, "release") /\ UNCHANGED <<mapVars, up, bridges, vm>>
           /\ image' = IF nbd \in Comps THEN [image EXCEPT ![nbd] = c] ELSE image
        \/ /\ End(t) /\ EndCall(t) /\ UNCHANGED <<up, bridges, vm>>
    BY <1>8 DEF Copy, Written, Launching
  <2>2. nbd = c
    BY <1>3, <1>8 DEF Copy, At
  <2>3. nbd \in Comps
    BY <1>2, <2>2
  <2>4. image' = [image EXCEPT ![c] = c] => image'[c] = c
    BY <1>2, <1>3
  <2> QED
    BY <1>3, <1>4, <1>5, <2>1, <2>2, <2>3, <2>4 DEF Launches
<1>9. CASE Release(t)
  <2>1. image[c] = c
    BY <1>3, <1>9 DEF Release, At
  <2> QED
    BY <1>5, <1>9, <2>1 DEF Release, Launches
<1> QED
  BY <1>6, <1>7, <1>8, <1>9

LEMMA SerialBoot ==
  ASSUME SerialInv, HostInv, HostInv', NEW t \in Threads, Boot(t)
  PROVE  SerialInv'
<1> DEFINE c == call[t].key
<1>1. /\ up /\ thr[t].pc = "boot" /\ EndCall(t)
      /\ \/ /\ End(t) /\ UNCHANGED <<up, bridges, vm>>
         \/ /\ vm' = [vm EXCEPT ![c] = [port |-> call[t].id, config |-> image[c]]]
            /\ thr' = [thr EXCEPT ![t].pc = "comp", ![t].comps = @ \ {c}]
            /\ UNCHANGED <<up, bridges>>
  BY DEF Boot, At, Launching, CommandFails, OnlyThread, hostVars
<1>2. call'[t].pc = "none" /\ UNCHANGED <<owns, nextId, ids>>
  BY <1>1, EndCallIs
<1>3. CASE End(t) /\ UNCHANGED <<up, bridges, vm>>
  BY <1>1, <1>2, <1>3, WorldSame, EndKeeps
<1>4. CASE /\ vm' = [vm EXCEPT ![c] = [port |-> call[t].id, config |-> image[c]]]
           /\ thr' = [thr EXCEPT ![t].pc = "comp", ![t].comps = @ \ {c}]
           /\ UNCHANGED <<up, bridges>>
  <2>1. /\ thr'[t].pc = "comp"
        /\ \A u \in Threads \ {t} : thr'[u] = thr[u]
    BY <1>4, AtPlace DEF HostInv, Handler
  <2>2. Outside(t)
    BY <1>1, <1>2, <1>4, <2>1 DEF Outside
  <2>3. Fits(thr[t], call[t])' /\ Progress(thr[t], call[t])'
    BY <1>2, <2>1 DEF Fits, Progress
  <2>4. BridgesKnown'
    BY <1>2, <1>4 DEF SerialInv, BridgesKnown
  <2>5. image[c] = c
    BY <1>1 DEF SerialInv, Local, Progress
  <2>6. BootsOwnConfig'
    <3>1. vm \in [Comps -> Machine \cup {Off}]
      BY AtPlace DEF Things
    <3>2. \A d \in Comps : d # c => vm'[d] = vm[d]
      BY <1>4, <3>1
    <3>3. c \in Comps => vm'[c].config = c
      BY <1>4, <2>5, <3>1
    <3> QED
      BY <3>2, <3>3 DEF SerialInv, BootsOwnConfig, Runs
  <2> QED
    BY <2>2, <2>3, <2>4, <2>6, OutsideKeeps
<1> QED
  BY <1>1, <1>3, <1>4

\* Destruct goes on between two calls, as far as it has come.
LEMMA LoopKeeps ==
  ASSUME SerialInv, HostInv, HostInv', NEW t \in Threads, NEW h \in Handler,
         up, UNCHANGED <<up, bridges, vm, owns, nextId, ids>>,
         call'[t].pc = "none", thr' = [thr EXCEPT ![t] = h],
         thr[t].pc # "idle", h.pc \in {"kill", "find", "ports", "clean"},
         Progress(h, NoCall)
  PROVE  SerialInv'
<1>1. /\ thr'[t] = h
      /\ \A u \in Threads \ {t} : thr'[u] = thr[u]
  BY DEF HostInv
<1>2. Fits(thr[t], call[t])'
  BY <1>1 DEF Fits
<1>3. Progress(thr[t], call[t])'
  BY <1>1 DEF Progress, Gone, Runs
<1>4. Outside(t)
  BY <1>1 DEF Outside
<1> QED
  BY <1>2, <1>3, <1>4, WorldSame, OutsideKeeps

\* The same for a step that only moves on.
LEMMA NextKeeps ==
  ASSUME SerialInv, HostInv, HostInv', NEW t \in Threads,
         NEW pc \in {"find", "clean"}, Goto(t, pc), UNCHANGED mapVars,
         call[t].pc = "none", up, UNCHANGED <<up, bridges, vm>>,
         \/ thr[t].pc = "kill" /\ thr[t].comps = {} /\ pc = "find"
         \/ thr[t].pc = "find" /\ thr[t].nets = {} /\ pc = "clean"
         \/ thr[t].pc = "ports" /\ pc = "find"
  PROVE  SerialInv'
<1> DEFINE h == [thr[t] EXCEPT !.pc = pc]
<1>1. /\ h \in Handler /\ h.pc = pc /\ h.bp = thr[t].bp /\ h.nets = thr[t].nets
  BY AtPlace DEF Handler, Pcs
<1>2. thr' = [thr EXCEPT ![t] = h]
  BY DEF Goto
<1>3. call'[t].pc = "none" /\ UNCHANGED <<owns, nextId, ids>>
  BY DEF mapVars
<1> HIDE DEF h
<1>4. Progress(h, NoCall)
  BY <1>1 DEF Progress, SerialInv, Local
<1> QED
  BY <1>1, <1>2, <1>3, <1>4, LoopKeeps

LEMMA SerialKill ==
  ASSUME SerialInv, HostInv, HostInv', NEW t \in Threads, Terminate(t)
  PROVE  SerialInv'
<1>1. up /\ thr[t].pc = "kill" /\ Local(t)
  BY DEF Terminate, Free, Back, At, SerialInv
<1>2. ASSUME NEW c \in thr[t].comps, vm' = [vm EXCEPT ![c] = Off],
             MakeCall(t, "qk", "erase", c), UNCHANGED <<up, thr, bridges>>
      PROVE  SerialInv'
  <2>1. /\ call'[t].pc = "lock" /\ call'[t].map = "qk" /\ call'[t].op = "erase"
        /\ call'[t].key = c /\ UNCHANGED <<owns, nextId, ids>>
    BY <1>2, MakeCallIs
  <2>2. vm \in [Comps -> Machine \cup {Off}] /\ c \in Comps
    BY <1>2, AtPlace DEF Things, Handler
  <2>3. vm'[c] = Off /\ \A x : x # c => vm'[x] = vm[x]
    BY <1>2, <2>2
  <2>4. Fits(thr[t], call[t])'
    BY <1>1, <1>2, <2>1 DEF Fits, Makes
  <2>5. Progress(thr[t], call[t])'
    BY <1>1, <1>2, <2>1, <2>3 DEF Local, Progress, Gone, Runs
  <2>6. BridgesKnown' /\ BootsOwnConfig'
    BY <1>2, <2>1, <2>3 DEF SerialInv, BridgesKnown, BootsOwnConfig, Runs
  <2>7. Outside(t)
    BY <1>1, <1>2, <2>1 DEF Outside
  <2> QED
    BY <2>4, <2>5, <2>6, <2>7, OutsideKeeps
<1>3. CASE End(t) /\ UNCHANGED mapVars /\ OnlyThread
  BY <1>1, <1>3, WorldSame, EndKeeps DEF OnlyThread, hostVars, mapVars
<1>4. CASE Back(t, "kill", "erase")
  <2> DEFINE h == [thr[t] EXCEPT !.comps = @ \ {call[t].key}]
  <2>1. /\ thr' = [thr EXCEPT ![t] = h] /\ EndCall(t) /\ UNCHANGED <<up, bridges, vm>>
        /\ call[t].pc = "returned" /\ call[t].op = "erase"
    BY <1>4 DEF Terminate, Free, Back, Called, OnlyThread, hostVars
  <2>2. /\ h \in Handler /\ h.pc = "kill" /\ h.bp = thr[t].bp
        /\ h.comps = thr[t].comps \ {call[t].key} /\ h.nets = thr[t].nets
    BY <1>1, AtPlace DEF Handler
  <2>3. Gone(call[t].key)
    BY <1>1, <2>1 DEF Local, Fits, Makes, Knows, Progress, Gone, Launches
  <2> HIDE DEF h
  <2>4. Progress(h, NoCall)
    BY <1>1, <2>2, <2>3 DEF Local, Progress, NoCall
  <2> QED
    BY <1>1, <2>1, <2>2, <2>4, EndCallIs, LoopKeeps
<1>5. CASE Free(t, "kill") /\ thr[t].comps = {} /\ Goto(t, "find")
           /\ UNCHANGED mapVars /\ OnlyThread
  BY <1>1, <1>5, NextKeeps DEF Free, OnlyThread, hostVars
<1> QED
  BY <1>2, <1>3, <1>4, <1>5 DEF Terminate

LEMMA SerialFind ==
  ASSUME SerialInv, HostInv, HostInv', NEW t \in Threads, FindBridge(t)
  PROVE  SerialInv'
<1>1. up /\ thr[t].pc = "find" /\ call[t].pc = "none" /\ OnlyThread
  BY DEF FindBridge, Free, At
<1>2. ASSUME NEW n \in thr[t].nets, MakeCall(t, "bridge", "get", n), UNCHANGED thr
      PROVE  SerialInv'
  <2>1. n \in Nets
    BY <1>2, AtPlace DEF Handler
  <2> QED
    BY <1>1, <1>2, <2>1, CallKeeps DEF Makes, Launches
<1>3. CASE thr[t].nets = {} /\ Goto(t, "clean") /\ UNCHANGED mapVars
  BY <1>1, <1>3, NextKeeps DEF OnlyThread, hostVars
<1> QED
  BY <1>2, <1>3 DEF FindBridge

\* Between the deletion of a bridge and that of its id, the id is of no bridge.
LEMMA SerialDelete ==
  ASSUME SerialInv, HostInv, HostInv', NEW t \in Threads, DeleteBridge(t)
  PROVE  SerialInv'
<1>1. /\ up /\ thr[t].pc \in {"find", "delete"} /\ Local(t)
      /\ call[t].pc = "returned"
  BY DEF DeleteBridge, Back, Called, At, SerialInv
<1>2. CASE /\ Back(t, "find", "get")
           /\ bridges' = bridges \ {call[t].id}
           /\ MakeCall(t, "bridge", "erase", call[t].key)
           /\ Goto(t, "delete")
           /\ UNCHANGED <<up, vm>>
  <2> DEFINE k == call[t].key
  <2>1. /\ call'[t].pc = "lock" /\ call'[t].map = "bridge" /\ call'[t].op = "erase"
        /\ call'[t].key = k /\ UNCHANGED <<owns, nextId, ids>>
    BY <1>2, MakeCallIs
  <2>2. /\ thr'[t].pc = "delete" /\ thr'[t].bp = thr[t].bp
        /\ thr'[t].nets = thr[t].nets
        /\ \A u \in Threads \ {t} : thr'[u] = thr[u]
    BY <1>2, GotoIs
  <2>3. thr[t].pc = "find" /\ call[t].op = "get" /\ call[t].map = "bridge"
    BY <1>1, <1>2 DEF Back, At, Called, Local, Fits, Makes, Launches
  <2>4. ids["bridge"][k] = call[t].id /\ k \in Nets
    BY <1>1, <2>3 DEF Local, Knows, Fits
  <2>5. Fits(thr[t], call[t])'
    BY <2>1, <2>2, <2>4 DEF Fits, Makes
  <2>6. Progress(thr[t], call[t])'
    BY <1>1, <1>2, <2>1, <2>2, <2>3, <2>4 DEF Local, Progress, Gone, Runs
  <2>7. BridgesKnown' /\ BootsOwnConfig'
    BY <1>2, <2>1 DEF SerialInv, BridgesKnown, BootsOwnConfig, Runs
  <2>8. Outside(t)
    BY <1>1, <1>2, <2>1, <2>2 DEF Outside
  <2> QED
    BY <2>5, <2>6, <2>7, <2>8, OutsideKeeps
<1>3. CASE End(t) /\ EndCall(t) /\ UNCHANGED <<up, bridges, vm>>
  BY <1>1, <1>3, EndCallIs, WorldSame, EndKeeps
<1>4. CASE Back(t, "delete", "erase")
  <2> DEFINE h == [thr[t] EXCEPT !.pc = "ports", !.comps = thr[t].bp.linked,
                                 !.nets = @ \ {call[t].key}]
  <2>1. /\ thr' = [thr EXCEPT ![t] = h] /\ EndCall(t) /\ UNCHANGED <<up, bridges, vm>>
        /\ thr[t].pc = "delete" /\ call[t].op = "erase"
    BY <1>4 DEF DeleteBridge, Back, At, Called, OnlyThread, hostVars
  <2>2. thr[t].bp.linked \subseteq Comps
    BY <1>1, AtPlace, HostAssumption DEF Place
  <2>3. /\ h \in Handler /\ h.pc = "ports" /\ h.bp = thr[t].bp
        /\ h.nets = thr[t].nets \ {call[t].key}
    BY <2>2, AtPlace DEF Handler, Pcs
  <2>4. ids["bridge"][call[t].key] = NoId
    BY <1>1, <2>1 DEF Local, Fits, Makes, Knows, Launches
  <2> HIDE DEF h
  <2>5. Progress(h, NoCall)
    BY <1>1, <2>1, <2>3, <2>4 DEF Local, Progress
  <2> QED
    BY <1>1, <2>1, <2>3, <2>5, EndCallIs, LoopKeeps
<1> QED
  BY <1>2, <1>3, <1>4 DEF DeleteBridge, CommandFails, OnlyThread, hostVars

LEMMA SerialPorts ==
  ASSUME SerialInv, HostInv, HostInv', NEW t \in Threads, ErasePorts(t)
  PROVE  SerialInv'
<1>1. up /\ thr[t].pc = "ports" /\ Local(t) /\ OnlyThread
  BY DEF ErasePorts, Free, Back, At, SerialInv
<1>2. ASSUME NEW c \in thr[t].comps, MakeCall(t, "vhost", "erase", c), UNCHANGED thr
      PROVE  SerialInv'
  BY <1>1, <1>2, CallKeeps DEF Makes, Launches
<1>3. CASE /\ EndCall(t)
           /\ thr' = [thr EXCEPT ![t].comps = @ \ {call[t].key}]
  <2> DEFINE h == [thr[t] EXCEPT !.comps = @ \ {call[t].key}]
  <2>1. thr' = [thr EXCEPT ![t] = h]
    BY <1>3
  <2>2. /\ h \in Handler /\ h.pc = "ports" /\ h.bp = thr[t].bp
        /\ h.nets = thr[t].nets
    BY <1>1, AtPlace DEF Handler
  <2> HIDE DEF h
  <2>3. Progress(h, NoCall)
    BY <1>1, <2>2 DEF Local, Progress
  <2> QED
    BY <1>1, <1>3, <2>1, <2>2, <2>3, EndCallIs, LoopKeeps DEF OnlyThread, hostVars
<1>4. CASE Free(t, "ports") /\ Goto(t, "find") /\ UNCHANGED mapVars
  BY <1>1, <1>4, NextKeeps DEF Free, OnlyThread, hostVars
<1> QED
  BY <1>2, <1>3, <1>4 DEF ErasePorts

LEMMA SerialClean ==
  ASSUME SerialInv, HostInv, HostInv', NEW t \in Threads,
         DelXpDir(t) \/ CallThrew(t)
  PROVE  SerialInv'
<1>1. CASE DelXpDir(t)
  BY <1>1, WorldSame, EndKeeps DEF DelXpDir, Free, At, mapVars
<1>2. CASE CallThrew(t)
  <2>1. thr[t].pc # "idle"
    BY <1>2, AtPlace DEF CallThrew, Place, NoCall
  <2> QED
    BY <1>2, <2>1, EndCallIs, WorldSame, EndKeeps
       DEF CallThrew, OnlyThread, hostVars
<1> QED
  BY <1>1, <1>2

LEMMA SerialInCall ==
  ASSUME SerialInv, HostInv, HostInv', NEW t \in Threads, InCall(t)
  PROVE  SerialInv'
<1> DEFINE k == call[t].key
<1>1. /\ up /\ MapStep(t) /\ thr' = thr
      /\ UNCHANGED <<up, bridges, vm, nbd, image>>
  BY DEF InCall, OnlyThread, hostVars
<1>2. /\ call[t].pc # "none" /\ call'[t].pc # "none"
      /\ call'[t].key = k
  BY <1>1, MapStepKeeps DEF HostInv
<1>3. /\ Knows(call[t])' /\ IdsDrawn'
      /\ call'[t].map = call[t].map /\ call'[t].op = call[t].op
      /\ \A m \in Maps, x \in Keys :
           \/ ids'[m][x] = ids[m][x]
           \/ /\ m = call[t].map /\ x = k
              /\ \/ call[t].op = "erase" /\ ids'[m][x] = NoId
                 \/ call[t].op = "create" /\ ids[m][x] = NoId
  BY <1>1, MapStepKnows
<1>4. Local(t) /\ Makes(thr[t], call[t].map, call[t].op)
  BY <1>2 DEF SerialInv, Local, Fits
<1>5. /\ "bridge" \in Maps /\ "qk" \in Maps /\ bridges \subseteq Nat
      /\ NoId \notin Nat /\ Nets \subseteq Keys /\ Comps \subseteq Keys
      /\ thr[t] \in Handler
  BY AtPlace, MapAssumption, HostAssumption DEF Things
<1>6. Fits(thr[t], call[t])'
  BY <1>1, <1>2, <1>3, <1>4 DEF Local, Fits, Makes
<1>7. thr[t].pc \in {"kill", "find", "delete", "ports", "clean"} =>
        /\ thr[t].bp \in Blueprints
        /\ \A m \in Maps, x \in Keys :
             ids'[m][x] = ids[m][x] \/ ids'[m][x] = NoId
  <2>1. thr[t].pc # "idle" => thr[t].bp \in Blueprints
    BY AtPlace DEF Place
  <2>2. thr[t].pc \in {"kill", "find", "delete", "ports", "clean"} =>
          call[t].op # "create"
    BY <1>4 DEF Makes, Launches
  <2> QED
    BY <1>3, <2>1, <2>2
<1>8. Progress(thr[t], call[t])'
  <2>1. \A bp \in Blueprints : bp.nets \subseteq Nets /\ bp.comps \subseteq Comps
    BY HostAssumption
  <2>2. thr[t].pc = "delete" => k \in Nets
    BY <1>2, <1>4 DEF Local, Fits
  <2>3. thr'[t].pc = "delete" => ids'["bridge"][call'[t].key] \notin bridges'
    BY <1>1, <1>2, <1>4, <1>5, <1>7, <2>2 DEF Local, Progress
  <2>4. \A x \in Comps : Gone(x) /\ thr[t].pc \in {"kill", "find", "delete",
                                                   "ports", "clean"} => Gone(x)'
    BY <1>1, <1>5, <1>7 DEF Gone, Runs
  <2>5. \A n \in Nets : ids["bridge"][n] = NoId
            /\ thr[t].pc \in {"kill", "find", "delete", "ports", "clean"}
          => ids'["bridge"][n] = NoId
    BY <1>5, <1>7
  <2>6. Progress(thr[t], call[t])
    BY <1>4 DEF Local
  <2>7. \A x : Runs(x)' = Runs(x)
    BY <1>1 DEF Runs
  <2> QED
    BY <1>1, <1>2, <1>7, <2>1, <2>3, <2>4, <2>5, <2>6, <2>7 DEF Progress
<1>9. BridgesKnown'
  <2> SUFFICES ASSUME NEW b \in bridges PROVE \E n \in Nets : ids'["bridge"][n] = b
    BY <1>1 DEF BridgesKnown
  <2>1. PICK n \in Nets : ids["bridge"][n] = b
    BY <1>1 DEF SerialInv, BridgesKnown
  <2>2. CASE call[t].op = "erase" /\ call[t].map = "bridge"
    <3>1. thr[t].pc = "delete"
      BY <1>4, <2>2 DEF Makes, Launches
    <3>2. ids["bridge"][k] \notin bridges
      BY <1>4, <3>1 DEF Local, Progress
    <3> QED
      BY <1>3, <1>5, <2>1, <2>2, <3>2
  <2>3. CASE ~ (call[t].op = "erase" /\ call[t].map = "bridge")
    <3>1. ids["bridge"][n] # NoId
      BY <1>5, <2>1
    <3> QED
      BY <1>3, <1>5, <2>1, <2>3, <3>1
  <2> QED
    BY <2>2, <2>3
<1>10. BootsOwnConfig'
  BY <1>1 DEF SerialInv, BootsOwnConfig, Runs
<1>11. thr[t].pc # "idle"
  BY <1>4 DEF Makes, Launches
<1> QED
  BY <1>1, <1>3, <1>6, <1>8, <1>9, <1>10, <1>11, SerialMoves DEF Local

\* Clients wait: a request comes when every thread is idle.
LEMMA SerialAccept ==
  ASSUME Serial, SerialInv, HostInv, HostInv', NEW t \in Threads,
         NEW pc \in {"live", "kill"}, Accept(t, pc)
  PROVE  SerialInv'
<1>1. /\ up /\ Idle /\ UNCHANGED <<mapVars, up, bridges, vm>>
  BY DEF Accept, OneMoreRequest, hostVars
<1>2. PICK bp \in Blueprints :
        thr' = [thr EXCEPT ![t] =
                  [pc |-> pc, bp |-> bp, nets |-> bp.nets, comps |-> bp.comps]]
  BY DEF Accept
<1>3. /\ thr'[t].pc = pc /\ thr'[t].bp = bp
      /\ thr'[t].nets = bp.nets /\ thr'[t].comps = bp.comps
      /\ \A u \in Threads \ {t} : thr'[u].pc = "idle"
  BY <1>1, <1>2 DEF HostInv, Idle
<1>4. call'[t].pc = "none"
  BY <1>1 DEF Idle, HostInv, Places, Place, mapVars, NoCall
<1>5. Local(t)'
  BY <1>3, <1>4 DEF Local, Fits, Knows, Progress
<1>6. \A u \in Threads : Local(u)'
  BY <1>3, <1>5, IdleIsLocal
<1>7. OneBusy'
  BY <1>1, <1>3 DEF OneBusy
<1>8. IdsDrawn' /\ BridgesKnown' /\ BootsOwnConfig'
  BY <1>1, WorldSame DEF SerialInv, IdsDrawn, IdsDistinct, mapVars
<1> QED
  BY <1>6, <1>7, <1>8 DEF SerialInv

LEMMA SerialProcess ==
  ASSUME SerialInv, HostInv, HostInv', List \/ Restart \/ UNCHANGED vars
  PROVE  SerialInv'
<1>1. CASE List
  <2>1. /\ up' = FALSE /\ vm' = vm /\ \A t \in Threads : thr'[t].pc = "idle"
        /\ \A m \in Maps, k \in Keys : ids'[m][k] = NoId
    BY <1>1 DEF List, IdleHandler, MapReset, NewMaps, hostVars
  <2>2. \A t \in Threads : Local(t)'
    BY <2>1, IdleIsLocal
  <2>3. OneBusy' /\ IdsDrawn' /\ BridgesKnown'
    BY <2>1 DEF OneBusy, Idle, IdsDrawn, IdsDistinct, BridgesKnown
  <2>4. BootsOwnConfig'
    BY <2>1 DEF SerialInv, BootsOwnConfig, Runs
  <2> QED
    BY <2>2, <2>3, <2>4 DEF SerialInv
<1>2. CASE Restart
  <2>1. /\ ~ up /\ thr' = thr /\ bridges' = {} /\ vm' = [c \in Comps |-> Off]
        /\ UNCHANGED mapVars
    BY <1>2 DEF Restart
  <2>2. \A t \in Threads : thr'[t].pc = "idle"
    BY <2>1 DEF SerialInv, OneBusy, Idle
  <2>3. \A t \in Threads : Local(t)'
    BY <2>2, IdleIsLocal
  <2>4. OneBusy' /\ BridgesKnown' /\ BootsOwnConfig'
    BY <2>1, <2>2 DEF OneBusy, Idle, BridgesKnown, BootsOwnConfig, Runs
  <2>5. IdsDrawn'
    BY <2>1 DEF SerialInv, IdsDrawn, IdsDistinct, mapVars
  <2> QED
    BY <2>3, <2>4, <2>5 DEF SerialInv
<1>3. CASE UNCHANGED vars
  <2>1. UNCHANGED <<up, thr, bridges, vm, nbd, image, owns, nextId, ids, call>>
    BY <1>3 DEF vars, mapVars, hostVars
  <2>2. OneBusy'
    BY <2>1 DEF SerialInv, OneBusy, Idle
  <2>3. \A t \in Threads : Local(t)'
    BY <2>1 DEF SerialInv, Local, Fits, Knows, Progress, Gone, Runs
  <2>4. IdsDrawn' /\ BridgesKnown' /\ BootsOwnConfig'
    BY <2>1, WorldSame DEF SerialInv, IdsDrawn, IdsDistinct
  <2> QED
    BY <2>2, <2>3, <2>4 DEF SerialInv
<1> QED
  BY <1>1, <1>2, <1>3

LEMMA SerialInvariant ==
  ASSUME Serial
  PROVE  Spec => []SerialInv
<1>1. Init => SerialInv
  <2> SUFFICES ASSUME Init PROVE SerialInv
    OBVIOUS
  <2>1. /\ up /\ Idle /\ bridges = {} /\ \A c \in Comps : ~ Runs(c)
        /\ \A t \in Threads : call[t] = NoCall
        /\ \A m \in Maps, k \in Keys : ids[m][k] = NoId
    BY DEF Init, IdleHandler, Idle, Runs, MapInit, NewMaps
  <2>2. \A t \in Threads : Local(t)
    <3>1. \A t \in Threads : thr[t].pc = "idle" /\ call[t].pc = "none"
      <4>1. NoCall.pc = "none"
        BY DEF NoCall
      <4> QED
        BY <2>1, <4>1 DEF Idle
    <3> QED
      BY <3>1 DEF Local, Fits, Knows, Progress
  <2> QED
    BY <2>1, <2>2 DEF SerialInv, OneBusy, Idle, IdsDrawn, IdsDistinct,
       BridgesKnown, BootsOwnConfig
<1>2. HostInv /\ SerialInv /\ [Next]_vars => SerialInv'
  <2> SUFFICES ASSUME HostInv, SerialInv, [Next]_vars, HostInv' PROVE SerialInv'
    BY HostStep
  <2>1. ASSUME NEW t \in Threads, Construct(t) \/ Destruct(t)
        PROVE  SerialInv'
    BY <2>1, SerialAccept DEF Construct, Destruct
  <2>2. ASSUME NEW t \in Threads, ConstructStep(t)
        PROVE  SerialInv'
    BY <2>2, SerialLive, SerialDir, SerialBridge, SerialLaunch, SerialImage,
       SerialConfig, SerialBoot DEF ConstructStep
  <2>3. ASSUME NEW t \in Threads, DestructStep(t)
        PROVE  SerialInv'
    BY <2>3, SerialKill, SerialFind, SerialDelete, SerialPorts, SerialClean
       DEF DestructStep
  <2>4. CASE List \/ Restart \/ UNCHANGED vars
    BY <2>4, SerialProcess
  <2> QED
    BY <2>1, <2>2, <2>3, <2>4, SerialInCall, SerialClean DEF Next, HandlerStep, Quiet
<1> QED
  BY <1>1, <1>2, HostInvariant, PTL DEF Spec

\* When clients wait for the thread of a construct, no two keys of a map ever
\* have one id: no two networks one bridge, no two computers one vnc port.
THEOREM SerialIds ==
  ASSUME Serial
  PROVE  Spec => []IdsDistinct
<1>1. SerialInv => IdsDistinct
  BY DEF SerialInv, IdsDrawn
<1> QED
  BY <1>1, SerialInvariant, PTL

\* When clients wait, bridgeId forgets no bridge, whatever commands failed and
\* wherever the process ended: each bridge's id is that of a network.  Whether
\* a destruct can still look it up is not said (OnlyMissAbandons).
THEOREM SerialBridges ==
  ASSUME Serial
  PROVE  Spec => []BridgesKnown
<1>1. SerialInv => BridgesKnown
  BY DEF SerialInv
<1> QED
  BY <1>1, SerialInvariant, PTL

\* When clients wait, the one network block device mixes no images up, also
\* where a umount or disconnect failed unseen and left an image on it: every
\* machine runs with the init script of its own computer.
THEOREM SerialConfigs ==
  ASSUME Serial
  PROVE  Spec => []BootsOwnConfig
<1>1. SerialInv => BootsOwnConfig
  BY DEF SerialInv
<1> QED
  BY <1>1, SerialInvariant, PTL

\* When clients wait, a destruct that says "ok" has taken everything down.
THEOREM SerialDestruct ==
  ASSUME Serial
  PROVE  Spec => []DestructedIsDown
<1>1. SerialInv => DestructedIsDown
  BY DEF SerialInv, Local, Progress, Gone, DestructedIsDown
<1> QED
  BY <1>1, SerialInvariant, PTL

\* A step of a handler outside the maps leaves every mutex with the one that
\* has it, and is made by a thread that is between no lock and unlock.
LEMMA OutsideMutex ==
  ASSUME HostInv, NEW t \in Threads, ConstructStep(t) \/ DestructStep(t)
  PROVE  /\ mtx' = mtx
         /\ \A u \in Threads \ {t} : call'[u] = call[u]
         /\ call[t].pc \in {"none", "returned"}
<1>1. call \in [Threads -> Calls]
  BY DEF HostInv, MapInv, MapTypeOK
<1>2. ASSUME UNCHANGED mapVars \/ EndCall(t)
               \/ \E m, op, k : MakeCall(t, m, op, k)
      PROVE  mtx' = mtx /\ \A u \in Threads \ {t} : call'[u] = call[u]
  BY <1>1, <1>2 DEF mapVars, EndCall, MakeCall
<1>3. CASE DestructStep(t)
  <2>1. UNCHANGED mapVars \/ EndCall(t) \/ \E m, op, k : MakeCall(t, m, op, k)
    BY <1>3 DEF DestructStep, Terminate, FindBridge, DeleteBridge, ErasePorts,
       DelXpDir, CommandFails
  <2>2. call[t].pc \in {"none", "returned"}
    BY <1>3 DEF DestructStep, Terminate, FindBridge, DeleteBridge, ErasePorts,
       DelXpDir, Free, Back, Called
  <2> QED
    BY <1>2, <2>1, <2>2
<1>4. CASE ConstructStep(t)
  <2>1. UNCHANGED mapVars \/ EndCall(t) \/ \E m, op, k : MakeCall(t, m, op, k)
    BY <1>4 DEF ConstructStep, Live, InitXpDir, CreateBridge, CreateId, GetPorts,
       CreateImage, LaunchDone, Detach, Connect, Copy, Release, Boot, CommandFails
  <2>2. call[t].pc \in {"none", "returned"}
    BY <1>4, AtPlace DEF ConstructStep, Live, InitXpDir, CreateBridge, CreateId,
       GetPorts, CreateImage, LaunchDone, Detach, Connect, Copy, Release, Boot,
       Free, Back, Called, At, Place, Launches
  <2> QED
    BY <1>2, <2>1, <2>2
<1> QED
  BY <1>3, <1>4

\* Nobody abandons a mutex by leaving calls between lock and unlock alone.
LEMMA HoldersStay ==
  ASSUME HostInv, NEW m \in Maps, mtx' = mtx, ~ Abandoned(m),
         \A u \in Threads : call[u].pc \in {"inside", "unlock"} => call'[u] = call[u]
  PROVE  ~ Abandoned(m)'
<1>1. mtx[m] \in Threads \cup {NoThread}
  BY DEF HostInv, MapInv, MapTypeOK
<1> QED
  BY <1>1 DEF Abandoned

\* Inside a call, only get leaves without unlocking: the flag says that the
\* mutex is owned when unlock asks it, since no other thread clears it.
LEMMA MapStepAbandons ==
  ASSUME HostInv, SerialInv, NEW t \in Threads, MapStep(t),
         NEW m \in Maps, ~ Abandoned(m), Abandoned(m)'
  PROVE  mtx[m] = t /\ call[t].op = "get" /\ ids[m][call[t].key] = NoId
<1>1. /\ call \in [Threads -> Calls] /\ Knows(call[t])
      /\ mtx \in [Maps -> Threads \cup {NoThread}]
      /\ NoThread \notin Threads
      /\ \A u \in Threads \ {t} : call'[u] = call[u]
  BY MapStepKeeps, MapAssumption DEF HostInv, MapInv, MapTypeOK, SerialInv, Local
<1>2. /\ call[t].pc \notin {"none", "returned", "threw"}
      /\ call'[t].map = call[t].map
  BY MapStepKeeps, MapStepKnows DEF HostInv
<1>3. call[t].map \in Maps
  BY <1>1, <1>2 DEF Calls, NoCall
<1>4. ASSUME mtx' = mtx, call[t].pc \notin {"inside", "unlock"}
      PROVE  FALSE
  BY <1>1, <1>4, HoldersStay
<1>5. CASE Lock(t) \/ Disown(t) \/ Draw(t) \/ Store(t)
  BY <1>4, <1>5 DEF Lock, Disown, Draw, Store
<1>6. CASE Take(t)
  <2>1. /\ call[t].pc = "take" /\ mtx' = [mtx EXCEPT ![call[t].map] = t]
        /\ Advance(t, "inside")
    BY <1>6 DEF Take
  <2>2. call'[t].pc = "inside"
    BY <1>1, <1>2, <2>1 DEF Advance, Calls, NoCall
  <2>3. CASE m = call[t].map
    <3>1. mtx'[m] = t
      BY <1>1, <2>1, <2>3
    <3> QED
      BY <1>2, <2>2, <2>3, <3>1 DEF Abandoned
  <2>4. CASE m # call[t].map
    <3>1. mtx'[m] = mtx[m] /\ mtx[m] \in Threads \cup {NoThread}
      BY <1>1, <2>1, <2>4
    <3> QED
      BY <1>1, <2>1, <3>1 DEF Abandoned
  <2> QED
    BY <2>3, <2>4
<1>7. CASE Inside(t)
  <2>1. /\ call[t].pc = "inside" /\ mtx' = mtx
        /\ call'[t].pc = IF call[t].op = "get"
                            /\ ids[call[t].map][call[t].key] = NoId
                         THEN "threw" ELSE "unlock"
    BY <1>1, <1>7 DEF Inside, Calls, NoCall
  <2>2. mtx[m] \in Threads \cup {NoThread} /\ mtx[m] # NoThread
    BY <1>1, <2>1 DEF Abandoned
  <2>3. mtx[m] = t
    BY <1>1, <2>1, <2>2 DEF Abandoned
  <2>4. m = call[t].map
    BY <2>2, <2>3 DEF Abandoned
  <2>5. ~ (call'[t].pc = "unlock")
    BY <1>2, <2>1, <2>3, <2>4 DEF Abandoned
  <2> QED
    BY <2>1, <2>3, <2>4, <2>5
<1>8. CASE Unlock(t)
  <2>1. /\ call[t].pc = "unlock"
        /\ mtx' = [mtx EXCEPT ![call[t].map] = NoThread]
    BY <1>1, <1>8 DEF Unlock, Knows
  <2>2. CASE m = call[t].map
    BY <1>1, <2>1, <2>2 DEF Abandoned
  <2>3. CASE m # call[t].map
    <3>1. mtx'[m] = mtx[m] /\ mtx[m] \in Threads \cup {NoThread}
      BY <1>1, <2>1, <2>3
    <3>2. mtx[m] # t
      BY <1>1, <2>3 DEF Abandoned
    <3> QED
      BY <1>1, <3>1, <3>2 DEF Abandoned
  <2> QED
    BY <2>2, <2>3
<1> QED
  BY <1>5, <1>6, <1>7, <1>8 DEF MapStep

LEMMA AbandonStep ==
  ASSUME HostInv, SerialInv, [Next]_vars, NEW m \in Maps,
         ~ Abandoned(m), Abandoned(m)'
  PROVE  call[mtx[m]].op = "get" /\ ids[m][call[mtx[m]].key] = NoId
<1>1. ASSUME mtx' = mtx,
             \A u \in Threads :
               call[u].pc \in {"inside", "unlock"} => call'[u] = call[u]
      PROVE  FALSE
  BY <1>1, HoldersStay
<1>2. ASSUME NEW t \in Threads, ConstructStep(t) \/ DestructStep(t)
      PROVE  FALSE
  BY <1>1, <1>2, OutsideMutex
<1>3. ASSUME NEW t \in Threads, CallThrew(t)
      PROVE  FALSE
  BY <1>1, <1>3 DEF CallThrew, EndCall, HostInv, MapInv, MapTypeOK
<1>4. CASE List
  BY <1>4 DEF List, MapReset, NewMaps, Abandoned
<1>5. CASE UNCHANGED mapVars
  BY <1>1, <1>5 DEF mapVars
<1>6. UNCHANGED mapVars \/ List
        \/ \E t \in Threads : \/ ConstructStep(t) \/ DestructStep(t)
                              \/ InCall(t) \/ CallThrew(t)
  BY DEF Next, Construct, Destruct, Accept, HandlerStep, Restart, Quiet, vars
<1>7. ASSUME NEW t \in Threads, InCall(t)
      PROVE  call[mtx[m]].op = "get" /\ ids[m][call[mtx[m]].key] = NoId
  BY <1>7, MapStepAbandons DEF InCall
<1> QED
  BY <1>2, <1>3, <1>4, <1>5, <1>6, <1>7

\* When clients wait, get is the one operation that leaves the lock of a map
\* locked for good, and only for a key that is not there.
THEOREM SerialLocks ==
  ASSUME Serial
  PROVE  Spec => OnlyMissAbandons
<1>1. HostInv /\ SerialInv /\ [Next]_vars =>
        [\A m \in Maps : ~ Abandoned(m) /\ Abandoned(m)' =>
           LET c == call[mtx[m]] IN c.op = "get" /\ ids[m][c.key] = NoId]_vars
  BY AbandonStep
<1> QED
  BY <1>1, HostInvariant, SerialInvariant, PTL DEF Spec, OnlyMissAbandons

============================================================================
