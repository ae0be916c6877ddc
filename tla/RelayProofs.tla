---------------------------- MODULE RelayProofs ----------------------------
(***************************************************************************)
(* Proofs about Relay: its types, that threads are neither lost nor        *)
(* shared, that callers hold theirs, and that a service runs what the      *)
(* client meant and once.                                                  *)
(***************************************************************************)
EXTENDS Relay, TLAPS

-----------------------------------------------------------------------------
(* The inductive invariant                                                 *)

\* A call that was not made has left nothing, nor has any below it.
NotYet ==
  \A r \in Requests : \A l \in Levels : asked[r][l] = "no" =>
    \A m \in Levels : l <= m => asked[r][m] = "no" /\ served[r][m] = "no"

AnsweredIsDone ==
  \A r \in Requests : \A l \in Levels :
    asked[r][l] = "answered" => served[r][l] = "done"

KnownBelow ==
  \A r \in Requests : \A l \in {2, 3} : asked[r][l] # "no" => Known(r)

\* What was run, by the answer there is.
RanAnswer ==
  \A r \in Requests :
    /\ asked[r][1] = "no" => answer[r] = NoAnswer
    /\ answer[r] = NoAnswer => ran[r] = <<>>
    /\ ran[r] \in {<<>>, <<Command[cmd[r]].path>>}
    /\ answer[r] # NoAnswer /\ ~Known(r) => answer[r].status = 404
    /\ answer[r].status = 200 =>
         /\ ran[r] = <<Command[cmd[r]].path>>
         /\ Command[cmd[r]].wants \subseteq answer[r].keys

Calls == NotYet /\ AnsweredIsDone /\ KnownBelow

RelayInv ==
  RelayTypeOK /\ Calls /\ RanAnswer /\ ThreadsAccounted /\ WaitersHoldThreads

-----------------------------------------------------------------------------
(* Operators                                                               *)

\* Known paths are led to a server, another one at each level.
LEMMA ServersDiffer ==
  ASSUME NEW r, Known(r)
  PROVE  /\ \A l \in Levels : ServerAt(r, l) \in Servers
         /\ \A l, m \in Levels : ServerAt(r, l) = ServerAt(r, m) => l = m
<1> DEFINE p == Command[cmd[r]].path
<1>1. p \in Paths  BY DEF Known
<1>2. \A q \in Paths : ApiRoute[q] \in Paths /\ AccessRoute[q] \in Paths
  <2>1. <<"accounts", "removeUser">> \in Paths
    BY DEF Paths, Services, Operations
  <2> QED  BY <2>1 DEF ApiRoute, AccessRoute
<1>3. \A q \in Paths : q[1] \in Services
  BY DEF Paths
<1>4. Target(r)[1] \in Services  BY <1>1, <1>2, <1>3 DEF Target
<1>5. \A s \in Services : s # "api" /\ s # "access"
  BY DEF Services, Operations
<1> QED  BY <1>4, <1>5 DEF ServerAt, Levels, Servers

\* What the client meant is where the two routes lead, and the answer has
\* what the client reads.
LEMMA Routed ==
  ASSUME NEW r, cmd[r] \in DOMAIN Command, Known(r)
  PROVE  /\ Target(r) = Command[cmd[r]].path
         /\ Command[cmd[r]].wants \subseteq Gives(Target(r))
         /\ Target(r) \in Paths
<1> DEFINE p == Command[cmd[r]].path
<1>1. p \in Paths  BY DEF Known
<1>2. p # <<"accounts", "removeGroup">> /\ p # <<"accounts", "list">>
  BY DEF Command, Ask
<1>3. ApiRoute[p] = p /\ AccessRoute[p] = p
  BY <1>1, <1>2 DEF ApiRoute, AccessRoute
<1>4. Target(r) = p  BY <1>3 DEF Target
<1>5. Command[cmd[r]].wants \subseteq Gives(p)
  BY DEF Command, Ask, Gives
<1> QED  BY <1>1, <1>4, <1>5

-----------------------------------------------------------------------------
(* Every step keeps it                                                     *)

Statuses == {"no", "waiting", "answered", "failed", "gone"}

Places == Pending \cup {"no", "done"}

LEMMA NoThreadType == NoThread \in Threads
<1>1. "api" \in Servers  BY DEF Servers
<1>2. PICK w \in Pool["api"] : TRUE  BY <1>1, PoolAssumption
<1>3. w \in Threads  BY <1>1, <1>2 DEF Threads
<1> QED  BY <1>3 DEF NoThread

\* The same command leads to the same server.
LEMMA SameServer ==
  ASSUME UNCHANGED cmd
  PROVE  \A q, m : Known(q)' = Known(q) /\ ServerAt(q, m)' = ServerAt(q, m)
BY DEF Known, ServerAt, Target

\* What was run and answered is unchanged, and nobody forgets having called.
LEMMA RanSame ==
  ASSUME RanAnswer, UNCHANGED <<cmd, ran, answer>>,
         \A q \in Requests : asked'[q][1] = "no" => asked[q][1] = "no"
  PROVE  RanAnswer'
<1> SUFFICES ASSUME NEW q \in Requests
             PROVE  /\ asked'[q][1] = "no" => answer[q] = NoAnswer
                    /\ answer[q] = NoAnswer => ran[q] = <<>>
                    /\ ran[q] \in {<<>>, <<Command[cmd[q]].path>>}
                    /\ answer[q] # NoAnswer /\ ~Known(q) => answer[q].status = 404
                    /\ answer[q].status = 200 =>
                         /\ ran[q] = <<Command[cmd[q]].path>>
                         /\ Command[cmd[q]].wants \subseteq answer[q].keys
  <2>1. \A q : Known(q)' = Known(q)  BY SameServer
  <2> QED  BY <2>1 DEF RanAnswer
<1> QED  BY DEF RanAnswer

\* The invariant as it is stated of a request on its way: served at a level
\* at all, it is known there or the level is the first.
LEMMA ServedServer ==
  ASSUME RelayTypeOK, Calls, NEW r \in Requests, NEW l \in Levels,
         served[r][l] # "no"
  PROVE  ServerAt(r, l) \in Servers /\ asked[r][l] # "no"
<1>1. asked[r][l] # "no"  BY DEF Calls, NotYet, Levels
<1>2. CASE l = 1  BY <1>1, <1>2 DEF ServerAt, Servers
<1>3. CASE l # 1
  <2>1. l \in {2, 3}  BY <1>3 DEF Levels
  <2>2. Known(r)  BY <1>1, <2>1 DEF Calls, KnownBelow
  <2> QED  BY <1>1, <2>2, ServersDiffer
<1> QED  BY <1>2, <1>3

\* Steps that set one entry of a variable.
LEMMA SetServed ==
  ASSUME served \in [Requests -> [Levels -> Places]],
         NEW a \in Requests, NEW b \in Levels, NEW x \in Places,
         served' = Set(served, a, b, x)
  PROVE  /\ served' \in [Requests -> [Levels -> Places]]
         /\ \A p \in Requests : \A q \in Levels :
              served'[p][q] = IF p = a /\ q = b THEN x ELSE served[p][q]
<1>1. served[a] \in [Levels -> Places]  OBVIOUS
<1> DEFINE g == [served[a] EXCEPT ![b] = x]
<1>2. g \in [Levels -> Places]  BY <1>1
<1>3. \A q \in Levels : g[q] = IF q = b THEN x ELSE served[a][q]  BY <1>1
<1>4. served' = [served EXCEPT ![a] = g]  BY DEF Set
<1> HIDE DEF g
<1>5. served' \in [Requests -> [Levels -> Places]]  BY <1>2, <1>4
<1>6. \A p \in Requests : served'[p] = IF p = a THEN g ELSE served[p]  BY <1>4
<1> QED  BY <1>3, <1>5, <1>6

LEMMA SetAsked ==
  ASSUME asked \in [Requests -> [Levels -> Statuses]],
         NEW a \in Requests, NEW b \in Levels, NEW x \in Statuses,
         asked' = Set(asked, a, b, x)
  PROVE  /\ asked' \in [Requests -> [Levels -> Statuses]]
         /\ \A p \in Requests : \A q \in Levels :
              asked'[p][q] = IF p = a /\ q = b THEN x ELSE asked[p][q]
<1>1. asked[a] \in [Levels -> Statuses]  OBVIOUS
<1> DEFINE g == [asked[a] EXCEPT ![b] = x]
<1>2. g \in [Levels -> Statuses]  BY <1>1
<1>3. \A q \in Levels : g[q] = IF q = b THEN x ELSE asked[a][q]  BY <1>1
<1>4. asked' = [asked EXCEPT ![a] = g]  BY DEF Set
<1> HIDE DEF g
<1>5. asked' \in [Requests -> [Levels -> Statuses]]  BY <1>2, <1>4
<1>6. \A p \in Requests : asked'[p] = IF p = a THEN g ELSE asked[p]  BY <1>4
<1> QED  BY <1>3, <1>5, <1>6

LEMMA SetConnection ==
  ASSUME at \in [Requests -> [Levels -> Threads]],
         NEW a \in Requests, NEW b \in Levels, NEW x \in Threads,
         at' = Set(at, a, b, x)
  PROVE  /\ at' \in [Requests -> [Levels -> Threads]]
         /\ \A p \in Requests : \A q \in Levels :
              at'[p][q] = IF p = a /\ q = b THEN x ELSE at[p][q]
<1>1. at[a] \in [Levels -> Threads]  OBVIOUS
<1> DEFINE g == [at[a] EXCEPT ![b] = x]
<1>2. g \in [Levels -> Threads]  BY <1>1
<1>3. \A q \in Levels : g[q] = IF q = b THEN x ELSE at[a][q]  BY <1>1
<1>4. at' = [at EXCEPT ![a] = g]  BY DEF Set
<1> HIDE DEF g
<1>5. at' \in [Requests -> [Levels -> Threads]]  BY <1>2, <1>4
<1>6. \A p \in Requests : at'[p] = IF p = a THEN g ELSE at[p]  BY <1>4
<1> QED  BY <1>3, <1>5, <1>6

LEMMA SetThread ==
  ASSUME thread \in [Servers -> [Threads -> (Requests \cup {Free})]],
         NEW a \in Servers, NEW b \in Threads, NEW x \in (Requests \cup {Free}),
         thread' = Set(thread, a, b, x)
  PROVE  /\ thread' \in [Servers -> [Threads -> (Requests \cup {Free})]]
         /\ \A p \in Servers : \A q \in Threads :
              thread'[p][q] = IF p = a /\ q = b THEN x ELSE thread[p][q]
<1>1. thread[a] \in [Threads -> (Requests \cup {Free})]  OBVIOUS
<1> DEFINE g == [thread[a] EXCEPT ![b] = x]
<1>2. g \in [Threads -> (Requests \cup {Free})]  BY <1>1
<1>3. \A q \in Threads : g[q] = IF q = b THEN x ELSE thread[a][q]  BY <1>1
<1>4. thread' = [thread EXCEPT ![a] = g]  BY DEF Set
<1> HIDE DEF g
<1>5. thread' \in [Servers -> [Threads -> (Requests \cup {Free})]]  BY <1>2, <1>4
<1>6. \A p \in Servers : thread'[p] = IF p = a THEN g ELSE thread[p]  BY <1>4
<1> QED  BY <1>3, <1>5, <1>6

LEMMA AcceptKeeps ==
  ASSUME RelayInv, NEW r \in Requests, NEW l \in Levels,
         Accept(r, l)
  PROVE  RelayInv'
<1> USE DEF RelayInv
<1>0. /\ served \in [Requests -> [Levels -> Places]]
      /\ served[r][l] = "connecting"
  BY DEF RelayTypeOK, Accept, Places
<1>1. /\ served' \in [Requests -> [Levels -> Places]]
      /\ \A q \in Requests : \A m \in Levels :
           served'[q][m] = IF q = r /\ m = l THEN "queued" ELSE served[q][m]
  <2>1. "queued" \in Places  BY DEF Places, Pending
  <2>2. served' = Set(served, r, l, "queued")  BY DEF Accept
  <2> HIDE DEF RelayInv
  <2> QED  BY <1>0, <2>1, <2>2, SetServed
<1>2. UNCHANGED <<cmd, asked, at, thread, answer, ran, up, stops>>
  BY DEF Accept
<1>3. RelayTypeOK'  BY <1>1, <1>2 DEF RelayTypeOK, Places
<1>4. Calls'
  <2>1. NotYet'  BY <1>0, <1>1, <1>2 DEF Calls, NotYet
  <2>2. AnsweredIsDone'  BY <1>0, <1>1, <1>2 DEF Calls, AnsweredIsDone
  <2>3. KnownBelow'  BY <1>2 DEF Calls, KnownBelow, Known
  <2> QED  BY <2>1, <2>2, <2>3 DEF Calls
<1>5. RanAnswer'  BY <1>2, RanSame
<1>6. ThreadsAccounted'
  BY <1>0, <1>1, <1>2, SameServer DEF ThreadsAccounted
<1>7. WaitersHoldThreads'
  BY <1>0, <1>1, <1>2 DEF WaitersHoldThreads, Levels
<1> QED  BY <1>3, <1>4, <1>5, <1>6, <1>7

LEMMA ReadKeeps ==
  ASSUME RelayInv, NEW r \in Requests, NEW l \in Levels, Read(r, l)
  PROVE  RelayInv'
<1> USE DEF RelayInv
<1> DEFINE s == ServerAt(r, l)
           w == at[r][l]
<1>0. /\ served \in [Requests -> [Levels -> Places]]
      /\ thread \in [Servers -> [Threads -> (Requests \cup {Free})]]
      /\ served[r][l] = "queued"
      /\ s \in Servers /\ w \in Threads
      /\ thread[s][w] = Free
  BY ServedServer DEF RelayTypeOK, Read, Places, Idle
<1>1. /\ served' \in [Requests -> [Levels -> Places]]
      /\ \A q \in Requests : \A m \in Levels :
           served'[q][m] = IF q = r /\ m = l THEN "handling" ELSE served[q][m]
  <2>1. "handling" \in Places  BY DEF Places, Pending
  <2>2. served' = Set(served, r, l, "handling")  BY DEF Read
  <2> HIDE DEF RelayInv
  <2> QED  BY <1>0, <2>1, <2>2, SetServed
<1>2. /\ thread' \in [Servers -> [Threads -> (Requests \cup {Free})]]
      /\ \A t \in Servers : \A v \in Threads :
           thread'[t][v] = IF t = s /\ v = w THEN r ELSE thread[t][v]
  <2>1. thread' = Set(thread, s, w, r)  BY DEF Read
  <2> HIDE DEF RelayInv, s, w
  <2> QED  BY <1>0, <2>1, SetThread
<1>3. UNCHANGED <<cmd, asked, at, answer, ran, up, stops>>
  BY DEF Read
<1>4. RelayTypeOK'  BY <1>1, <1>2, <1>3 DEF RelayTypeOK, Places
<1>5. Calls'
  <2>1. NotYet'  BY <1>0, <1>1, <1>3 DEF Calls, NotYet
  <2>2. AnsweredIsDone'  BY <1>0, <1>1, <1>3 DEF Calls, AnsweredIsDone
  <2>3. KnownBelow'  BY <1>3 DEF Calls, KnownBelow, Known
  <2> QED  BY <2>1, <2>2, <2>3 DEF Calls
<1>6. RanAnswer'  BY <1>3, RanSame
<1>7. ThreadsAccounted'
  <2> SUFFICES ASSUME NEW t \in Servers, NEW v \in Threads, NEW q \in Requests
               PROVE  thread'[t][v] = q <=>
                        \E m \in Levels :
                          /\ served'[q][m] = "handling"
                          /\ ServerAt(q, m) = t /\ at[q][m] = v
    BY <1>3, SameServer DEF ThreadsAccounted
  <2>1. thread[t][v] = q <=>
          \E m \in Levels : /\ served[q][m] = "handling"
                            /\ ServerAt(q, m) = t /\ at[q][m] = v
    BY DEF ThreadsAccounted
  <2>2. CASE q = r /\ t = s /\ v = w  BY <2>2, <1>1, <1>2
  <2>3. CASE q # r /\ t = s /\ v = w
    <3>1. thread[t][v] # q  BY <2>3, <1>0, RelayAssumption
    <3> QED  BY <2>1, <2>3, <3>1, <1>1, <1>2
  <2>4. CASE ~(t = s /\ v = w)
    <3>1. thread'[t][v] = thread[t][v]  BY <2>4, <1>2
    <3>2. \A m \in Levels : ServerAt(q, m) = t /\ at[q][m] = v =>
            served'[q][m] = served[q][m]
      BY <2>4, <1>1
    <3> HIDE DEF s, w
    <3> QED  BY <2>1, <3>1, <3>2
  <2> QED  BY <2>2, <2>3, <2>4
<1>8. WaitersHoldThreads'
  BY <1>0, <1>1, <1>3 DEF WaitersHoldThreads, Levels
<1> QED  BY <1>4, <1>5, <1>6, <1>7, <1>8

LEMMA DropKeeps ==
  ASSUME RelayInv, NEW r \in Requests, NEW l \in Levels, Drop(r, l)
  PROVE  RelayInv'
<1> USE DEF RelayInv
<1>0. /\ served \in [Requests -> [Levels -> Places]]
      /\ at \in [Requests -> [Levels -> Threads]]
      /\ served[r][l] = "queued"
      /\ asked[r][l] \notin {"no", "waiting"}
  BY ServedServer DEF RelayTypeOK, Drop, Places
<1>1. /\ served' \in [Requests -> [Levels -> Places]]
      /\ \A q \in Requests : \A m \in Levels :
           served'[q][m] = IF q = r /\ m = l THEN "done" ELSE served[q][m]
  <2>1. "done" \in Places  BY DEF Places
  <2>2. served' = Set(served, r, l, "done")  BY DEF Drop
  <2> HIDE DEF RelayInv
  <2> QED  BY <1>0, <2>1, <2>2, SetServed
<1>2. /\ at' \in [Requests -> [Levels -> Threads]]
      /\ \A q \in Requests : \A m \in Levels :
           at'[q][m] = IF q = r /\ m = l THEN NoThread ELSE at[q][m]
  <2>1. at' = Set(at, r, l, NoThread)  BY DEF Drop
  <2> HIDE DEF RelayInv
  <2> QED  BY <1>0, <2>1, NoThreadType, SetConnection
<1>3. UNCHANGED <<cmd, asked, thread, answer, ran, up, stops>>
  BY DEF Drop
<1>4. RelayTypeOK'  BY <1>1, <1>2, <1>3 DEF RelayTypeOK, Places
<1>5. Calls'
  <2>0. NotYet /\ AnsweredIsDone /\ KnownBelow  BY DEF Calls
  <2> HIDE DEF RelayInv
  <2>1. NotYet'
    <3> SUFFICES ASSUME NEW q \in Requests, NEW k \in Levels, asked[q][k] = "no",
                        NEW m \in Levels, k <= m
                 PROVE  asked[q][m] = "no" /\ served'[q][m] = "no"
      BY <1>3 DEF NotYet
    <3>1. asked[q][m] = "no" /\ served[q][m] = "no"  BY <2>0 DEF NotYet
    <3> QED  BY <3>1, <1>0, <1>1
  <2>2. AnsweredIsDone'  BY <2>0, <1>0, <1>1, <1>3 DEF AnsweredIsDone
  <2>3. KnownBelow'  BY <2>0, <1>3 DEF KnownBelow, Known
  <2> QED  BY <2>1, <2>2, <2>3 DEF Calls
<1>6. RanAnswer'  BY <1>3, RanSame
<1>7. ThreadsAccounted'
  <2>1. \A q \in Requests : \A m \in Levels :
          /\ served'[q][m] = "handling" <=> served[q][m] = "handling"
          /\ served[q][m] = "handling" => at'[q][m] = at[q][m]
    BY <1>0, <1>1, <1>2
  <2> QED  BY <1>3, <2>1, SameServer DEF ThreadsAccounted
<1>8. WaitersHoldThreads'
  BY <1>0, <1>1, <1>3 DEF WaitersHoldThreads, Levels
<1> QED  BY <1>4, <1>5, <1>6, <1>7, <1>8

LEMMA RefuseKeeps ==
  ASSUME RelayInv, NEW r \in Requests, NEW l \in Levels, Refuse(r, l)
  PROVE  RelayInv'
<1> USE DEF RelayInv
<1>0. /\ asked \in [Requests -> [Levels -> Statuses]]
      /\ asked[r][l] = "waiting"
  BY DEF RelayTypeOK, Refuse, Statuses
<1>1. /\ asked' \in [Requests -> [Levels -> Statuses]]
      /\ \A q \in Requests : \A m \in Levels :
           asked'[q][m] = IF q = r /\ m = l THEN "failed" ELSE asked[q][m]
  <2>1. "failed" \in Statuses  BY DEF Statuses
  <2>2. asked' = Set(asked, r, l, "failed")  BY DEF Refuse
  <2> HIDE DEF RelayInv
  <2> QED  BY <1>0, <2>1, <2>2, SetAsked
<1>2. UNCHANGED <<cmd, served, at, thread, answer, ran, up, stops>>
  BY DEF Refuse
<1>3. RelayTypeOK'  BY <1>1, <1>2 DEF RelayTypeOK, Statuses
<1>4. Calls'
  <2>1. NotYet'  BY <1>0, <1>1, <1>2 DEF Calls, NotYet
  <2>2. AnsweredIsDone'  BY <1>0, <1>1, <1>2 DEF Calls, AnsweredIsDone
  <2>3. KnownBelow'
    BY <1>0, <1>1, <1>2 DEF Calls, KnownBelow, Known, Levels
  <2> QED  BY <2>1, <2>2, <2>3 DEF Calls
<1>5. RanAnswer'
  <2>1. \A q \in Requests : asked'[q][1] = "no" => asked[q][1] = "no"
    BY <1>1 DEF Levels
  <2> QED  BY <1>2, <2>1, RanSame
<1>6. ThreadsAccounted'  BY <1>2, SameServer DEF ThreadsAccounted
<1>7. WaitersHoldThreads'
  BY <1>0, <1>1, <1>2 DEF WaitersHoldThreads, Levels
<1> QED  BY <1>3, <1>4, <1>5, <1>6, <1>7

LEMMA ExpireKeeps ==
  ASSUME RelayInv, NEW r \in Requests, NEW l \in Levels, Expire(r, l)
  PROVE  RelayInv'
<1> USE DEF RelayInv
<1>0. /\ asked \in [Requests -> [Levels -> Statuses]]
      /\ served \in [Requests -> [Levels -> Places]]
      /\ at \in [Requests -> [Levels -> Threads]]
      /\ asked[r][l] = "waiting" /\ served[r][l] # "no"
  BY DEF RelayTypeOK, Expire, Statuses, Places
<1>1. /\ asked' \in [Requests -> [Levels -> Statuses]]
      /\ \A q \in Requests : \A m \in Levels :
           asked'[q][m] = IF q = r /\ m = l THEN "failed" ELSE asked[q][m]
  <2>1. "failed" \in Statuses  BY DEF Statuses
  <2>2. asked' = Set(asked, r, l, "failed")  BY DEF Expire
  <2> HIDE DEF RelayInv
  <2> QED  BY <1>0, <2>1, <2>2, SetAsked
<1>2. /\ served' \in [Requests -> [Levels -> Places]]
      /\ at' \in [Requests -> [Levels -> Threads]]
      /\ \A q \in Requests : \A m \in Levels :
           \/ served'[q][m] = served[q][m] /\ at'[q][m] = at[q][m]
           \/ /\ q = r /\ m = l
              /\ served[q][m] = "connecting" /\ served'[q][m] = "done"
  <2>1. CASE served[r][l] = "connecting"
    <3>1. "done" \in Places  BY DEF Places
    <3>2. served' = Set(served, r, l, "done") /\ at' = Set(at, r, l, NoThread)
      BY <2>1 DEF Expire
    <3> HIDE DEF RelayInv
    <3>3. /\ served' \in [Requests -> [Levels -> Places]]
          /\ \A q \in Requests : \A m \in Levels :
               served'[q][m] = IF q = r /\ m = l THEN "done" ELSE served[q][m]
      BY <1>0, <3>1, <3>2, SetServed
    <3>4. /\ at' \in [Requests -> [Levels -> Threads]]
          /\ \A q \in Requests : \A m \in Levels :
               at'[q][m] = IF q = r /\ m = l THEN NoThread ELSE at[q][m]
      BY <1>0, <3>2, NoThreadType, SetConnection
    <3> QED  BY <2>1, <3>3, <3>4
  <2>2. CASE served[r][l] # "connecting"
    <3>1. served' = served /\ at' = at  BY <2>2 DEF Expire
    <3> QED  BY <1>0, <3>1
  <2> QED  BY <2>1, <2>2
<1>3. UNCHANGED <<cmd, thread, answer, ran, up, stops>>
  BY DEF Expire
<1>4. RelayTypeOK'  BY <1>1, <1>2, <1>3 DEF RelayTypeOK, Statuses, Places
<1>5. Calls'
  <2>0. \A q \in Requests : \A m \in Levels :
          /\ asked'[q][m] \in {"no", "answered"} => asked'[q][m] = asked[q][m]
          /\ asked[q][m] = "no" => asked'[q][m] = "no"
          /\ served[q][m] \in {"no", "done"} => served'[q][m] = served[q][m]
    BY <1>0, <1>1, <1>2
  <2>1. NotYet'  BY <2>0 DEF Calls, NotYet
  <2>2. AnsweredIsDone'  BY <2>0 DEF Calls, AnsweredIsDone
  <2>3. KnownBelow'
    BY <1>0, <1>1, <1>3 DEF Calls, KnownBelow, Known, Levels
  <2> QED  BY <2>1, <2>2, <2>3 DEF Calls
<1>6. RanAnswer'
  <2>1. \A q \in Requests : asked'[q][1] = "no" => asked[q][1] = "no"
    BY <1>1 DEF Levels
  <2> QED  BY <1>3, <2>1, RanSame
<1>7. ThreadsAccounted'
  <2>1. \A q \in Requests : \A m \in Levels :
          /\ served'[q][m] = "handling" <=> served[q][m] = "handling"
          /\ served[q][m] = "handling" => at'[q][m] = at[q][m]
    BY <1>2
  <2> QED  BY <1>3, <2>1, SameServer DEF ThreadsAccounted
<1>8. WaitersHoldThreads'
  BY <1>0, <1>1, <1>2 DEF WaitersHoldThreads, Levels
<1> QED  BY <1>4, <1>5, <1>6, <1>7, <1>8

LEMMA ReturnKeeps ==
  ASSUME RelayInv, NEW r \in Requests, NEW l \in Levels, Return(r, l)
  PROVE  RelayInv'
<1> USE DEF RelayInv
<1> DEFINE s == ServerAt(r, l)
           w == at[r][l]
<1>0. /\ asked \in [Requests -> [Levels -> Statuses]]
      /\ served \in [Requests -> [Levels -> Places]]
      /\ at \in [Requests -> [Levels -> Threads]]
      /\ thread \in [Servers -> [Threads -> (Requests \cup {Free})]]
      /\ served[r][l] = "handling" /\ asked[r][l] # "no"
      /\ s \in Servers /\ w \in Threads
      /\ thread[s][w] = r
  <2>1. served[r][l] = "handling"  BY DEF Return
  <2>2. thread[s][w] = r
    BY <2>1, ServedServer DEF ThreadsAccounted, RelayTypeOK
  <2> QED  BY <2>1, <2>2, ServedServer DEF RelayTypeOK, Statuses, Places
<1>1. /\ asked' \in [Requests -> [Levels -> Statuses]]
      /\ \A q \in Requests : \A m \in Levels :
           \/ asked'[q][m] = asked[q][m] /\ ~(q = r /\ m = l /\ asked[q][m] = "waiting")
           \/ /\ q = r /\ m = l
              /\ asked[q][m] = "waiting" /\ asked'[q][m] = "answered"
  <2>1. CASE asked[r][l] = "waiting"
    <3>1. "answered" \in Statuses  BY DEF Statuses
    <3>2. asked' = Set(asked, r, l, "answered")  BY <2>1 DEF Return
    <3> HIDE DEF RelayInv
    <3>3. /\ asked' \in [Requests -> [Levels -> Statuses]]
          /\ \A q \in Requests : \A m \in Levels :
               asked'[q][m] = IF q = r /\ m = l THEN "answered" ELSE asked[q][m]
      BY <1>0, <3>1, <3>2, SetAsked
    <3> QED  BY <2>1, <3>3
  <2>2. CASE asked[r][l] # "waiting"
    <3>1. asked' = asked  BY <2>2 DEF Return
    <3> QED  BY <1>0, <2>2, <3>1
  <2> QED  BY <2>1, <2>2
<1>2. /\ served' \in [Requests -> [Levels -> Places]]
      /\ \A q \in Requests : \A m \in Levels :
           served'[q][m] = IF q = r /\ m = l THEN "done" ELSE served[q][m]
  <2>1. "done" \in Places  BY DEF Places
  <2>2. served' = Set(served, r, l, "done")  BY DEF Return
  <2> HIDE DEF RelayInv
  <2> QED  BY <1>0, <2>1, <2>2, SetServed
<1>3. /\ at' \in [Requests -> [Levels -> Threads]]
      /\ \A q \in Requests : \A m \in Levels :
           at'[q][m] = IF q = r /\ m = l THEN NoThread ELSE at[q][m]
  <2>1. at' = Set(at, r, l, NoThread)  BY DEF Return
  <2> HIDE DEF RelayInv
  <2> QED  BY <1>0, <2>1, NoThreadType, SetConnection
<1>4. /\ thread' \in [Servers -> [Threads -> (Requests \cup {Free})]]
      /\ \A t \in Servers : \A v \in Threads :
           thread'[t][v] = IF t = s /\ v = w THEN Free ELSE thread[t][v]
  <2>1. thread' = Set(thread, s, w, Free)  BY DEF Return
  <2>2. Free \in (Requests \cup {Free})  OBVIOUS
  <2> HIDE DEF RelayInv, s, w
  <2> QED  BY <1>0, <2>1, <2>2, SetThread
<1>5. UNCHANGED <<cmd, answer, ran, up, stops>>  BY DEF Return
<1>6. RelayTypeOK'
  BY <1>1, <1>2, <1>3, <1>4, <1>5 DEF RelayTypeOK, Statuses, Places
<1>7. Calls'
  <2>0. \A q \in Requests : \A m \in Levels :
          /\ asked'[q][m] = "no" <=> asked[q][m] = "no"
          /\ asked[q][m] = "no" => served'[q][m] = served[q][m]
    BY <1>0, <1>1, <1>2
  <2>1. NotYet'  BY <2>0 DEF Calls, NotYet
  <2>2. AnsweredIsDone'  BY <1>0, <1>1, <1>2 DEF Calls, AnsweredIsDone
  <2>3. KnownBelow'
    BY <2>0, <1>5 DEF Calls, KnownBelow, Known, Levels
  <2> QED  BY <2>1, <2>2, <2>3 DEF Calls
<1>8. RanAnswer'
  <2>1. \A q \in Requests : asked'[q][1] = "no" => asked[q][1] = "no"
    BY <1>1 DEF Levels
  <2> QED  BY <1>5, <2>1, RanSame
<1>9. ThreadsAccounted'
  <2> SUFFICES ASSUME NEW t \in Servers, NEW v \in Threads, NEW q \in Requests
               PROVE  thread'[t][v] = q <=>
                        \E m \in Levels :
                          /\ served'[q][m] = "handling"
                          /\ ServerAt(q, m) = t /\ at'[q][m] = v
    BY <1>5, SameServer DEF ThreadsAccounted
  <2>1. thread[t][v] = q <=>
          \E m \in Levels : /\ served[q][m] = "handling"
                            /\ ServerAt(q, m) = t /\ at[q][m] = v
    BY DEF ThreadsAccounted
  <2>2. CASE t = s /\ v = w /\ q # r
    <3>1. thread[t][v] # q  BY <2>2, <1>0
    <3> QED  BY <2>1, <2>2, <3>1, <1>2, <1>3, <1>4, RelayAssumption
  <2>3. CASE t = s /\ v = w /\ q = r
    <3>1. thread'[t][v] # q  BY <2>3, <1>4, RelayAssumption
    <3>2. ASSUME NEW m \in Levels, served'[q][m] = "handling", ServerAt(q, m) = t
          PROVE  FALSE
      <4>1. m # l  BY <2>3, <3>2, <1>2
      <4>2. served[r][m] = "handling"  BY <2>3, <3>2, <1>2, <4>1
      <4>3. Known(r)
        <5>1. m \in {2, 3} \/ l \in {2, 3}  BY <4>1 DEF Levels
        <5>2. asked[r][m] # "no"  BY <4>2, ServedServer
        <5> QED  BY <5>1, <5>2, <1>0 DEF Calls, KnownBelow
      <4> QED  BY <2>3, <3>2, <4>1, <4>3, ServersDiffer
    <3> QED  BY <3>1, <3>2
  <2>4. CASE ~(t = s /\ v = w)
    <3>1. thread'[t][v] = thread[t][v]  BY <2>4, <1>4
    <3>2. \A m \in Levels :
            /\ served[q][m] = "handling" /\ ServerAt(q, m) = t /\ at[q][m] = v
            <=> /\ served'[q][m] = "handling"
                /\ ServerAt(q, m) = t /\ at'[q][m] = v
      BY <2>4, <1>2, <1>3
    <3> HIDE DEF s, w
    <3> QED  BY <2>1, <3>1, <3>2
  <2> QED  BY <2>2, <2>3, <2>4
<1>10. WaitersHoldThreads'
  <2> SUFFICES ASSUME NEW q \in Requests, NEW m \in {2, 3},
                      asked'[q][m] \in {"waiting", "failed"}
               PROVE  \/ served'[q][m - 1] = "handling"
                      \/ /\ asked'[q][m] = "failed"
                         /\ asked'[q][m - 1] \in {"failed", "gone"}
    BY DEF WaitersHoldThreads
  <2>1. m \in Levels /\ m - 1 \in Levels  BY DEF Levels
  <2>2. asked[q][m] \in {"waiting", "failed"}  BY <2>1, <1>1
  <2>3. \/ served[q][m - 1] = "handling"
        \/ /\ asked[q][m] = "failed"
           /\ asked[q][m - 1] \in {"failed", "gone"}
    BY <2>2 DEF WaitersHoldThreads
  <2>4. CASE asked[q][m] = "failed" /\ asked[q][m - 1] \in {"failed", "gone"}
    BY <2>1, <2>4, <1>1
  <2>5. CASE served[q][m - 1] = "handling"
    <3>1. CASE q = r /\ m - 1 = l
      <4>1. HasAnswer(r, l)  BY DEF Return
      <4>2. l # 3 /\ l + 1 = m  BY <3>1 DEF Levels
      <4>3. Known(r)  BY <2>2, <3>1 DEF Calls, KnownBelow
      <4>4. asked[r][m] = "answered"  BY <4>1, <4>2, <4>3 DEF HasAnswer
      <4> QED  BY <2>2, <3>1, <4>4
    <3>2. CASE ~(q = r /\ m - 1 = l)  BY <2>1, <2>5, <3>2, <1>2
    <3> QED  BY <3>1, <3>2
  <2> QED  BY <2>3, <2>4, <2>5
<1> QED  BY <1>6, <1>7, <1>8, <1>9, <1>10

\* What a call changes, of its caller and of its callee.
LEMMA CallIs ==
  ASSUME RelayTypeOK, NEW r \in Requests, NEW l \in Levels,
         NEW s \in Servers, Call(r, l, s)
  PROVE  /\ asked' \in [Requests -> [Levels -> Statuses]]
         /\ served' \in [Requests -> [Levels -> Places]]
         /\ at' \in [Requests -> [Levels -> Threads]]
         /\ \A q \in Requests : \A m \in Levels :
              /\ asked'[q][m] = IF q = r /\ m = l THEN "waiting" ELSE asked[q][m]
              /\ \/ served'[q][m] = served[q][m] /\ at'[q][m] = at[q][m]
                 \/ q = r /\ m = l /\ served'[q][m] = "connecting"
<1>0. /\ asked \in [Requests -> [Levels -> Statuses]]
      /\ served \in [Requests -> [Levels -> Places]]
      /\ at \in [Requests -> [Levels -> Threads]]
  BY DEF RelayTypeOK, Statuses, Places
<1>1. /\ asked' \in [Requests -> [Levels -> Statuses]]
      /\ \A q \in Requests : \A m \in Levels :
           asked'[q][m] = IF q = r /\ m = l THEN "waiting" ELSE asked[q][m]
  <2>1. "waiting" \in Statuses  BY DEF Statuses
  <2>2. asked' = Set(asked, r, l, "waiting")  BY DEF Call
  <2> QED  BY <1>0, <2>1, <2>2, SetAsked
<1>2. CASE up[s]
  <2>1. PICK w \in Pool[s] : at' = Set(at, r, l, w)  BY <1>2 DEF Call
  <2>2. w \in Threads  BY DEF Threads
  <2>3. /\ at' \in [Requests -> [Levels -> Threads]]
        /\ \A q \in Requests : \A m \in Levels :
             at'[q][m] = IF q = r /\ m = l THEN w ELSE at[q][m]
    BY <1>0, <2>1, <2>2, SetConnection
  <2>4. "connecting" \in Places  BY DEF Places, Pending
  <2>5. served' = Set(served, r, l, "connecting")  BY <1>2 DEF Call
  <2>6. /\ served' \in [Requests -> [Levels -> Places]]
        /\ \A q \in Requests : \A m \in Levels :
             served'[q][m] = IF q = r /\ m = l THEN "connecting" ELSE served[q][m]
    BY <1>0, <2>4, <2>5, SetServed
  <2> QED  BY <1>1, <2>3, <2>6
<1>3. CASE ~up[s]
  <2>1. served' = served /\ at' = at  BY <1>3 DEF Call
  <2> QED  BY <1>0, <1>1, <2>1
<1> QED  BY <1>2, <1>3

LEMMA SendKeeps ==
  ASSUME RelayInv, NEW r \in Requests, Send(r)
  PROVE  RelayInv'
<1> USE DEF RelayInv
<1>0. /\ \A m \in Levels : asked[r][m] = "no" /\ served[r][m] = "no"
      /\ answer[r] = NoAnswer /\ ran[r] = <<>>
  <2>1. asked[r][1] = "no"  BY DEF Send
  <2>2. 1 \in Levels /\ \A m \in Levels : 1 <= m  BY DEF Levels
  <2> QED  BY <2>1, <2>2 DEF Calls, NotYet, RanAnswer
<1>1. PICK c \in Wishes[r] : cmd' = [cmd EXCEPT ![r] = c]  BY DEF Send
<1>2. /\ cmd' \in [Requests -> DOMAIN Command]
      /\ \A q \in Requests : q # r => cmd'[q] = cmd[q]
  BY <1>1, WishesAssumption DEF RelayTypeOK
<1>3. /\ asked' \in [Requests -> [Levels -> Statuses]]
      /\ served' \in [Requests -> [Levels -> Places]]
      /\ at' \in [Requests -> [Levels -> Threads]]
      /\ \A q \in Requests : \A m \in Levels :
           /\ asked'[q][m] = IF q = r /\ m = 1 THEN "waiting" ELSE asked[q][m]
           /\ \/ served'[q][m] = served[q][m] /\ at'[q][m] = at[q][m]
              \/ q = r /\ m = 1 /\ served'[q][m] = "connecting"
  <2>1. 1 \in Levels /\ "api" \in Servers  BY DEF Levels, Servers
  <2>2. Call(r, 1, "api")  BY DEF Send
  <2> QED  BY <2>1, <2>2, CallIs
<1>4. UNCHANGED <<thread, answer, ran, up, stops>>  BY DEF Send
<1>5. RelayTypeOK'
  BY <1>2, <1>3, <1>4 DEF RelayTypeOK, Statuses, Places
<1>6. \A q \in Requests : q # r =>
        /\ Known(q)' = Known(q)
        /\ Command[cmd[q]]' = Command[cmd[q]]
        /\ \A m : ServerAt(q, m)' = ServerAt(q, m)
  BY <1>2 DEF Known, ServerAt, Target
<1>7. Calls'
  <2>0. NotYet /\ AnsweredIsDone /\ KnownBelow  BY DEF Calls
  <2> HIDE DEF RelayInv
  <2>1. NotYet'
    <3>1. \A m \in Levels : 1 <= m  BY DEF Levels
    <3>2. \A q \in Requests : \A m \in Levels :
            asked'[q][m] = "no" => asked[q][m] = "no" /\ ~(q = r /\ m = 1)
      BY <1>3
    <3>3. \A m \in Levels : m <= 1 => m = 1  BY DEF Levels
    <3> SUFFICES ASSUME NEW q \in Requests, NEW k \in Levels, NEW m \in Levels,
                        asked'[q][k] = "no", k <= m
                 PROVE  asked'[q][m] = "no" /\ served'[q][m] = "no"
      BY DEF NotYet
    <3>4. asked[q][m] = "no" /\ served[q][m] = "no"  BY <2>0, <3>2 DEF NotYet
    <3>5. ~(q = r /\ m = 1)  BY <3>2, <3>3
    <3> QED  BY <3>4, <3>5, <1>3
  <2>2. AnsweredIsDone'
    <3>1. \A q \in Requests : \A m \in Levels : asked'[q][m] = "answered" =>
            asked[q][m] = "answered" /\ ~(q = r)
      BY <1>0, <1>3
    <3> SUFFICES ASSUME NEW q \in Requests, NEW m \in Levels,
                        asked'[q][m] = "answered"
                 PROVE  served'[q][m] = "done"
      BY DEF AnsweredIsDone
    <3>2. asked[q][m] = "answered" /\ ~(q = r)  BY <3>1
    <3>3. served[q][m] = "done"  BY <3>2, <2>0 DEF AnsweredIsDone
    <3>4. served'[q][m] = served[q][m]  BY <3>2, <1>3
    <3> QED  BY <3>3, <3>4
  <2>3. KnownBelow'
    <3> SUFFICES ASSUME NEW q \in Requests, NEW m \in {2, 3},
                        asked'[q][m] # "no"
                 PROVE  Known(q)'
      BY DEF KnownBelow
    <3>1. m \in Levels /\ m # 1  BY DEF Levels
    <3>2. asked[q][m] # "no"  BY <3>1, <1>3
    <3>3. q # r  BY <3>1, <3>2, <1>0
    <3> QED  BY <2>0, <3>2, <3>3, <1>6 DEF KnownBelow
  <2> QED  BY <2>1, <2>2, <2>3 DEF Calls
<1>8. RanAnswer'
  <2> SUFFICES ASSUME NEW q \in Requests
               PROVE
    /\ asked'[q][1] = "no" => answer[q] = NoAnswer
    /\ answer[q] = NoAnswer => ran[q] = <<>>
    /\ ran[q] \in {<<>>, <<Command[cmd'[q]].path>>}
    /\ answer[q] # NoAnswer /\ ~Known(q)' => answer[q].status = 404
    /\ answer[q].status = 200 =>
         /\ ran[q] = <<Command[cmd'[q]].path>>
         /\ Command[cmd'[q]].wants \subseteq answer[q].keys
    BY <1>4 DEF RanAnswer
  <2>1. CASE q = r
    <3>1. answer[q].status # 200  BY <2>1, <1>0 DEF NoAnswer
    <3> QED  BY <2>1, <3>1, <1>0
  <2>2. CASE q # r
    <3>1. asked'[q][1] = asked[q][1]  BY <2>2, <1>3 DEF Levels
    <3>2. Known(q)' = Known(q)  BY <2>2, <1>6
    <3>3. cmd'[q] = cmd[q]  BY <2>2, <1>2
    <3> QED  BY <3>1, <3>2, <3>3 DEF RanAnswer
  <2> QED  BY <2>1, <2>2
<1>9. ThreadsAccounted'
  <2> SUFFICES ASSUME NEW t \in Servers, NEW v \in Threads, NEW q \in Requests
               PROVE  thread[t][v] = q <=>
                        \E m \in Levels :
                          /\ served'[q][m] = "handling"
                          /\ ServerAt(q, m)' = t /\ at'[q][m] = v
    BY <1>4 DEF ThreadsAccounted
  <2>1. thread[t][v] = q <=>
          \E m \in Levels : /\ served[q][m] = "handling"
                            /\ ServerAt(q, m) = t /\ at[q][m] = v
    BY DEF ThreadsAccounted
  <2>2. \A m \in Levels :
          /\ served'[q][m] = "handling" <=> served[q][m] = "handling"
          /\ served[q][m] = "handling" => at'[q][m] = at[q][m] /\ q # r
    BY <1>0, <1>3
  <2> QED  BY <2>1, <2>2, <1>6
<1>10. WaitersHoldThreads'
  <2> SUFFICES ASSUME NEW q \in Requests, NEW m \in {2, 3},
                      asked'[q][m] \in {"waiting", "failed"}
               PROVE  \/ served'[q][m - 1] = "handling"
                      \/ /\ asked'[q][m] = "failed"
                         /\ asked'[q][m - 1] \in {"failed", "gone"}
    BY DEF WaitersHoldThreads
  <2>1. m \in Levels /\ m - 1 \in Levels /\ m # 1  BY DEF Levels
  <2>2. asked[q][m] \in {"waiting", "failed"}  BY <2>1, <1>3
  <2>3. q # r  BY <2>1, <2>2, <1>0
  <2>4. \/ served[q][m - 1] = "handling"
        \/ /\ asked[q][m] = "failed"
           /\ asked[q][m - 1] \in {"failed", "gone"}
    BY <2>2 DEF WaitersHoldThreads
  <2> HIDE DEF RelayInv
  <2> QED  BY <2>1, <2>3, <2>4, <1>3
<1> QED  BY <1>5, <1>7, <1>8, <1>9, <1>10

LEMMA ForwardKeeps ==
  ASSUME RelayInv, NEW r \in Requests, NEW l \in Levels, Forward(r, l)
  PROVE  RelayInv'
<1> USE DEF RelayInv
<1> DEFINE n == l + 1
<1>0. /\ n \in Levels /\ n \in {2, 3} /\ l \in {1, 2}
      /\ served[r][l] = "handling" /\ asked[r][n] = "no" /\ Known(r)
  BY DEF Forward, Levels
<1>1. served[r][n] = "no"  BY <1>0 DEF Calls, NotYet, Levels
<1>2. /\ asked' \in [Requests -> [Levels -> Statuses]]
      /\ served' \in [Requests -> [Levels -> Places]]
      /\ at' \in [Requests -> [Levels -> Threads]]
      /\ \A q \in Requests : \A m \in Levels :
           /\ asked'[q][m] = IF q = r /\ m = n THEN "waiting" ELSE asked[q][m]
           /\ \/ served'[q][m] = served[q][m] /\ at'[q][m] = at[q][m]
              \/ q = r /\ m = n /\ served'[q][m] = "connecting"
  <2>1. ServerAt(r, n) \in Servers  BY <1>0, ServersDiffer
  <2>2. Call(r, n, ServerAt(r, n))  BY DEF Forward
  <2> HIDE DEF RelayInv, n
  <2> QED  BY <1>0, <2>1, <2>2, CallIs DEF RelayInv
<1>3. UNCHANGED <<cmd, thread, answer, ran, up, stops>>  BY DEF Forward
<1> HIDE DEF n
<1>4. RelayTypeOK'  BY <1>2, <1>3 DEF RelayTypeOK, Statuses, Places
<1>5. Calls'
  <2>1. NotYet'
    <3> SUFFICES ASSUME NEW q \in Requests, NEW k \in Levels, NEW m \in Levels,
                        asked'[q][k] = "no", k <= m
                 PROVE  asked'[q][m] = "no" /\ served'[q][m] = "no"
      BY DEF NotYet
    <3>1. asked[q][k] = "no"  BY <1>2
    <3>2. asked[q][m] = "no" /\ served[q][m] = "no"
      BY <3>1 DEF Calls, NotYet
    <3>3. CASE q = r /\ m = n
      <4>1. k # n  BY <3>3, <1>2
      <4>2. k <= l  BY <3>3, <4>1 DEF n, Levels
      <4>3. served[r][l] = "no"  BY <3>1, <3>3, <4>2 DEF Calls, NotYet
      <4> QED  BY <4>3, <1>0
    <3>4. CASE ~(q = r /\ m = n)  BY <3>2, <3>4, <1>2
    <3> QED  BY <3>3, <3>4
  <2>2. AnsweredIsDone'
    <3>1. \A q \in Requests : \A m \in Levels : asked'[q][m] = "answered" =>
            asked[q][m] = "answered" /\ ~(q = r /\ m = n)
      BY <1>2
    <3>2. AnsweredIsDone  BY DEF Calls
    <3> HIDE DEF RelayInv
    <3> SUFFICES ASSUME NEW q \in Requests, NEW m \in Levels,
                        asked'[q][m] = "answered"
                 PROVE  served'[q][m] = "done"
      BY DEF AnsweredIsDone
    <3>3. asked[q][m] = "answered" /\ ~(q = r /\ m = n)  BY <3>1
    <3>4. served[q][m] = "done"  BY <3>3, <3>2 DEF AnsweredIsDone
    <3>5. served'[q][m] = served[q][m]  BY <3>3, <1>2
    <3> QED  BY <3>4, <3>5
  <2>3. KnownBelow'
    <3>1. KnownBelow /\ \A q : Known(q)' = Known(q)
      BY <1>3, SameServer DEF Calls
    <3>2. \A q \in Requests : \A m \in {2, 3} : asked'[q][m] # "no" =>
            q = r \/ asked[q][m] # "no"
      BY <1>2 DEF Levels
    <3>3. Known(r)  BY <1>0
    <3> HIDE DEF RelayInv
    <3> QED  BY <3>1, <3>2, <3>3 DEF KnownBelow
  <2> QED  BY <2>1, <2>2, <2>3 DEF Calls
<1>6. RanAnswer'
  <2>1. \A q \in Requests : asked'[q][1] = "no" => asked[q][1] = "no"
    BY <1>2 DEF Levels
  <2> QED  BY <1>3, <2>1, RanSame
<1>7. ThreadsAccounted'
  <2>1. \A q \in Requests : \A m \in Levels :
          /\ served'[q][m] = "handling" <=> served[q][m] = "handling"
          /\ served[q][m] = "handling" => at'[q][m] = at[q][m]
    BY <1>1, <1>2
  <2> QED  BY <1>3, <2>1, SameServer DEF ThreadsAccounted
<1>8. WaitersHoldThreads'
  <2> SUFFICES ASSUME NEW q \in Requests, NEW m \in {2, 3},
                      asked'[q][m] \in {"waiting", "failed"}
               PROVE  \/ served'[q][m - 1] = "handling"
                      \/ /\ asked'[q][m] = "failed"
                         /\ asked'[q][m - 1] \in {"failed", "gone"}
    BY DEF WaitersHoldThreads
  <2>1. m \in Levels /\ m - 1 \in Levels  BY DEF Levels
  <2>2. CASE q = r /\ m = n
    <3>1. m - 1 = l /\ l # n  BY <2>2, <1>0 DEF n
    <3> QED  BY <2>2, <3>1, <1>0, <1>2
  <2>3. CASE ~(q = r /\ m = n)
    <3>1. asked[q][m] \in {"waiting", "failed"}  BY <2>1, <2>3, <1>2
    <3>2. ~(q = r /\ m - 1 = n)
      <4>1. CASE q = r /\ m - 1 = n
        <5>1. n <= m  BY <4>1, <1>0
        <5>2. asked[r][m] = "no"  BY <2>1, <5>1, <1>0 DEF Calls, NotYet
        <5> QED  BY <4>1, <5>2, <3>1
      <4> QED  BY <4>1
    <3>3. \/ served[q][m - 1] = "handling"
          \/ /\ asked[q][m] = "failed"
             /\ asked[q][m - 1] \in {"failed", "gone"}
      BY <3>1 DEF WaitersHoldThreads
    <3>4. served[q][m - 1] = "handling" => served'[q][m - 1] = "handling"
      BY <2>1, <1>1, <1>2
    <3> HIDE DEF RelayInv
    <3>5. asked'[q][m] = asked[q][m]  BY <2>1, <2>3, <1>2
    <3>6. asked'[q][m - 1] = asked[q][m - 1]  BY <2>1, <3>2, <1>2
    <3> QED  BY <3>3, <3>4, <3>5, <3>6
  <2> QED  BY <2>2, <2>3
<1> QED  BY <1>4, <1>5, <1>6, <1>7, <1>8

LEMMA AnswersAre ==
  /\ NoAnswer \in Answers /\ Answer(404, {}) \in Answers
  /\ Answer(400, {}) \in Answers /\ Answer(500, {}) \in Answers
  /\ \A p \in Paths : Answer(200, Gives(p)) \in Answers
  /\ \A n, k : /\ Answer(n, k).status = n /\ Answer(n, k).keys = k
               /\ n # 0 => Answer(n, k) # NoAnswer
  /\ NoAnswer.status = 0
BY DEF Answers, Answer, NoAnswer

\* A step that only gives an answer, to a handler that had none.
Gave(r, x) ==
  /\ answer[r] = NoAnswer /\ x # NoAnswer /\ asked[r][1] # "no"
  /\ answer' = [answer EXCEPT ![r] = x]
  /\ ran' \in [Requests -> Seq(Paths)]
  /\ \A q \in Requests : q # r => ran'[q] = ran[q]
  /\ ran'[r] \in {<<>>, <<Command[cmd[r]].path>>}
  /\ ~Known(r) => x.status = 404
  /\ x.status = 200 => /\ ran'[r] = <<Command[cmd[r]].path>>
                       /\ Command[cmd[r]].wants \subseteq x.keys
  /\ cmd' = cmd /\ asked' = asked /\ served' = served /\ at' = at
  /\ thread' = thread /\ up' = up /\ stops' = stops

LEMMA AnswerKeeps ==
  ASSUME RelayInv, NEW r \in Requests, NEW x \in Answers, Gave(r, x)
  PROVE  RelayInv'
<1> USE DEF RelayInv, Gave
<1>1. /\ answer' \in [Requests -> Answers]
      /\ \A q \in Requests : answer'[q] = IF q = r THEN x ELSE answer[q]
  BY DEF RelayTypeOK
<1>2. RelayTypeOK'  BY <1>1 DEF RelayTypeOK
<1>3. Calls'
  <2>1. NotYet'  BY DEF Calls, NotYet
  <2>2. AnsweredIsDone'  BY DEF Calls, AnsweredIsDone
  <2>3. KnownBelow'  BY DEF Calls, KnownBelow, Known
  <2> QED  BY <2>1, <2>2, <2>3 DEF Calls
<1>4. RanAnswer'
  <2> SUFFICES ASSUME NEW q \in Requests
               PROVE
    /\ asked[q][1] = "no" => answer'[q] = NoAnswer
    /\ answer'[q] = NoAnswer => ran'[q] = <<>>
    /\ ran'[q] \in {<<>>, <<Command[cmd[q]].path>>}
    /\ answer'[q] # NoAnswer /\ ~Known(q) => answer'[q].status = 404
    /\ answer'[q].status = 200 =>
         /\ ran'[q] = <<Command[cmd[q]].path>>
         /\ Command[cmd[q]].wants \subseteq answer'[q].keys
    BY DEF RanAnswer, Known
  <2>1. CASE q = r  BY <2>1, <1>1
  <2>2. CASE q # r  BY <2>2, <1>1 DEF RanAnswer
  <2> QED  BY <2>1, <2>2
<1>5. ThreadsAccounted'  BY SameServer DEF ThreadsAccounted
<1>6. WaitersHoldThreads'  BY DEF WaitersHoldThreads
<1> QED  BY <1>2, <1>3, <1>4, <1>5, <1>6

LEMMA RejectKeeps ==
  ASSUME RelayInv, NEW r \in Requests, Reject(r)
  PROVE  RelayInv'
<1>1. asked[r][1] # "no"
  <2>1. 1 \in Levels /\ served[r][1] # "no"  BY DEF Levels, Reject
  <2> QED  BY <2>1, ServedServer DEF RelayInv
<1>2. ran' = ran /\ UNCHANGED <<cmd, asked, served, at, thread, up, stops>>
  BY DEF Reject
<1>3. ran' \in [Requests -> Seq(Paths)]  BY <1>2 DEF RelayInv, RelayTypeOK
<1>4. ran'[r] \in {<<>>, <<Command[cmd[r]].path>>}
  BY <1>2 DEF RelayInv, RanAnswer
<1>5. /\ answer[r] = NoAnswer
      /\ answer' = [answer EXCEPT ![r] = Answer(404, {})]
  BY DEF Reject
<1>6. Answer(404, {}) \in Answers /\ Answer(404, {}) # NoAnswer
  BY AnswersAre
<1>7. Answer(404, {}).status = 404  BY AnswersAre
<1> DEFINE x == Answer(404, {})
<1> HIDE DEF x
<1>8. x.status # 200 /\ x.status = 404  BY <1>7 DEF x
<1>9. x \in Answers /\ x # NoAnswer /\ answer' = [answer EXCEPT ![r] = x]
  BY <1>5, <1>6 DEF x
<1>10. Gave(r, x)
  BY <1>1, <1>2, <1>3, <1>4, <1>5, <1>8, <1>9 DEF Gave
<1> QED  BY <1>9, <1>10, AnswerKeeps

LEMMA ExecuteKeeps ==
  ASSUME RelayInv, NEW r \in Requests, Execute(r)
  PROVE  RelayInv'
<1> DEFINE p == Command[cmd[r]].path
<1>1. /\ asked[r][1] # "no" /\ Known(r) /\ answer[r] = NoAnswer
      /\ UNCHANGED <<cmd, asked, served, at, thread, up, stops>>
  <2>1. 3 \in Levels /\ 1 \in Levels /\ served[r][3] # "no"
    BY DEF Levels, Execute
  <2>2. asked[r][3] # "no"  BY <2>1, ServedServer DEF RelayInv
  <2>3. asked[r][1] # "no"
    BY <2>1, <2>2 DEF RelayInv, Calls, NotYet
  <2>4. Known(r)  BY <2>2 DEF RelayInv, Calls, KnownBelow
  <2> QED  BY <2>3, <2>4 DEF Execute
<1>2. ran \in [Requests -> Seq(Paths)] /\ ran[r] = <<>>
  BY <1>1 DEF RelayInv, RelayTypeOK, RanAnswer
<1>3. /\ Target(r) = p /\ Command[cmd[r]].wants \subseteq Gives(Target(r))
      /\ Target(r) \in Paths
  <2>1. cmd[r] \in DOMAIN Command  BY DEF RelayInv, RelayTypeOK
  <2> QED  BY <1>1, <2>1, Routed
<1> DEFINE Given(x) ==
             /\ x # NoAnswer
             /\ answer' = [answer EXCEPT ![r] = x]
             /\ \/ /\ ran' = [ran EXCEPT ![r] = Append(@, Target(r))]
                   /\ x.status = 200 => x.keys = Gives(Target(r))
                \/ ran' = ran /\ x.status # 200
<1>4. PICK x \in Answers : Given(x)
  <2>1. CASE Needs(Target(r)) \subseteq Command[cmd[r]].params
    <3>1. /\ ran' = [ran EXCEPT ![r] = Append(@, Target(r))]
          /\ \/ answer' = [answer EXCEPT ![r] = Answer(200, Gives(Target(r)))]
             \/ answer' = [answer EXCEPT ![r] = Answer(500, {})]
      BY <2>1 DEF Execute
    <3>2. /\ Answer(200, Gives(Target(r))) \in Answers
          /\ Answer(200, Gives(Target(r))) # NoAnswer
          /\ Answer(200, Gives(Target(r))).keys = Gives(Target(r))
      BY <1>3, AnswersAre
    <3>3. /\ Answer(500, {}) \in Answers /\ Answer(500, {}) # NoAnswer
          /\ Answer(500, {}).status # 200
      BY AnswersAre
    <3> QED  BY <3>1, <3>2, <3>3
  <2>2. CASE ~(Needs(Target(r)) \subseteq Command[cmd[r]].params)
    <3>1. ran' = ran /\ answer' = [answer EXCEPT ![r] = Answer(400, {})]
      BY <2>2 DEF Execute
    <3> DEFINE a == Answer(400, {})
    <3>2. a \in Answers /\ a # NoAnswer /\ a.status = 400
      BY AnswersAre
    <3>3. ran' = ran /\ answer' = [answer EXCEPT ![r] = a]  BY <3>1
    <3> HIDE DEF a
    <3>4. a.status # 200  BY <3>2
    <3>5. Given(a)  BY <3>2, <3>3, <3>4
    <3> HIDE DEF Given
    <3> QED  BY <3>2, <3>5
  <2> QED  BY <2>1, <2>2
<1>5. /\ ran' \in [Requests -> Seq(Paths)]
      /\ \A q \in Requests : q # r => ran'[q] = ran[q]
      /\ ran'[r] \in {<<>>, <<p>>}
      /\ x.status = 200 => ran'[r] = <<p>>
  <2>1. CASE ran' = ran /\ x.status # 200  BY <1>2, <2>1
  <2>2. CASE ran' = [ran EXCEPT ![r] = Append(@, Target(r))]
    <3> DEFINE t == Append(ran[r], Target(r))
    <3>1. t \in Seq(Paths) /\ t = <<p>>
      <4>1. t = Append(<<>>, p)  BY <1>2, <1>3
      <4>2. Append(<<>>, p) = <<p>>  OBVIOUS
      <4>3. p \in Paths  BY <1>3
      <4> QED  BY <4>1, <4>2, <4>3
    <3>2. ran' = [ran EXCEPT ![r] = t]  BY <2>2
    <3> HIDE DEF t
    <3>3. ran' \in [Requests -> Seq(Paths)]  BY <1>2, <3>1, <3>2
    <3>4. \A q \in Requests : ran'[q] = IF q = r THEN t ELSE ran[q]
      BY <1>2, <3>2
    <3> QED  BY <3>1, <3>3, <3>4
  <2> QED  BY <1>4, <2>1, <2>2
<1>6. x.status = 200 => Command[cmd[r]].wants \subseteq x.keys
  BY <1>3, <1>4
<1>7. /\ answer' = [answer EXCEPT ![r] = x] /\ x # NoAnswer
      /\ ~Known(r) => x.status = 404
  BY <1>1, <1>4
<1>8. Gave(r, x)  BY <1>1, <1>5, <1>6, <1>7 DEF Gave
<1> QED  BY <1>8, AnswerKeeps

LEMMA StopKeeps ==
  ASSUME RelayInv, NEW s \in Servers, Stop(s)
  PROVE  RelayInv'
<1> USE DEF RelayInv
<1> DEFINE here(q, m) == served[q][m] \in Pending /\ ServerAt(q, m) = s
           orphan(q, m) == m > 1 /\ here(q, m - 1) /\ asked[q][m] = "waiting"
<1>0. /\ stops' = stops + 1 /\ stops < MaxStops
      /\ up' = [up EXCEPT ![s] = FALSE]
      /\ thread' = [thread EXCEPT ![s] = [w \in Threads |-> Free]]
      /\ UNCHANGED <<cmd, answer, ran>>
  BY DEF Stop
<1>1. /\ asked' \in [Requests -> [Levels -> Statuses]]
      /\ \A q \in Requests : \A m \in Levels :
           asked'[q][m] = IF orphan(q, m) THEN "gone"
                          ELSE IF here(q, m) /\ asked[q][m] = "waiting"
                               THEN "failed" ELSE asked[q][m]
  <2>1. asked' = [q \in Requests |-> [m \in Levels |->
                   IF orphan(q, m) THEN "gone"
                   ELSE IF here(q, m) /\ asked[q][m] = "waiting" THEN "failed"
                   ELSE asked[q][m]]]
    BY DEF Stop
  <2>2. \A q \in Requests : \A m \in Levels : asked[q][m] \in Statuses
    BY DEF RelayTypeOK, Statuses
  <2>3. "gone" \in Statuses /\ "failed" \in Statuses  BY DEF Statuses
  <2> HIDE DEF orphan, here, RelayInv
  <2> QED  BY <2>1, <2>2, <2>3
<1>2. /\ served' \in [Requests -> [Levels -> Places]]
      /\ \A q \in Requests : \A m \in Levels :
           served'[q][m] =
             IF \/ here(q, m)
                \/ orphan(q, m) /\ served[q][m] \in {"no", "connecting"}
             THEN "done" ELSE served[q][m]
  <2>1. served' = [q \in Requests |-> [m \in Levels |->
             IF \/ here(q, m)
                \/ orphan(q, m) /\ served[q][m] \in {"no", "connecting"}
             THEN "done" ELSE served[q][m]]]
    BY DEF Stop
  <2>2. \A q \in Requests : \A m \in Levels : served[q][m] \in Places
    BY DEF RelayTypeOK, Places
  <2>3. "done" \in Places  BY DEF Places
  <2> HIDE DEF orphan, here, RelayInv
  <2> QED  BY <2>1, <2>2, <2>3
<1>3. /\ at' \in [Requests -> [Levels -> Threads]]
      /\ \A q \in Requests : \A m \in Levels :
           served'[q][m] # "done" => at'[q][m] = at[q][m]
  <2>1. at' = [q \in Requests |-> [m \in Levels |->
                 IF served'[q][m] = "done" THEN NoThread ELSE at[q][m]]]
    BY DEF Stop
  <2>2. \A q \in Requests : \A m \in Levels : at[q][m] \in Threads
    BY DEF RelayTypeOK
  <2> HIDE DEF orphan, here, RelayInv
  <2> QED  BY <2>1, <2>2, NoThreadType
<1>4. /\ thread' \in [Servers -> [Threads -> (Requests \cup {Free})]]
      /\ \A t \in Servers : \A v \in Threads :
           thread'[t][v] = IF t = s THEN Free ELSE thread[t][v]
  <2> DEFINE g == [w \in Threads |-> Free]
  <2>1. /\ g \in [Threads -> (Requests \cup {Free})]
        /\ \A v \in Threads : g[v] = Free
    OBVIOUS
  <2>2. thread' = [thread EXCEPT ![s] = g]  BY <1>0
  <2>3. thread \in [Servers -> [Threads -> (Requests \cup {Free})]]
    BY DEF RelayTypeOK
  <2> HIDE DEF g, orphan, here, RelayInv
  <2>4. \A t \in Servers : thread'[t] = IF t = s THEN g ELSE thread[t]
    BY <2>2, <2>3
  <2>5. thread' \in [Servers -> [Threads -> (Requests \cup {Free})]]
    BY <2>1, <2>2, <2>3
  <2> QED  BY <2>1, <2>4, <2>5
<1>5. RelayTypeOK'
  <2>1. stops' \in 0 .. MaxStops /\ up' \in [Servers -> BOOLEAN]
    BY <1>0, RelayAssumption DEF RelayTypeOK
  <2> HIDE DEF orphan, here
  <2> QED
    BY <2>1, <1>0, <1>1, <1>2, <1>3, <1>4 DEF RelayTypeOK, Statuses, Places
\* What the step leaves of each call.
<1>6. \A q \in Requests : \A m \in Levels :
        /\ asked'[q][m] = "no" <=> asked[q][m] = "no"
        /\ asked'[q][m] = "answered" <=> asked[q][m] = "answered"
        /\ served[q][m] = "done" => served'[q][m] = "done"
        /\ asked[q][m] = "no" /\ served[q][m] = "no" => served'[q][m] = "no"
        /\ asked[q][m] \in {"failed", "gone"} => asked'[q][m] = asked[q][m]
        /\ served'[q][m] = "handling" <=>
             served[q][m] = "handling" /\ ServerAt(q, m) # s
  BY <1>1, <1>2 DEF Pending
<1>7. Calls'
  <2>1. NotYet'  BY <1>6 DEF Calls, NotYet
  <2>2. AnsweredIsDone'  BY <1>6 DEF Calls, AnsweredIsDone
  <2>3. KnownBelow'  BY <1>0, <1>6 DEF Calls, KnownBelow, Known, Levels
  <2> QED  BY <2>1, <2>2, <2>3 DEF Calls
<1>8. RanAnswer'
  <2>1. \A q \in Requests : asked'[q][1] = "no" => asked[q][1] = "no"
    BY <1>6 DEF Levels
  <2> QED  BY <1>0, <2>1, RanSame
<1>9. ThreadsAccounted'
  <2> SUFFICES ASSUME NEW t \in Servers, NEW v \in Threads, NEW q \in Requests
               PROVE  thread'[t][v] = q <=>
                        \E m \in Levels :
                          /\ served'[q][m] = "handling"
                          /\ ServerAt(q, m) = t /\ at'[q][m] = v
    BY <1>0, SameServer DEF ThreadsAccounted
  <2>1. thread[t][v] = q <=>
          \E m \in Levels : /\ served[q][m] = "handling"
                            /\ ServerAt(q, m) = t /\ at[q][m] = v
    BY DEF ThreadsAccounted
  <2> HIDE DEF here, orphan, RelayInv
  <2>2. \A m \in Levels : served'[q][m] = "handling" => at'[q][m] = at[q][m]
    BY <1>3
  <2>3. CASE t = s  BY <2>3, <1>4, <1>6, RelayAssumption
  <2>4. CASE t # s  BY <2>1, <2>2, <2>4, <1>4, <1>6
  <2> QED  BY <2>3, <2>4
<1>10. WaitersHoldThreads'
  <2> SUFFICES ASSUME NEW q \in Requests, NEW m \in {2, 3},
                      asked'[q][m] \in {"waiting", "failed"}
               PROVE  \/ served'[q][m - 1] = "handling"
                      \/ /\ asked'[q][m] = "failed"
                         /\ asked'[q][m - 1] \in {"failed", "gone"}
    BY DEF WaitersHoldThreads
  <2>1. m \in Levels /\ m - 1 \in Levels /\ m > 1  BY DEF Levels
  <2>2. asked[q][m] \in {"waiting", "failed"}  BY <2>1, <1>1
  <2>3. \/ served[q][m - 1] = "handling"
        \/ /\ asked[q][m] = "failed"
           /\ asked[q][m - 1] \in {"failed", "gone"}
    BY <2>2 DEF WaitersHoldThreads
  <2>4. CASE asked[q][m] = "failed" /\ asked[q][m - 1] \in {"failed", "gone"}
    BY <2>1, <2>4, <1>6
  <2>5. CASE served[q][m - 1] = "handling" /\ ServerAt(q, m - 1) # s
    BY <2>1, <2>5, <1>6
  <2>6. CASE served[q][m - 1] = "handling" /\ ServerAt(q, m - 1) = s
    <3>1. asked[q][m - 1] # "no"  BY <2>1, <2>6, ServedServer
    <3>2. asked[q][m - 1] # "answered"
      BY <2>1, <2>6 DEF Calls, AnsweredIsDone
    <3>3. here(q, m - 1)  BY <2>6 DEF Pending
    <3>4. asked[q][m - 1] \in Statuses  BY <2>1 DEF RelayTypeOK, Statuses
    <3> HIDE DEF here, orphan, RelayInv
    <3>5. asked'[q][m - 1] \in {"failed", "gone"}
      BY <2>1, <3>1, <3>2, <3>3, <3>4, <1>1 DEF Statuses
    <3>6. asked[q][m] # "waiting"
      <4>1. asked[q][m] = "waiting" => orphan(q, m)
        BY <2>1, <3>3 DEF orphan
      <4>2. orphan(q, m) => asked'[q][m] = "gone"  BY <2>1, <1>1
      <4> QED  BY <4>1, <4>2
    <3>7. asked'[q][m] = "failed"  BY <2>1, <2>2, <3>6, <1>6
    <3> QED  BY <3>5, <3>7
  <2> QED  BY <2>3, <2>4, <2>5, <2>6
<1> QED  BY <1>5, <1>7, <1>8, <1>9, <1>10

LEMMA StartKeeps ==
  ASSUME RelayInv, NEW s \in Servers, Start(s)
  PROVE  RelayInv'
<1> USE DEF RelayInv
<1>1. UNCHANGED <<cmd, asked, served, at, thread, answer, ran, stops>>
  BY DEF Start
<1>2. up' \in [Servers -> BOOLEAN]  BY DEF Start, RelayTypeOK
<1>3. RelayTypeOK'  BY <1>1, <1>2 DEF RelayTypeOK
<1>4. Calls'
  BY <1>1, SameServer DEF Calls, NotYet, AnsweredIsDone, KnownBelow
<1>5. RanAnswer'  BY <1>1, RanSame
<1>6. ThreadsAccounted'  BY <1>1, SameServer DEF ThreadsAccounted
<1>7. WaitersHoldThreads'  BY <1>1 DEF WaitersHoldThreads
<1> QED  BY <1>3, <1>4, <1>5, <1>6, <1>7

LEMMA StutterKeeps ==
  ASSUME RelayInv, UNCHANGED vars
  PROVE  RelayInv'
<1> USE DEF RelayInv, vars
<1>1. RelayTypeOK'  BY DEF RelayTypeOK
<1>2. Calls'
  BY SameServer DEF Calls, NotYet, AnsweredIsDone, KnownBelow
<1>3. RanAnswer'  BY RanSame
<1>4. ThreadsAccounted'  BY SameServer DEF ThreadsAccounted
<1>5. WaitersHoldThreads'  BY DEF WaitersHoldThreads
<1> QED  BY <1>1, <1>2, <1>3, <1>4, <1>5

LEMMA InitHolds == Init => RelayInv
<1> SUFFICES ASSUME Init PROVE RelayInv  OBVIOUS
<1> USE DEF Init
<1>1. cmd \in [Requests -> DOMAIN Command]
  <2>1. \A r \in Requests : (CHOOSE c \in Wishes[r] : TRUE) \in DOMAIN Command
    BY WishesAssumption
  <2> QED  BY <2>1
<1>2. /\ \A r \in Requests : \A l \in Levels :
           asked[r][l] = "no" /\ served[r][l] = "no"
      /\ \A r \in Requests : answer[r] = NoAnswer /\ ran[r] = <<>>
      /\ \A t \in Servers : \A w \in Threads : thread[t][w] = Free
  OBVIOUS
<1>3. RelayTypeOK
  <2>1. /\ asked \in [Requests -> [Levels -> Statuses]]
        /\ served \in [Requests -> [Levels -> Places]]
    BY DEF Statuses, Places
  <2>2. at \in [Requests -> [Levels -> Threads]]  BY NoThreadType
  <2>3. thread \in [Servers -> [Threads -> Requests \cup {Free}]]  OBVIOUS
  <2>4. answer \in [Requests -> Answers]  BY AnswersAre
  <2>5. ran \in [Requests -> Seq(Paths)]  OBVIOUS
  <2>6. up \in [Servers -> BOOLEAN] /\ stops \in 0 .. MaxStops
    BY RelayAssumption
  <2> QED
    BY <1>1, <2>1, <2>2, <2>3, <2>4, <2>5, <2>6
       DEF RelayTypeOK, Statuses, Places
<1>4. Calls  BY <1>2 DEF Calls, NotYet, AnsweredIsDone, KnownBelow, Levels
<1>5. RanAnswer  BY <1>2, AnswersAre DEF RanAnswer
<1>6. ThreadsAccounted  BY <1>2, RelayAssumption DEF ThreadsAccounted
<1>7. WaitersHoldThreads  BY <1>2 DEF WaitersHoldThreads, Levels
<1> QED  BY <1>3, <1>4, <1>5, <1>6, <1>7 DEF RelayInv

LEMMA NextKeeps == RelayInv /\ [Next]_vars => RelayInv'
<1> SUFFICES ASSUME RelayInv, [Next]_vars PROVE RelayInv'  OBVIOUS
<1>1. ASSUME NEW r \in Requests, Send(r) PROVE RelayInv'  BY <1>1, SendKeeps
<1>2. ASSUME NEW r \in Requests, Reject(r) PROVE RelayInv'  BY <1>2, RejectKeeps
<1>3. ASSUME NEW r \in Requests, Execute(r) PROVE RelayInv'
  BY <1>3, ExecuteKeeps
<1>4. ASSUME NEW r \in Requests, NEW l \in Levels, Accept(r, l) PROVE RelayInv'
  BY <1>4, AcceptKeeps
<1>5. ASSUME NEW r \in Requests, NEW l \in Levels, Read(r, l) PROVE RelayInv'
  BY <1>5, ReadKeeps
<1>6. ASSUME NEW r \in Requests, NEW l \in Levels, Forward(r, l) PROVE RelayInv'
  BY <1>6, ForwardKeeps
<1>7. ASSUME NEW r \in Requests, NEW l \in Levels, Return(r, l) PROVE RelayInv'
  BY <1>7, ReturnKeeps
<1>8. ASSUME NEW r \in Requests, NEW l \in Levels, Refuse(r, l) PROVE RelayInv'
  BY <1>8, RefuseKeeps
<1>9. ASSUME NEW r \in Requests, NEW l \in Levels, Expire(r, l) PROVE RelayInv'
  BY <1>9, ExpireKeeps
<1>10. ASSUME NEW r \in Requests, NEW l \in Levels, Drop(r, l) PROVE RelayInv'
  BY <1>10, DropKeeps
<1>11. ASSUME NEW s \in Servers, Stop(s) PROVE RelayInv'  BY <1>11, StopKeeps
<1>12. ASSUME NEW s \in Servers, Start(s) PROVE RelayInv'  BY <1>12, StartKeeps
<1>13. CASE UNCHANGED vars  BY <1>13, StutterKeeps
<1> QED
  BY <1>1, <1>2, <1>3, <1>4, <1>5, <1>6, <1>7, <1>8, <1>9, <1>10, <1>11,
     <1>12, <1>13 DEF Next, Serve

-----------------------------------------------------------------------------
(* Theorems                                                                *)

\* However many requests, threads and stops of processes there are, the
\* books of the servers and of their callers agree after every step.
THEOREM RelayInductive == Spec => []RelayInv
BY InitHolds, NextKeeps, PTL DEF Spec

\* The variables of calls, servers and threads stay within their types.
THEOREM RelayTyped == Spec => []RelayTypeOK
<1>1. RelayInv => RelayTypeOK  BY DEF RelayInv
<1> QED  BY <1>1, RelayInductive, PTL

\* A thread of HttpsServer has a request exactly while the handler of it has
\* begun there and not returned, with any number of threads and of requests;
\* a handler that waits for ever has not returned.
THEOREM NoThreadLost == Spec => []ThreadsAccounted
<1>1. RelayInv => ThreadsAccounted  BY DEF RelayInv
<1> QED  BY <1>1, RelayInductive, PTL

\* While relay() waits below, the caller's thread is held above, whether or not
\* anybody waits for it still; after a failed call it is held unless the
\* caller's own call failed or was forgotten.
THEOREM CallersHoldThreads == Spec => []WaitersHoldThreads
<1>1. RelayInv => WaitersHoldThreads  BY DEF RelayInv
<1> QED  BY <1>1, RelayInductive, PTL

\* The routes of api and of access lead every command of the client to the
\* handler it names, which runs once at most, whatever is timed out, dropped
\* or cut off; and an answer of 200 says that it ran.
THEOREM RunsOnceAsMeant == Spec => []OnceAsMeant
<1>1. RelayInv => OnceAsMeant  BY DEF RelayInv, RanAnswer, OnceAsMeant
<1> QED  BY <1>1, RelayInductive, PTL

LEMMA ReleaseStep ==
  ASSUME RelayInv, [Next]_vars, NEW r \in Requests, NEW l \in {1, 2},
         served[r][l] = "handling", served'[r][l] # "handling"
  PROVE  \/ ~up'[ServerAt(r, l)]
         \/ asked[r][l + 1] = "answered"
         \/ answer[r].status = 404
<1> USE DEF RelayInv
<1>0. l \in Levels /\ served \in [Requests -> [Levels -> Places]]
  BY DEF Levels, RelayTypeOK, Places
<1>1. ASSUME NEW q \in Requests, NEW m \in Levels, Return(q, m)
      PROVE  asked[r][l + 1] = "answered" \/ answer[r].status = 404
  <2>1. q = r /\ m = l
    <3>1. served' = Set(served, q, m, "done")  BY <1>1 DEF Return
    <3>2. "done" \in Places  BY DEF Places
    <3> HIDE DEF RelayInv
    <3>3. served'[r][l] = IF r = q /\ l = m THEN "done" ELSE served[r][l]
      BY <1>0, <3>1, <3>2, SetServed
    <3> QED  BY <3>3
  <2>2. HasAnswer(r, l)  BY <1>1, <2>1 DEF Return
  <2> QED  BY <2>2 DEF HasAnswer, RanAnswer
<1>2. ASSUME NEW s \in Servers, Stop(s)
      PROVE  ~up'[ServerAt(r, l)]
  <2>1. ServerAt(r, l) = s
    <3>1. served' = [q \in Requests |-> [m \in Levels |->
             IF \/ served[q][m] \in Pending /\ ServerAt(q, m) = s
                \/ /\ /\ m > 1
                      /\ served[q][m - 1] \in Pending /\ ServerAt(q, m - 1) = s
                      /\ asked[q][m] = "waiting"
                   /\ served[q][m] \in {"no", "connecting"}
             THEN "done" ELSE served[q][m]]]
      BY <1>2 DEF Stop
    <3> QED  BY <1>0, <3>1
  <2> QED  BY <1>2, <2>1 DEF Stop, RelayTypeOK
<1>3. ASSUME NEW q \in Requests, NEW m \in Levels,
             \/ served' = Set(served, q, m, "connecting")
                /\ served[q][m] # "handling"
             \/ served' = Set(served, q, m, "queued")
                /\ served[q][m] # "handling"
             \/ served' = Set(served, q, m, "handling")
             \/ served' = Set(served, q, m, "done")
                /\ served[q][m] # "handling"
      PROVE  FALSE
  <2>1. \A x \in {"connecting", "queued", "handling", "done"} : x \in Places
    BY DEF Places, Pending
  <2> HIDE DEF RelayInv
  <2>2. ASSUME NEW x \in Places, served' = Set(served, q, m, x)
        PROVE  served'[r][l] = IF r = q /\ l = m THEN x ELSE served[r][l]
    BY <1>0, <2>2, SetServed
  <2> QED  BY <1>3, <2>1, <2>2
<1>4. ASSUME NEW q \in Requests, NEW m \in Levels, NEW s,
             Call(q, m, s), asked[q][m] = "no"
      PROVE  FALSE
  <2>1. served[q][m] # "handling"
    BY <1>4, ServedServer
  <2>2. served' = served \/ served' = Set(served, q, m, "connecting")
    BY <1>4 DEF Call
  <2> QED  BY <1>3, <2>1, <2>2
<1>5. ASSUME NEW q \in Requests, Send(q) PROVE FALSE
  <2>1. 1 \in Levels  BY DEF Levels
  <2> QED  BY <1>4, <1>5, <2>1 DEF Send
<1>6. ASSUME NEW q \in Requests, NEW m \in Levels, Forward(q, m) PROVE FALSE
  <2>1. m + 1 \in Levels  BY <1>6 DEF Forward, Levels
  <2> QED  BY <1>4, <1>6, <2>1 DEF Forward
<1>7. ASSUME NEW q \in Requests, NEW m \in Levels,
             Accept(q, m) \/ Read(q, m) \/ Expire(q, m) \/ Drop(q, m)
      PROVE  FALSE
  <2>1. CASE Accept(q, m)  BY <1>3, <2>1 DEF Accept
  <2>2. CASE Read(q, m)  BY <1>3, <2>2 DEF Read
  <2>3. CASE Expire(q, m)  BY <1>3, <2>3 DEF Expire
  <2>4. CASE Drop(q, m)  BY <1>3, <2>4 DEF Drop
  <2> QED  BY <1>7, <2>1, <2>2, <2>3, <2>4
<1>8. ASSUME served' = served PROVE FALSE  BY <1>8
<1> QED
  BY <1>1, <1>2, <1>5, <1>6, <1>7, <1>8
     DEF Next, Serve, Reject, Execute, Refuse, Start, vars

\* No timeout and no failed call releases a thread of api or access: relay()
\* gives it back when the call below is answered, or the path is unknown, or
\* the process ends.
THEOREM FailuresKeepThreads == Spec => OnlyAnswerReleases
<1>1. RelayInv /\ [Next]_vars =>
        [\A r \in Requests : \A l \in {1, 2} :
           served[r][l] = "handling" /\ served'[r][l] # "handling" =>
             \/ ~up'[ServerAt(r, l)]
             \/ asked[r][l + 1] = "answered"
             \/ answer[r].status = 404]_vars
  BY ReleaseStep
<1> QED  BY <1>1, RelayInductive, PTL DEF Spec, OnlyAnswerReleases

============================================================================
