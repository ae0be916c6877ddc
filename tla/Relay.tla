------------------------------- MODULE Relay -------------------------------
(***************************************************************************)
(* A command of the client travels through the api and access servers to a *)
(* service and its answer travels back (core/client.cxx, api/api.cxx,      *)
(* core/access.cxx, common/net).  relay() of common/net/http_server.cxx    *)
(* makes a call of its own while it handles one, and blocks its thread     *)
(* until that call is answered.  A call that fails is never answered: the  *)
(* promise of HttpRequest is left alone.                                   *)
(***************************************************************************)
EXTENDS Naturals, Sequences, FiniteSets

CONSTANTS
  Requests,       \* each the one call of a client process
  Wishes,         \* what each may ask for
  Pool,           \* the threads of each server
  Free,           \* what a thread without a request has
  MaxStops        \* bound: server processes that end

ASSUME RelayAssumption ==
  /\ Free \notin Requests
  /\ MaxStops \in Nat

-----------------------------------------------------------------------------
\* Who asks for what, and where it is led.  A path is <<service, operation>>.

Ask(service, op, params, wants) ==
  [path |-> <<service, op>>, params |-> params, wants |-> wants]

\* The commands of the client, and what each reads from the answer.  The last
\* two are of other programs that use the api: one asks for what is not there
\* and one leaves a parameter out.
Command ==
  [bps |-> Ask("blueprint", "list", {"project"}, {"blueprints"}),
   mzs |-> Ask("materialization", "list", {"project"}, {"materializations"}),
   save |-> Ask("blueprint", "save", {"project", "source"}, {}),
   rm |-> Ask("blueprint", "delete", {"project", "bpid"}, {}),
   up |-> Ask("materialization", "construct", {"project", "bpid"}, {}),
   down |-> Ask("materialization", "destruct", {"project", "bpid"}, {}),
   topo |-> Ask("materialization", "topo", {}, {}),
   dump |-> Ask("materialization", "status", {}, {"topo"}),
   stray |-> Ask("blueprint", "rename", {"project", "bpid"}, {}),
   short |-> Ask("blueprint", "save", {"project"}, {})]

ASSUME WishesAssumption ==
  \A r \in Requests : Wishes[r] # {} /\ Wishes[r] \subseteq DOMAIN Command

Operations ==
  [accounts |-> {"addUser", "userInfo", "addGroup", "removeUser",
                 "removeGroup", "list"},
   blueprint |-> {"save", "check", "get", "delete", "list"},
   materialization |-> {"construct", "destruct", "info", "list", "topo",
                        "status"}]

Services == DOMAIN Operations

Paths == UNION {{s} \X Operations[s] : s \in Services}

\* Mutant: a line is copied and not changed, as in the code two others were.
BugApiRoute ==
  [p \in Paths |-> IF p = <<"materialization", "destruct">>
                   THEN <<"materialization", "construct">> ELSE p]

\* What the api asks access for ...
ApiRoute ==
  [p \in Paths |-> IF p \in {<<"accounts", "removeGroup">>, <<"accounts", "list">>}
                   THEN <<"accounts", "removeUser">> ELSE p]

\* ... and what access asks the service for.
AccessRoute ==
  [p \in Paths |-> IF p \in {<<"accounts", "removeGroup">>, <<"accounts", "list">>}
                   THEN <<"accounts", "removeUser">> ELSE p]

\* The parameters a handler extracts before anything else.  The message of
\* topo is the topology itself.
Needs(p) ==
  CASE p = <<"blueprint", "save">> -> {"project", "source"}
    [] p \in {"blueprint"} \X {"check", "get", "delete"} -> {"project", "bpid"}
    [] p \in {"materialization"} \X {"construct", "destruct", "info"} ->
         {"project", "bpid"}
    [] p \in {"blueprint", "materialization"} \X {"list"} -> {"project"}
    [] OTHER -> {}

\* What it puts in an answer of status 200 that somebody reads.
Gives(p) ==
  {k \in {"blueprints", "materializations", "topo"} :
     <<p, k>> \in {<<<<"blueprint", "list">>, "blueprints">>,
                  <<<<"materialization", "list">>, "materializations">>,
                  <<<<"materialization", "status">>, "topo">>}}

Servers == {"api", "access"} \cup Services

ASSUME PoolAssumption == \A s \in Servers : Pool[s] # {}

Threads == UNION {Pool[s] : s \in Servers}

\* 1 leads to api, 2 to access, 3 to the service.
Levels == 1 .. 3

NoAnswer == [status |-> 0, keys |-> {}]

Answer(status, keys) == [status |-> status, keys |-> keys]

Answers ==
  {NoAnswer} \cup {Answer(404, {}), Answer(400, {}), Answer(500, {})} \cup
  {Answer(200, Gives(p)) : p \in Paths}

-----------------------------------------------------------------------------

VARIABLES
  cmd,      \* the command of each request
  asked,    \* of each call, what its caller knows
  served,   \* of each call, what its callee has done
  at,       \* the thread of the callee that has its connection
  thread,   \* the request each thread of a server handles
  answer,   \* the answer that is on its way back
  ran,      \* the operations that services were asked for and began
  up, stops

vars == <<cmd, asked, served, at, thread, answer, ran, up, stops>>

\* The path that the service is asked for.
Target(r) == AccessRoute[ApiRoute[Command[cmd[r]].path]]

\* Mutant: the api asks itself.
BugAsksItself(r, l) == IF l = 3 THEN Target(r)[1] ELSE "api"

ServerAt(r, l) ==
  IF l = 1 THEN "api" ELSE IF l = 2 THEN "access" ELSE Target(r)[1]

\* The servers have a handler for the path.
Known(r) == Command[cmd[r]].path \in Paths

\* What at says of a connection that no thread has.
NoThread == CHOOSE w \in Threads : TRUE

Set(f, r, l, x) == [f EXCEPT ![r] = [@ EXCEPT ![l] = x]]

\* HttpRequest: connect to a server, whose acceptor picks a thread.
Call(r, l, s) ==
  /\ asked' = Set(asked, r, l, "waiting")
  /\ served' = IF up[s] THEN Set(served, r, l, "connecting") ELSE served
  /\ \E w \in Pool[s] : at' = IF up[s] THEN Set(at, r, l, w) ELSE at

Send(r) ==
  /\ asked[r][1] = "no"
  /\ \E c \in Wishes[r] : cmd' = [cmd EXCEPT ![r] = c]
  /\ Call(r, 1, "api")
  /\ UNCHANGED <<thread, answer, ran, up, stops>>

\* A thread is idle for as long as no handler runs on it.
Idle(r, l) == thread[ServerAt(r, l)][at[r][l]] = Free

\* Handshake, after which the request is sent.
Accept(r, l) ==
  /\ served[r][l] = "connecting"
  /\ Idle(r, l)
  /\ served' = Set(served, r, l, "queued")
  /\ UNCHANGED <<cmd, asked, at, thread, answer, ran, up, stops>>

\* onEOM
Read(r, l) ==
  /\ served[r][l] = "queued"
  /\ Idle(r, l)
  /\ served' = Set(served, r, l, "handling")
  /\ thread' = Set(thread, ServerAt(r, l), at[r][l], r)
  /\ UNCHANGED <<cmd, asked, at, answer, ran, up, stops>>

\* relay() calls the next server.
Forward(r, l) ==
  /\ l \in {1, 2}
  /\ served[r][l] = "handling"
  /\ asked[r][l + 1] = "no"
  /\ Known(r)
  /\ Call(r, l + 1, ServerAt(r, l + 1))
  /\ UNCHANGED <<cmd, thread, answer, ran, up, stops>>

\* No handler: 404, as soon as api.
Reject(r) ==
  /\ served[r][1] = "handling"
  /\ ~Known(r)
  /\ answer[r] = NoAnswer
  /\ answer' = [answer EXCEPT ![r] = Answer(404, {})]
  /\ UNCHANGED <<cmd, asked, served, at, thread, ran, up, stops>>

\* Mutant: the handler answers with what it was asked.
BugEchoes(r) ==
  /\ served[r][3] = "handling"
  /\ answer[r] = NoAnswer
  /\ ran' = [ran EXCEPT ![r] = Append(@, Target(r))]
  /\ answer' = [answer EXCEPT ![r] = Answer(200, Command[cmd[r]].params)]
  /\ UNCHANGED <<cmd, asked, served, at, thread, up, stops>>

\* The handler of a service, of which the other modules say what it does.
\* Left out: get and check of a blueprint that is not there, which are answered
\* with 400 too, and which no command of the client asks for.
Execute(r) ==
  /\ served[r][3] = "handling"
  /\ answer[r] = NoAnswer
  /\ \/ /\ Needs(Target(r)) \subseteq Command[cmd[r]].params
        /\ ran' = [ran EXCEPT ![r] = Append(@, Target(r))]
        /\ answer' \in {[answer EXCEPT ![r] = Answer(200, Gives(Target(r)))],
                        [answer EXCEPT ![r] = Answer(500, {})]}
     \/ /\ ~(Needs(Target(r)) \subseteq Command[cmd[r]].params)
        /\ answer' = [answer EXCEPT ![r] = Answer(400, {})]
        /\ UNCHANGED ran
  /\ UNCHANGED <<cmd, asked, served, at, thread, up, stops>>

\* Mutant: an answer is passed on before the call below is at its end.
BugAnswersEarly(r, l) == answer[r] # NoAnswer

\* Mutant: a failed call releases the handler too.
BugFailureReleases(r, l) ==
  /\ answer[r] # NoAnswer
  /\ \/ l = 3 \/ ~Known(r)
     \/ l < 3 /\ asked[r][l + 1] \in {"answered", "failed"}

\* The handler at l has what it answers with: relay() the answer to its call.
HasAnswer(r, l) ==
  /\ answer[r] # NoAnswer
  /\ \/ l = 3
     \/ l = 1 /\ ~Known(r)
     \/ l < 3 /\ asked[r][l + 1] = "answered"

\* Mutant: the thread is kept when the caller has failed.
BugKeepsThread(r, l) ==
  /\ served[r][l] = "handling"
  /\ HasAnswer(r, l)
  /\ asked' = IF asked[r][l] = "waiting" THEN Set(asked, r, l, "answered")
                                         ELSE asked
  /\ thread' = IF asked[r][l] # "waiting" THEN thread
               ELSE Set(thread, ServerAt(r, l), at[r][l], Free)
  /\ served' = Set(served, r, l, "done")
  /\ at' = Set(at, r, l, NoThread)
  /\ UNCHANGED <<cmd, answer, ran, up, stops>>

\* The handler returns.  A caller that has failed does not hear of it.
Return(r, l) ==
  /\ served[r][l] = "handling"
  /\ HasAnswer(r, l)
  /\ served' = Set(served, r, l, "done")
  /\ thread' = Set(thread, ServerAt(r, l), at[r][l], Free)
  /\ asked' = IF asked[r][l] = "waiting" THEN Set(asked, r, l, "answered")
                                         ELSE asked
  /\ at' = Set(at, r, l, NoThread)
  /\ UNCHANGED <<cmd, answer, ran, up, stops>>

\* connectError, of a server that is not there.
Refuse(r, l) ==
  /\ asked[r][l] = "waiting"
  /\ served[r][l] = "no"
  /\ asked' = Set(asked, r, l, "failed")
  /\ UNCHANGED <<cmd, served, at, thread, answer, ran, up, stops>>

\* connectError after three seconds, onError after five.  A request that was
\* sent may yet be handled.
Expire(r, l) ==
  /\ asked[r][l] = "waiting"
  /\ served[r][l] # "no"
  /\ asked' = Set(asked, r, l, "failed")
  /\ IF served[r][l] = "connecting"
     THEN served' = Set(served, r, l, "done") /\ at' = Set(at, r, l, NoThread)
     ELSE UNCHANGED <<served, at>>
  /\ UNCHANGED <<cmd, thread, answer, ran, up, stops>>

\* The thread finds the connection closed before it has read the request.
Drop(r, l) ==
  /\ served[r][l] = "queued"
  /\ asked[r][l] # "waiting"
  /\ Idle(r, l)
  /\ served' = Set(served, r, l, "done")
  /\ at' = Set(at, r, l, NoThread)
  /\ UNCHANGED <<cmd, asked, thread, answer, ran, up, stops>>

Pending == {"connecting", "queued", "handling"}

\* The process of a server ends.  Calls to it fail, and of its own calls
\* nobody hears any more.
Stop(s) ==
  /\ up[s]
  /\ stops < MaxStops
  /\ stops' = stops + 1
  /\ up' = [up EXCEPT ![s] = FALSE]
  /\ thread' = [thread EXCEPT ![s] = [w \in Threads |-> Free]]
  /\ LET here(r, l) == served[r][l] \in Pending /\ ServerAt(r, l) = s
         orphan(r, l) == l > 1 /\ here(r, l - 1) /\ asked[r][l] = "waiting"
     IN /\ asked' =
             [r \in Requests |-> [l \in Levels |->
                IF orphan(r, l) THEN "gone"
                ELSE IF here(r, l) /\ asked[r][l] = "waiting" THEN "failed"
                ELSE asked[r][l]]]
        /\ served' =
             [r \in Requests |-> [l \in Levels |->
                IF \/ here(r, l)
                   \/ orphan(r, l) /\ served[r][l] \in {"no", "connecting"}
                THEN "done" ELSE served[r][l]]]
        /\ at' =
             [r \in Requests |-> [l \in Levels |->
                IF served'[r][l] = "done" THEN NoThread ELSE at[r][l]]]
  /\ UNCHANGED <<cmd, answer, ran>>

Start(s) ==
  /\ ~up[s]
  /\ up' = [up EXCEPT ![s] = TRUE]
  /\ UNCHANGED <<cmd, asked, served, at, thread, answer, ran, stops>>

-----------------------------------------------------------------------------

Init ==
  /\ cmd = [r \in Requests |-> CHOOSE c \in Wishes[r] : TRUE]
  /\ asked = [r \in Requests |-> [l \in Levels |-> "no"]]
  /\ served = [r \in Requests |-> [l \in Levels |-> "no"]]
  /\ at = [r \in Requests |-> [l \in Levels |-> NoThread]]
  /\ thread = [s \in Servers |-> [w \in Threads |-> Free]]
  /\ answer = [r \in Requests |-> NoAnswer]
  /\ ran = [r \in Requests |-> <<>>]
  /\ up = [s \in Servers |-> TRUE]
  /\ stops = 0

\* What the threads of the servers do, and what fails at once.
Serve(r) ==
  \/ Reject(r) \/ Execute(r)
  \/ \E l \in Levels :
       Accept(r, l) \/ Read(r, l) \/ Forward(r, l) \/ Return(r, l) \/ Refuse(r, l)

Next ==
  \/ \E r \in Requests :
       Send(r) \/ Serve(r) \/ \E l \in Levels : Expire(r, l) \/ Drop(r, l)
  \/ \E s \in Servers : Stop(s) \/ Start(s)

Spec == Init /\ [][Next]_vars

\* Threads run, and a refused connection is refused.  Timers may be slow.
FairSpec == Spec /\ \A r \in Requests : WF_vars(Serve(r))

-----------------------------------------------------------------------------
\* Properties

RelayTypeOK ==
  /\ cmd \in [Requests -> DOMAIN Command]
  /\ asked \in [Requests -> [Levels ->
                  {"no", "waiting", "answered", "failed", "gone"}]]
  /\ served \in [Requests -> [Levels -> Pending \cup {"no", "done"}]]
  /\ at \in [Requests -> [Levels -> Threads]]
  /\ thread \in [Servers -> [Threads -> Requests \cup {Free}]]
  /\ answer \in [Requests -> Answers]
  /\ ran \in [Requests -> Seq(Paths)]
  /\ up \in [Servers -> BOOLEAN]
  /\ stops \in 0 .. MaxStops

\* The books of threads and handlers agree, whatever timed out, was dropped or
\* was cut off by the end of a process: a thread of a server has a request
\* exactly when the handler of that request has begun on it and not returned.
\* A thread that relay() keeps for ever in future::get, after a call that
\* failed, counts as one whose handler has not returned.
ThreadsAccounted ==
  \A s \in Servers : \A w \in Threads : \A r \in Requests :
    thread[s][w] = r <=>
      \E l \in Levels :
        served[r][l] = "handling" /\ ServerAt(r, l) = s /\ at[r][l] = w

\* Who waits for an answer below holds a thread above, also when its own caller
\* has given up long since; and who waited for a call that failed goes on to
\* hold it, unless its own call failed or was forgotten too, as it does when
\* the process above ends.
WaitersHoldThreads ==
  \A r \in Requests : \A l \in {2, 3} :
    /\ asked[r][l] = "waiting" => served[r][l - 1] = "handling"
    /\ asked[r][l] = "failed" => \/ served[r][l - 1] = "handling"
                                 \/ asked[r][l - 1] \in {"failed", "gone"}

\* A service runs what the client meant, once at most even if calls time out
\* and connections are dropped; and if the client is told 200 it was run and
\* the answer has what the client reads.
OnceAsMeant ==
  \A r \in Requests :
    /\ ran[r] \in {<<>>, <<Command[cmd[r]].path>>}
    /\ asked[r][1] = "answered" /\ answer[r].status = 200 =>
         /\ ran[r] = <<Command[cmd[r]].path>>
         /\ Command[cmd[r]].wants \subseteq answer[r].keys

\* A thread of api or access is released by an answer, or ends with its
\* process.  This is what the code does and its weakness: connectError and
\* onError (common/net/http_request.cxx:171) never fulfil the promise, so that
\* a call below that failed keeps the thread for good.
OnlyAnswerReleases ==
  [][\A r \in Requests : \A l \in {1, 2} :
       served[r][l] = "handling" /\ served'[r][l] # "handling" =>
         \/ ~up'[ServerAt(r, l)]
         \/ asked[r][l + 1] = "answered"
         \/ answer[r].status = 404]_vars

\* With as few threads as there are, and each held for the whole of a call,
\* requests do not wait for each other in a circle: unless some call fails
\* every client is answered.  Of behaviours in which one fails it says nothing.
SomeCallFailed ==
  \E r \in Requests, l \in Levels : asked[r][l] \in {"failed", "gone"}

AnsweredUnlessFailed ==
  \A r \in Requests :
    (asked[r][1] = "waiting") ~> (asked[r][1] = "answered" \/ SomeCallFailed)

=============================================================================
