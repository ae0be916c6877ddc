-------------------------- MODULE LinearIdCacheMap --------------------------
(***************************************************************************)
(* The id allocators of a host controller: LinearIdCacheMap of             *)
(* core/util.hxx, one per name in Maps, and the plain critical section     *)
(* around live_blueprints, which has a lock of the same kind.              *)
(*                                                                         *)
(* The lock is one std::unique_lock object that all threads use.  Its      *)
(* lock() throws when its own flag says it owns the mutex, else waits for  *)
(* the mutex and sets the flag; its unlock() throws when the flag is not   *)
(* set, else releases the mutex and then clears the flag.  Nothing guards  *)
(* the flag.  A data race on the hash table itself is not modelled beyond  *)
(* the order of its operations, the mildest of its outcomes.               *)
(***************************************************************************)
EXTENDS Integers

CONSTANTS
  Threads,       \* threads that may be in a call
  NoThread,      \* the mutex is free
  Maps,          \* the locks, each with a map
  Keys,          \* uuids of networks, macs of computers
  NoId           \* the key has no id

ASSUME MapAssumption ==
  NoThread \notin Threads /\ NoId \notin Nat /\ Keys # {}

VARIABLES
  mtx,           \* Maps -> owner of mtx_
  owns,          \* Maps -> the flag inside lk_
  nextId,        \* Maps -> v_
  ids,           \* Maps -> m_
  call           \* Threads -> the call in progress and its outcome

mapVars == <<mtx, owns, nextId, ids, call>>

CallPcs == {"lock", "take", "inside", "unlock", "disown", "draw", "store",
            "returned", "threw"}

Ops == {"create", "get", "erase", "section"}

NoCall == [pc |-> "none"]

Calls == [pc : CallPcs, map : Maps, op : Ops, key : Keys, id : Nat \cup {NoId}]
           \cup {NoCall}

MapTypeOK ==
  /\ mtx \in [Maps -> Threads \cup {NoThread}]
  /\ owns \in [Maps -> BOOLEAN]
  /\ nextId \in [Maps -> Nat]
  /\ ids \in [Maps -> [Keys -> Nat \cup {NoId}]]
  /\ call \in [Threads -> Calls]

\* A process that has just started.
NewMaps ==
  [mtx |-> [m \in Maps |-> NoThread], owns |-> [m \in Maps |-> FALSE],
   nextId |-> [m \in Maps |-> 0],
   ids |-> [m \in Maps |-> [k \in Keys |-> NoId]],
   call |-> [t \in Threads |-> NoCall]]

MapInit ==
  /\ mtx = NewMaps.mtx /\ owns = NewMaps.owns /\ nextId = NewMaps.nextId
  /\ ids = NewMaps.ids /\ call = NewMaps.call

MapReset ==
  /\ mtx' = NewMaps.mtx /\ owns' = NewMaps.owns /\ nextId' = NewMaps.nextId
  /\ ids' = NewMaps.ids /\ call' = NewMaps.call

-----------------------------------------------------------------------------

Invocation(m, op, k) ==
  [pc |-> "lock", map |-> m, op |-> op, key |-> k, id |-> NoId]

\* What a caller does to make a call, and to go on after it.
MakeCall(t, m, op, k) ==
  /\ call' = [call EXCEPT ![t] = Invocation(m, op, k)]
  /\ UNCHANGED <<mtx, owns, nextId, ids>>

Called(t, op) == call[t].pc = "returned" /\ call[t].op = op

EndCall(t) ==
  /\ call' = [call EXCEPT ![t] = NoCall]
  /\ UNCHANGED <<mtx, owns, nextId, ids>>

Advance(t, pc) == call' = [call EXCEPT ![t].pc = pc]

\* Mutant: mtx_ is locked directly, and a second lock waits for ever.
BugPlainMutex(t) ==
  /\ call[t].pc = "lock"
  /\ Advance(t, "take")
  /\ UNCHANGED <<mtx, owns, nextId, ids>>

\* lk_.lock(), up to the test of the flag.
Lock(t) ==
  /\ call[t].pc = "lock"
  /\ Advance(t, IF owns[call[t].map] THEN "threw" ELSE "take")
  /\ UNCHANGED <<mtx, owns, nextId, ids>>

\* Mutant: the flag alone decides.
BugFlagOnly(t) ==
  LET m == call[t].map
  IN  /\ call[t].pc = "take"
      /\ mtx' = [mtx EXCEPT ![m] = t]
      /\ owns' = [owns EXCEPT ![m] = TRUE]
      /\ Advance(t, "inside")
      /\ UNCHANGED <<nextId, ids>>

\* The mutex is taken, and the flag set: nobody can tell the two apart.
Take(t) ==
  LET m == call[t].map
  IN  /\ call[t].pc = "take"
      /\ mtx[m] = NoThread
      /\ mtx' = [mtx EXCEPT ![m] = t]
      /\ owns' = [owns EXCEPT ![m] = TRUE]
      /\ Advance(t, "inside")
      /\ UNCHANGED <<nextId, ids>>

\* Between lock and unlock.  at() throws for a key that is not there, and
\* nothing then unlocks.  Mutant: the early return of create does not unlock.
BugReturnsLocked(t) ==
  LET m == call[t].map   k == call[t].key   id == ids[m][k]
  IN  /\ call[t].pc = "inside"
      /\ call' = [call EXCEPT
           ![t].id = IF call[t].op \in {"create", "get"} THEN id ELSE NoId,
           ![t].pc = IF call[t].op = "get" /\ id = NoId THEN "threw"
                     ELSE IF call[t].op = "create" /\ id # NoId THEN "returned"
                     ELSE "unlock"]
      /\ ids' = IF call[t].op = "erase" THEN [ids EXCEPT ![m][k] = NoId] ELSE ids
      /\ UNCHANGED <<mtx, owns, nextId>>

Inside(t) ==
  LET m == call[t].map   k == call[t].key   id == ids[m][k]
  IN  /\ call[t].pc = "inside"
      /\ call' = [call EXCEPT
           ![t].id = IF call[t].op \in {"create", "get"} THEN id ELSE NoId,
           ![t].pc = IF call[t].op = "get" /\ id = NoId THEN "threw" ELSE "unlock"]
      /\ ids' = IF call[t].op = "erase" THEN [ids EXCEPT ![m][k] = NoId] ELSE ids
      /\ UNCHANGED <<mtx, owns, nextId>>

\* lk_.unlock(), up to the release of the mutex.
Unlock(t) ==
  LET m == call[t].map
  IN  /\ call[t].pc = "unlock"
      /\ \/ owns[m] /\ mtx' = [mtx EXCEPT ![m] = NoThread] /\ Advance(t, "disown")
         \/ ~ owns[m] /\ UNCHANGED mtx /\ Advance(t, "threw")
      /\ UNCHANGED <<owns, nextId, ids>>

\* Mutant: create looks up and never draws.
BugNeverDraws(t) ==
  /\ call[t].pc = "disown"
  /\ owns' = [owns EXCEPT ![call[t].map] = FALSE]
  /\ Advance(t, "returned")
  /\ UNCHANGED <<mtx, nextId, ids>>

Disown(t) ==
  /\ call[t].pc = "disown"
  /\ owns' = [owns EXCEPT ![call[t].map] = FALSE]
  /\ Advance(t, IF call[t].op = "create" /\ call[t].id = NoId
                THEN "draw" ELSE "returned")
  /\ UNCHANGED <<mtx, nextId, ids>>

\* return m_[key] = v_++, with the lock released: v_ is read...
Draw(t) ==
  /\ call[t].pc = "draw"
  /\ call' = [call EXCEPT ![t].pc = "store", ![t].id = nextId[call[t].map]]
  /\ UNCHANGED <<mtx, owns, nextId, ids>>

\* Mutant: v_ instead of v_++.
BugSameNumber(t) ==
  /\ call[t].pc = "store"
  /\ ids' = [ids EXCEPT ![call[t].map][call[t].key] = call[t].id]
  /\ Advance(t, "returned")
  /\ UNCHANGED <<mtx, owns, nextId>>

\* ...and written, and the key is given the number.
Store(t) ==
  LET m == call[t].map   id == call[t].id
  IN  /\ call[t].pc = "store"
      /\ nextId' = [nextId EXCEPT ![m] = id + 1]
      /\ ids' = [ids EXCEPT ![m][call[t].key] = id]
      /\ Advance(t, "returned")
      /\ UNCHANGED <<mtx, owns>>

MapStep(t) ==
  \/ Lock(t) \/ Take(t) \/ Inside(t) \/ Unlock(t) \/ Disown(t)
  \/ Draw(t) \/ Store(t)

=============================================================================
