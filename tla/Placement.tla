----------------------------- MODULE Placement -----------------------------
(***************************************************************************)
(* What a testbed promises to those who embed blueprints in it.  The       *)
(* computers of a blueprint that are on a network get their hosts all at   *)
(* once or not at all, no host takes more than it has, and nobody else's   *)
(* computer moves.  A computer on no network is let in with its blueprint  *)
(* but gets no host, and a blueprint that has one never leaves; one that   *)
(* has none takes with it what it came with.                               *)
(***************************************************************************)
CONSTANTS Slots, CompIds, HostIds, NoHost, Overloaded(_, _)

VARIABLES
  place,      \* the host of each computer, or NoHost
  tenants     \* the computers of each blueprint that is embedded: those on
              \* a network (wired) and the others (loose)

On(p, h) == {c \in CompIds : p[c] = h}

Init ==
  /\ place = [c \in CompIds |-> NoHost]
  /\ tenants = <<>>

Tenant == [wired : SUBSET CompIds, loose : SUBSET CompIds]

Admit(k) ==
  /\ k \notin DOMAIN tenants
  /\ tenants' \in [DOMAIN tenants \cup {k} -> Tenant]
  /\ \A j \in DOMAIN tenants : tenants'[j] = tenants[j]
  /\ place' \in [CompIds -> HostIds \cup {NoHost}]
  /\ LET wired == tenants'[k].wired
         loose == tenants'[k].loose
     IN  /\ wired \cap loose = {}
         /\ \A c \in wired : place[c] = NoHost /\ place'[c] # NoHost
         /\ \A c \in loose : place'[c] = NoHost
         /\ \A c \in CompIds \ wired : place'[c] = place[c]
  /\ \A h \in HostIds : ~Overloaded(h, On(place', h))

Evict(k) ==
  /\ k \in DOMAIN tenants
  /\ tenants[k].loose = {}
  /\ place' = [c \in CompIds |->
                 IF c \in tenants[k].wired THEN NoHost ELSE place[c]]
  /\ tenants' = [j \in DOMAIN tenants \ {k} |-> tenants[j]]

Next == \E k \in Slots : Admit(k) \/ Evict(k)

Spec == Init /\ [][Next]_<<place, tenants>>

=============================================================================
