--------------------------- MODULE BlueprintLife ---------------------------
(***************************************************************************)
(* What a client may rely on about a blueprint: it is saved before it is   *)
(* materialized, and it cannot be deleted until it is destructed.          *)
(***************************************************************************)
CONSTANT Names

VARIABLE stage

Stages == {"absent", "saved", "materialized"}

\* A database an earlier session left.
Init == stage \in [Names -> Stages]

Move(n, from, to) == stage[n] = from /\ stage' = [stage EXCEPT ![n] = to]

\* Saving over a saved or a materialized blueprint leaves its stage alone.
SaveBlueprint(n) == Move(n, "absent", "saved")
DeleteBlueprint(n) == Move(n, "saved", "absent")
Construct(n) == Move(n, "saved", "materialized")
Destruct(n) == Move(n, "materialized", "saved")

Next ==
  \E n \in Names :
    SaveBlueprint(n) \/ DeleteBlueprint(n) \/ Construct(n) \/ Destruct(n)

Spec == Init /\ [][Next]_stage

=============================================================================
