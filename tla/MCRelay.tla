------------------------------ MODULE MCRelay ------------------------------
(***************************************************************************)
(* Instances of Relay for TLC: one request that may be any, in the way of  *)
(* one that constructs.  The api has two threads, the others have one.     *)
(***************************************************************************)
EXTENDS Relay

CONSTANTS r1, r2, w1, w2

MCWishes ==
  [r \in {r1, r2} |-> IF r = r1 THEN DOMAIN Command ELSE {"up"}]

MCPool == [s \in Servers |-> IF s = "api" THEN {w1, w2} ELSE {w1}]

=============================================================================
