--------------------------- MODULE MCControlPlane ---------------------------
(***************************************************************************)
(* Instances of ControlPlane for TLC.                                      *)
(***************************************************************************)
EXTENDS ControlPlane, TLC

CONSTANTS a, b,           \* blueprint names
          i1, i2,         \* document ids
          n1, n2,         \* networks
          t1, t2          \* topologies

\* A network and nobody on it: the one kind of blueprint the code can
\* materialize over a topology with a switch.
Plain == [id |-> i1, name |-> a, nets |-> {n1}, attached |-> FALSE]

\* The same source compiled again: other ids under the same name.
Again == [id |-> i2, name |-> a, nets |-> {n2}, attached |-> FALSE]

\* With a computer attached to the network.
Wired == [id |-> i2, name |-> a, nets |-> {n2}, attached |-> TRUE]

\* Two networks in one blueprint, and a clone of it under another name.
Pair == [id |-> i1, name |-> a, nets |-> {n1, n2}, attached |-> FALSE]
Twin == [id |-> i1, name |-> b, nets |-> {n1, n2}, attached |-> FALSE]

DocsPlain == {Plain}
DocsWired == {Plain, Wired}
DocsAll == {Plain, Again, Wired}
DocsTwins == {Pair, Twin}

SymMz == Permutations(MzThreads)

=============================================================================
