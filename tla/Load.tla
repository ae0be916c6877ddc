-------------------------------- MODULE Load --------------------------------
(***************************************************************************)
(* What a set of virtual machines takes of a host, as core/embed.cxx       *)
(* reckons it: four resources, each compared in its own unit after the     *)
(* conversions of core/blueprint.cxx, which round down.  Computers and     *)
(* hosts are looked up by name in Specs, where a program that builds       *)
(* blueprints and topologies would set their attributes.                   *)
(***************************************************************************)
EXTENDS Integers, Sequences, FiniteSets, Functions, FiniteSetsExt

CONSTANTS
  Specs,      \* name -> [cores, memory, disk, nics]; sizes are [size, unit]
  Scale       \* bound: shares of a resource are counted in this many parts

ASSUME ScaleAssumption == Scale \in Nat \ {0}

\* Bits to shift by for megabytes and megabits.
Left == [mb |-> 0, gb |-> 10, tb |-> 20]
Right == [b |-> 20, kb |-> 10]

Size == [size : Nat, unit : DOMAIN Left \cup DOMAIN Right]

ASSUME SpecsAssumption ==
  \A name \in DOMAIN Specs :
    /\ Specs[name].cores \in Nat
    /\ Specs[name].memory \in Size
    /\ Specs[name].disk \in Size
    /\ Specs[name].nics \in Seq(Size)

Mega(x) ==
  IF x.unit \in DOMAIN Left THEN x.size * 2 ^ Left[x.unit]
                            ELSE x.size \div 2 ^ Right[x.unit]

\* Every Computer, and so the one inside every Host, is born with "cifx".
Cifx == [size |-> 1, unit |-> "gb"]

Nics(name) ==
  LET nics == Specs[name].nics
  IN Mega(Cifx) + SumFunction([i \in DOMAIN nics |-> Mega(nics[i])])

Resources == {"proc", "mem", "net", "disk"}

\* What a computer asks for, and what a host has.
HwSpec ==
  [name \in DOMAIN Specs |->
     [proc |-> Specs[name].cores,
      mem  |-> Mega(Specs[name].memory),
      net  |-> Nics(name),
      disk |-> Mega(Specs[name].disk)]]

\* HostEmbedding::load, one resource of the LoadVector.  Host and machines
\* are ids, <<name, draw>>.
Used(machines, r) == SumFunction([m \in machines |-> HwSpec[m[1]][r]])

Total(h, r) == HwSpec[h[1]][r]

VectorOverloaded(h, machines) ==
  \E r \in Resources : Used(machines, r) > Total(h, r)

\* Of a total of 0 nothing is used.  Exact when Scale is a multiple of totals.
PartsFree(h, machines, r) ==
  IF Total(h, r) = 0 THEN Scale
  ELSE Scale - (Used(machines, r) * Scale) \div Total(h, r)

\* LoadVector::free_norm, an average of four; the division by four is left out.
FreeNorm(h, machines) ==
  SumFunction([r \in Resources |-> PartsFree(h, machines, r)])

=============================================================================
