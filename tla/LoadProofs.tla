----------------------------- MODULE LoadProofs -----------------------------
(***************************************************************************)
(* What core/embed.cxx reckons a host to bear is what LoadAssumption of    *)
(* Testbed asks of Overloaded, whatever the attributes of computers and    *)
(* hosts are: nothing overloads no host, and less is no more.              *)
(***************************************************************************)
EXTENDS Load, FiniteSetTheorems, TLAPS

-----------------------------------------------------------------------------
(* Sums over finite sets                                                   *)

\* Of some subsets of a finite set, one has none of the others within it.
LEMMA LeastSet ==
  ASSUME NEW U, IsFiniteSet(U), NEW D \in SUBSET SUBSET U, D # {}
  PROVE  \E s \in D : \A t \in D : t \subseteq s => t = s
<1> DEFINE R == StrictSubsetOrdering(U)
<1>1. IsWellFoundedOn(R, SUBSET U)
  BY FS_StrictSubsetOrderingWellFounded, FS_FiniteSubsetsOfFinite
<1>2. \A s, t \in SUBSET U : t \subseteq s /\ t # s => <<t, s>> \in R
  BY DEF StrictSubsetOrdering
<1> HIDE DEF R
<1>3. \E s \in D : \A t \in D : ~(<<t, s>> \in R)  BY <1>1, WFMin
<1> QED  BY <1>2, <1>3

Some(s) == CHOOSE x \in s : TRUE

Sum(f, s) == SumFunctionOnSet(f, s)

\* The recursion of the library's sum.
IsSum(f, S, iter) ==
  iter = [s \in SUBSET S |->
            IF s = {} THEN 0 ELSE f[Some(s)] + iter[s \ {Some(s)}]]

LEMMA SumIs ==
  ASSUME NEW U, IsFiniteSet(U), NEW f, NEW S \in SUBSET U
  PROVE  Sum(f, S) = IF S = {} THEN 0 ELSE f[Some(S)] + Sum(f, S \ {Some(S)})
<1> DEFINE Next(s, g(_)) == IF s = {} THEN 0 ELSE f[Some(s)] + g(s \ {Some(s)})
           V(s) == Sum(f, s)
           Good(s) == V(s) = Next(s, V)
           D == {s \in SUBSET U : ~Good(s)}
<1>1. \A s : s # {} => s \ {Some(s)} \subseteq s /\ s \ {Some(s)} # s
  BY DEF Some
<1> SUFFICES ASSUME D # {} PROVE FALSE
  OBVIOUS
<1>2. PICK s \in D : \A t \in D : t \subseteq s => t = s
  <2>1. D \in SUBSET SUBSET U  OBVIOUS
  <2> HIDE DEF D
  <2> QED  BY <2>1, LeastSet
<1>3. s \in SUBSET U /\ ~Good(s)  BY <1>2
<1>4. \A t \in SUBSET s : t # s => Good(t)  BY <1>2, <1>3
<1>5. V(s) = (CHOOSE g : IsSum(f, s, g))[s]
  BY DEF Sum, SumFunctionOnSet, FoldFunctionOnSet, MapThenFoldSet, IsSum, Some
<1> HIDE DEF V, D
<1> DEFINE h == [t \in SUBSET s |-> Next(t, V)]
<1>6. IsSum(f, s, h)
  <2> SUFFICES ASSUME NEW t \in SUBSET s, t # {}
               PROVE  h[t \ {Some(t)}] = V(t \ {Some(t)})
    BY DEF IsSum
  <2> DEFINE u == t \ {Some(t)}
  <2>1. u \in SUBSET s /\ u # s  BY <1>1
  <2>2. V(u) = Next(u, V)  BY <1>4, <2>1
  <2> HIDE DEF u
  <2> QED  BY <2>1, <2>2 DEF u
<1>7. PICK g : IsSum(f, s, g) /\ V(s) = g[s]  BY <1>5, <1>6
<1>8. \A t \in SUBSET s : t # s => g[t] = V(t)
  <2> DEFINE E == {t \in SUBSET s : t # s /\ g[t] # V(t)}
  <2> SUFFICES ASSUME E # {} PROVE FALSE
    OBVIOUS
  <2>1. PICK t \in E : \A u \in E : u \subseteq t => u = t
    <3>1. E \in SUBSET SUBSET U  BY <1>3
    <3> HIDE DEF E
    <3> QED  BY <3>1, LeastSet
  <2>2. t \in SUBSET s /\ t # s /\ g[t] # V(t)  BY <2>1
  <2>3. t # {} => g[t \ {Some(t)}] = V(t \ {Some(t)})
    <3> SUFFICES ASSUME t # {} PROVE g[t \ {Some(t)}] = V(t \ {Some(t)})
      OBVIOUS
    <3> DEFINE u == t \ {Some(t)}
    <3>1. u \subseteq t /\ u # t /\ u \in SUBSET s /\ u # s  BY <1>1, <2>2
    <3>2. u \notin E  BY <2>1, <3>1
    <3> HIDE DEF u
    <3>3. g[u] = V(u)  BY <3>1, <3>2
    <3> QED  BY <3>3 DEF u
  <2>4. g[t] = Next(t, V)  BY <1>7, <2>2, <2>3 DEF IsSum
  <2> QED  BY <1>4, <2>2, <2>4
<1>9. g[s] = Next(s, V)
  <2>1. g[s] = IF s = {} THEN 0 ELSE f[Some(s)] + g[s \ {Some(s)}]
    BY <1>7 DEF IsSum
  <2>2. s # {} => g[s \ {Some(s)}] = V(s \ {Some(s)})  BY <1>1, <1>8
  <2> QED  BY <2>1, <2>2
<1> QED  BY <1>3, <1>7, <1>9

\* To show something of the sum over a finite set it suffices to show it of the
\* sum over the least set for which it could be wrong; SumIs is the step.

LEMMA SumType ==
  ASSUME NEW N \in {Nat, Int},
         NEW S, IsFiniteSet(S), NEW f, \A x \in S : f[x] \in N
  PROVE  Sum(f, S) \in N
<1>0. \A s \in SUBSET S :
        Sum(f, s) = IF s = {} THEN 0 ELSE f[Some(s)] + Sum(f, s \ {Some(s)})
  BY SumIs
<1> DEFINE D == {s \in SUBSET S : Sum(f, s) \notin N}
<1> SUFFICES ASSUME D # {} PROVE FALSE
  OBVIOUS
<1>1. PICK s \in D : \A t \in D : t \subseteq s => t = s
  <2>1. D \in SUBSET SUBSET S  OBVIOUS
  <2> HIDE DEF D
  <2> QED  BY <2>1, LeastSet
<1>2. s \in SUBSET S /\ Sum(f, s) \notin N  BY <1>1
<1>3. Sum(f, s) = IF s = {} THEN 0 ELSE f[Some(s)] + Sum(f, s \ {Some(s)})
  BY <1>0, <1>2
<1>4. CASE s = {}  BY <1>2, <1>3, <1>4
<1>5. CASE s # {}
  <2>1. Some(s) \in s  BY <1>5 DEF Some
  <2>2. Sum(f, s \ {Some(s)}) \in N  BY <1>1, <1>2, <2>1
  <2> QED  BY <1>2, <1>3, <1>5, <2>1, <2>2
<1> QED  BY <1>4, <1>5

LEMMA SumNat ==
  ASSUME NEW S, IsFiniteSet(S), NEW f, \A x \in S : f[x] \in Nat
  PROVE  Sum(f, S) \in Nat
BY SumType

\* Only the values on the set count.
LEMMA SumSame ==
  ASSUME NEW S, IsFiniteSet(S), NEW f, NEW g, \A x \in S : f[x] = g[x]
  PROVE  Sum(f, S) = Sum(g, S)
<1> DEFINE D == {s \in SUBSET S : Sum(f, s) # Sum(g, s)}
<1> SUFFICES ASSUME D # {} PROVE FALSE
  OBVIOUS
<1>1. PICK s \in D : \A t \in D : t \subseteq s => t = s
  <2>1. D \in SUBSET SUBSET S  OBVIOUS
  <2> HIDE DEF D
  <2> QED  BY <2>1, LeastSet
<1>2. s \in SUBSET S /\ Sum(f, s) # Sum(g, s)  BY <1>1
<1>3. /\ Sum(f, s) = IF s = {} THEN 0 ELSE f[Some(s)] + Sum(f, s \ {Some(s)})
      /\ Sum(g, s) = IF s = {} THEN 0 ELSE g[Some(s)] + Sum(g, s \ {Some(s)})
  BY <1>2, SumIs
<1>4. CASE s = {}  BY <1>2, <1>3, <1>4
<1>5. CASE s # {}
  <2>1. Some(s) \in s  BY <1>5 DEF Some
  <2>2. Sum(f, s \ {Some(s)}) = Sum(g, s \ {Some(s)})  BY <1>1, <1>2, <2>1
  <2> QED  BY <1>2, <1>3, <1>5, <2>1, <2>2
<1> QED  BY <1>4, <1>5

\* Any element may be taken first.
LEMMA SumWithout ==
  ASSUME NEW S, IsFiniteSet(S), NEW f, \A x \in S : f[x] \in Nat
  PROVE  \A x \in S : Sum(f, S) = f[x] + Sum(f, S \ {x})
<1> DEFINE Good(s) == \A x \in s : Sum(f, s) = f[x] + Sum(f, s \ {x})
           D == {s \in SUBSET S : ~Good(s)}
<1> SUFFICES ASSUME D # {} PROVE FALSE
  OBVIOUS
<1>1. PICK s \in D : \A t \in D : t \subseteq s => t = s
  <2>1. D \in SUBSET SUBSET S  OBVIOUS
  <2> HIDE DEF D
  <2> QED  BY <2>1, LeastSet
<1>2. \A t \in SUBSET s : t # s => Good(t)  BY <1>1
<1>3. PICK x \in s : Sum(f, s) # f[x] + Sum(f, s \ {x})  BY <1>1
<1>4. s \in SUBSET S  BY <1>1
<1> DEFINE y == Some(s)
<1>5. y \in s  BY <1>3 DEF Some
<1>6. Sum(f, s) = f[y] + Sum(f, s \ {y})  BY <1>3, <1>4, SumIs
<1> HIDE DEF y, D
<1>7. y # x  BY <1>3, <1>6
<1>8. Sum(f, s \ {y}) = f[x] + Sum(f, (s \ {y}) \ {x})
  <2>1. s \ {y} \in SUBSET s /\ s \ {y} # s /\ x \in s \ {y}  BY <1>5, <1>7
  <2> QED  BY <1>2, <2>1
<1>9. Sum(f, s \ {x}) = f[y] + Sum(f, (s \ {x}) \ {y})
  <2>1. s \ {x} \in SUBSET s /\ s \ {x} # s /\ y \in s \ {x}  BY <1>5, <1>7
  <2> QED  BY <1>2, <2>1
<1>10. (s \ {y}) \ {x} = (s \ {x}) \ {y}  OBVIOUS
<1>11. Sum(f, (s \ {x}) \ {y}) \in Nat
  <2>1. (s \ {x}) \ {y} \in SUBSET S  BY <1>4
  <2> QED  BY <2>1, FS_Subset, SumNat
<1>12. f[x] \in Nat /\ f[y] \in Nat  BY <1>4, <1>5
<1>13. Sum(f, s \ {y}) = f[x] + Sum(f, (s \ {x}) \ {y})  BY <1>8, <1>10
<1> QED  BY <1>3, <1>6, <1>9, <1>11, <1>12, <1>13

\* The sum over a part is no more.
LEMMA SumLess ==
  ASSUME NEW S, IsFiniteSet(S), NEW f, \A x \in S : f[x] \in Nat,
         NEW T \in SUBSET S
  PROVE  Sum(f, T) <= Sum(f, S)
<1> DEFINE D == {s \in SUBSET S : T \subseteq s /\ ~(Sum(f, T) <= Sum(f, s))}
<1> SUFFICES ASSUME D # {} PROVE FALSE
  OBVIOUS
<1>1. PICK s \in D : \A t \in D : t \subseteq s => t = s
  <2>1. D \in SUBSET SUBSET S  OBVIOUS
  <2> HIDE DEF D
  <2> QED  BY <2>1, LeastSet
<1>2. s \in SUBSET S /\ T \subseteq s /\ ~(Sum(f, T) <= Sum(f, s))  BY <1>1
<1>3. \A t \in SUBSET S : IsFiniteSet(t) /\ Sum(f, t) \in Nat
  <2> SUFFICES ASSUME NEW t \in SUBSET S
               PROVE  IsFiniteSet(t) /\ Sum(f, t) \in Nat
    OBVIOUS
  <2>1. IsFiniteSet(t)  BY FS_Subset
  <2> QED  BY <2>1, SumNat
<1>4. T # s  BY <1>2, <1>3
<1>5. PICK x \in s : x \notin T  BY <1>2, <1>4
<1>6. s \ {x} \notin D  BY <1>1, <1>5
<1>7. Sum(f, T) <= Sum(f, s \ {x})  BY <1>2, <1>5, <1>6
<1>8. Sum(f, s) = f[x] + Sum(f, s \ {x})  BY <1>2, <1>3, <1>5, SumWithout
<1>9. /\ f[x] \in Nat /\ Sum(f, s \ {x}) \in Nat /\ Sum(f, T) \in Nat
  BY <1>2, <1>3, <1>5
<1> QED  BY <1>2, <1>7, <1>8, <1>9

-----------------------------------------------------------------------------
(* Loads                                                                   *)

LEMMA MegaNat == ASSUME NEW x \in Size PROVE Mega(x) \in Nat
<1>1. x.size \in Nat /\ x.unit \in {"mb", "gb", "tb", "b", "kb"}
  BY DEF Size, Left, Right
<1>2. 2 ^ 0 \in Nat /\ 2 ^ 10 \in Nat \ {0} /\ 2 ^ 20 \in Nat \ {0}
  OBVIOUS
<1>3. /\ DOMAIN Left = {"mb", "gb", "tb"}
      /\ Left["mb"] = 0 /\ Left["gb"] = 10 /\ Left["tb"] = 20
      /\ Right["b"] = 20 /\ Right["kb"] = 10
  BY DEF Left, Right
<1>4. \A d \in Nat \ {0} : x.size \div d \in Nat  BY <1>1
<1>5. \A d \in Nat : x.size * d \in Nat  BY <1>1
<1>6. CASE x.unit = "b"  BY <1>2, <1>3, <1>4, <1>6 DEF Mega
<1>7. CASE x.unit = "kb"  BY <1>2, <1>3, <1>4, <1>7 DEF Mega
<1>8. CASE x.unit = "mb"  BY <1>2, <1>3, <1>5, <1>8 DEF Mega
<1>9. CASE x.unit = "gb"  BY <1>2, <1>3, <1>5, <1>9 DEF Mega
<1>10. CASE x.unit = "tb"  BY <1>2, <1>3, <1>5, <1>10 DEF Mega
<1> QED  BY <1>1, <1>6, <1>7, <1>8, <1>9, <1>10

LEMMA SpecNat ==
  ASSUME NEW name \in DOMAIN Specs, NEW r \in Resources
  PROVE  HwSpec[name][r] \in Nat
<1>1. /\ Specs[name].cores \in Nat /\ Specs[name].memory \in Size
      /\ Specs[name].disk \in Size /\ Specs[name].nics \in Seq(Size)
  BY SpecsAssumption
<1>2. Nics(name) \in Nat
  <2> DEFINE nics == Specs[name].nics
             f == [i \in DOMAIN nics |-> Mega(nics[i])]
  <2>1. DOMAIN nics = 1 .. Len(nics) /\ Len(nics) \in Nat  BY <1>1
  <2>2. IsFiniteSet(DOMAIN f)  BY <2>1, FS_Interval
  <2>3. \A i \in DOMAIN f : f[i] \in Nat  BY <1>1, MegaNat
  <2>4. Mega(Cifx) \in Nat  BY MegaNat DEF Cifx, Size, Left
  <2> HIDE DEF f
  <2>5. SumFunction(f) \in Nat  BY <2>2, <2>3, SumNat DEF SumFunction, Sum
  <2> QED  BY <2>4, <2>5 DEF Nics, f
<1> QED  BY <1>1, <1>2, MegaNat DEF HwSpec, Resources

LEMMA UsedLess ==
  ASSUME NEW S, IsFiniteSet(S), \A m \in S : m[1] \in DOMAIN Specs,
         NEW T \in SUBSET S, NEW r \in Resources
  PROVE  Used(T, r) \in Nat /\ Used(S, r) \in Nat /\ Used(T, r) <= Used(S, r)
<1> DEFINE f == [m \in S |-> HwSpec[m[1]][r]]
           g == [m \in T |-> HwSpec[m[1]][r]]
<1>1. \A m \in S : f[m] \in Nat  BY SpecNat
<1>2. IsFiniteSet(T) /\ \A m \in T : g[m] = f[m] /\ f[m] \in Nat
  BY <1>1, FS_Subset
<1>3. Used(S, r) = Sum(f, S) /\ Used(T, r) = Sum(g, T)
  BY DEF Used, SumFunction, Sum
<1> HIDE DEF f, g
<1>4. Sum(g, T) = Sum(f, T)  BY <1>2, SumSame
<1>5. Sum(f, T) \in Nat /\ Sum(f, S) \in Nat  BY <1>1, <1>2, SumNat
<1> QED  BY <1>1, <1>3, <1>4, <1>5, SumLess

\* LoadAssumption of Testbed, of hosts H and computers C: what HostEmbedding
\* adds up of machines is nothing for none and no more for fewer, in each of the
\* four resources, so that a host from which machines are taken still bears
\* the others.
THEOREM LoadIsMonotone ==
  ASSUME NEW H, NEW C, IsFiniteSet(C), \A x \in H \cup C : x[1] \in DOMAIN Specs
  PROVE  \A h \in H :
           /\ ~VectorOverloaded(h, {})
           /\ \A S \in SUBSET C :
                ~VectorOverloaded(h, S) =>
                  \A T \in SUBSET S : ~VectorOverloaded(h, T)
<1> SUFFICES ASSUME NEW h \in H
             PROVE  /\ ~VectorOverloaded(h, {})
                    /\ \A S \in SUBSET C :
                         ~VectorOverloaded(h, S) =>
                           \A T \in SUBSET S : ~VectorOverloaded(h, T)
  OBVIOUS
<1>1. \A r \in Resources : Total(h, r) \in Nat  BY SpecNat DEF Total
<1>2. \A r \in Resources : Used({}, r) = 0
  <2> SUFFICES ASSUME NEW r \in Resources PROVE Used({}, r) = 0
    OBVIOUS
  <2> DEFINE f == [m \in {} |-> HwSpec[m[1]][r]]
  <2>1. Used({}, r) = Sum(f, {})  BY DEF Used, SumFunction, Sum
  <2> HIDE DEF f
  <2> QED  BY <2>1, SumIs, FS_EmptySet
<1>3. ~VectorOverloaded(h, {})  BY <1>1, <1>2 DEF VectorOverloaded
<1>4. ASSUME NEW S \in SUBSET C, ~VectorOverloaded(h, S), NEW T \in SUBSET S
      PROVE  ~VectorOverloaded(h, T)
  <2>1. IsFiniteSet(S) /\ \A m \in S : m[1] \in DOMAIN Specs  BY FS_Subset
  <2>2. \A r \in Resources : /\ Used(T, r) \in Nat /\ Used(S, r) \in Nat
                             /\ Used(T, r) <= Used(S, r)
    BY <2>1, UsedLess
  <2> QED  BY <1>1, <1>4, <2>2 DEF VectorOverloaded
<1> QED  BY <1>3, <1>4

\* FreeAssumption of Testbed: how free a host is can be compared.
THEOREM FreeIsInt ==
  ASSUME NEW h, h[1] \in DOMAIN Specs,
         NEW S, IsFiniteSet(S), \A m \in S : m[1] \in DOMAIN Specs
  PROVE  FreeNorm(h, S) \in Int
<1> DEFINE f == [r \in Resources |-> PartsFree(h, S, r)]
<1>1. ASSUME NEW r \in Resources PROVE PartsFree(h, S, r) \in Int
  <2>1. Total(h, r) \in Nat /\ Used(S, r) \in Nat /\ Scale \in Nat
    BY SpecNat, UsedLess, ScaleAssumption DEF Total
  <2>2. Used(S, r) * Scale \in Nat  BY <2>1
  <2> QED  BY <2>1, <2>2 DEF PartsFree
<1>2. IsFiniteSet(Resources)
  <2>1. Resources = {"proc"} \cup {"mem"} \cup {"net"} \cup {"disk"}
    BY DEF Resources
  <2> QED  BY <2>1, FS_Singleton, FS_Union
<1>3. \A r \in Resources : f[r] \in Int  BY <1>1
<1>4. FreeNorm(h, S) = Sum(f, Resources)  BY DEF FreeNorm, SumFunction, Sum
<1> HIDE DEF f
<1> QED  BY <1>2, <1>3, <1>4, SumType

=============================================================================
