--------------------------- MODULE CollectionProofs ---------------------------
(***************************************************************************)
(* What the sums of the library add up to, which the models are written    *)
(* with.  A sum over a finite set is a recursive function on its subsets,  *)
(* so that what holds of every sum is shown by looking at a smallest set   *)
(* it would not hold of.                                                   *)
(***************************************************************************)
EXTENDS Integers, Sequences, Functions, FiniteSetTheorems, TLAPS

\* Of natural numbers one is the least.
LEMMA LeastNatural ==
    ASSUME NEW T \in SUBSET Nat, T # {}
    PROVE  \E m \in T : \A n \in T : m <= n
  <1>1. \E R : /\ IsWellFoundedOn(R, Nat)
               /\ \A m, n \in Nat : n < m => <<n, m>> \in R
    <2>1. \A m, n \in Nat : n < m => <<n, m>> \in OpToRel(<, Nat)
      BY DEF OpToRel
    <2> QED BY <2>1, NatLessThanWellFounded, Zenon
  <1>2. PICK R : /\ IsWellFoundedOn(R, Nat)
                 /\ \A m, n \in Nat : n < m => <<n, m>> \in R
    BY <1>1
  <1>3. PICK m \in T : \A n \in T : ~(<<n, m>> \in R)
    BY <1>2, WFMin
  <1>4. \A n \in T : ~(n < m)
    BY <1>2, <1>3
  <1> QED BY <1>4

\* Of finitely many elements, sets have one among them that no other lies within.
LEMMA MinimalSubset ==
    ASSUME NEW S, IsFiniteSet(S), NEW T \in SUBSET SUBSET S, T # {}
    PROVE  \E s \in T : \A t \in T : t \subseteq s => t = s
  <1>1. T \subseteq FiniteSubsetsOf(S)
    BY FS_FiniteSubsetsOfFinite
  <1>2. PICK s \in T : \A t \in T : ~(<<t, s>> \in StrictSubsetOrdering(S))
    BY <1>1, FS_StrictSubsetOrderingWellFounded, WFMin
  <1> QED BY <1>2 DEF StrictSubsetOrdering

-----------------------------------------------------------------------------
(* Sums. The library adds the element it picks to the sum of the others.   *)

Picked(s) == CHOOSE x \in s : TRUE

SumStep(f, s, g) == IF s = {} THEN 0 ELSE f[Picked(s)] + g[s \ {Picked(s)}]

\* g gives the sums of f over the subsets of S.
Sums(f, S, g) == g = [s \in SUBSET S |-> SumStep(f, s, g)]

\* Sums over different sets agree on what the sets share.
LEMMA SumsAgree ==
    ASSUME NEW S, IsFiniteSet(S), NEW T, NEW f, NEW k, NEW g, NEW h,
           Sums(f, S, g), Sums(k, T, h), \A x \in S \cap T : f[x] = k[x]
    PROVE  \A s \in SUBSET (S \cap T) : g[s] = h[s]
  <1> DEFINE bad == {s \in SUBSET (S \cap T) : g[s] # h[s]}
  <1> SUFFICES ASSUME bad # {} PROVE FALSE
    OBVIOUS
  <1>1. IsFiniteSet(S \cap T)
    BY FS_Subset
  <1>2. PICK s \in bad : \A t \in bad : t \subseteq s => t = s
    <2> HIDE DEF bad
    <2>1. bad \in SUBSET SUBSET (S \cap T) BY DEF bad
    <2> QED BY <1>1, <2>1, MinimalSubset
  <1>3. g[s] = SumStep(f, s, g) /\ h[s] = SumStep(k, s, h)
    BY DEF Sums
  <1>4. s # {}
    BY <1>3 DEF SumStep
  <1>5. Picked(s) \in s
    BY <1>4 DEF Picked
  <1>6. g[s \ {Picked(s)}] = h[s \ {Picked(s)}]
    BY <1>2, <1>5
  <1> QED BY <1>3, <1>4, <1>5, <1>6 DEF SumStep

\* There are such sums over every finite set.
LEMMA SumsExist ==
    ASSUME NEW S, IsFiniteSet(S), NEW f
    PROVE  \E g : Sums(f, S, g)
  <1> DEFINE bad == {s \in SUBSET S : ~\E g : Sums(f, s, g)}
             of(s) == CHOOSE g : Sums(f, s, g)
  <1> SUFFICES ASSUME bad # {} PROVE FALSE
    OBVIOUS
  <1>1. PICK s \in bad : \A t \in bad : t \subseteq s => t = s
    <2> HIDE DEF bad
    <2>1. bad \in SUBSET SUBSET S BY DEF bad
    <2> QED BY <2>1, MinimalSubset
  <1>2. \A t \in SUBSET s : t # s => Sums(f, t, of(t))
    BY <1>1
  <1> DEFINE total(t) == of(t)[t]
             g == [t \in SUBSET s |-> IF t = {} THEN 0
                                      ELSE f[Picked(t)] + total(t \ {Picked(t)})]
  <1> HIDE DEF of
  <1>3. ASSUME NEW u \in SUBSET s, u # s PROVE total(u) = g[u]
    <2>1. total(u) = SumStep(f, u, of(u))
      BY <1>2, <1>3 DEF Sums
    <2>2. CASE u = {} BY <2>1, <2>2 DEF SumStep
    <2>3. CASE u # {}
      <3> DEFINE v == u \ {Picked(u)}
      <3>1. Picked(u) \in u BY <2>3 DEF Picked
      <3>2. v \in SUBSET s /\ v # s BY <3>1, <1>3
      <3>3. Sums(f, u, of(u)) /\ Sums(f, v, of(v)) BY <3>2, <1>2, <1>3
      <3>4. IsFiniteSet(u) BY <1>1, FS_Subset
      <3>5. v \in SUBSET (u \cap v) BY <3>1
      <3>6. of(u)[v] = of(v)[v]
        <4> HIDE DEF v
        <4> QED BY <3>3, <3>4, <3>5, SumsAgree
      <3> QED BY <2>1, <2>3, <3>6 DEF SumStep
    <2> QED BY <2>2, <2>3
  <1>4. ASSUME NEW t \in SUBSET s PROVE g[t] = SumStep(f, t, g)
    <2>1. CASE t = {} BY <2>1 DEF SumStep
    <2>2. CASE t # {}
      <3>1. Picked(t) \in t BY <2>2 DEF Picked
      <3>2. t \ {Picked(t)} \in SUBSET s /\ t \ {Picked(t)} # s BY <3>1
      <3>3. total(t \ {Picked(t)}) = g[t \ {Picked(t)}]
        <4> HIDE DEF total, g
        <4> QED BY <3>2, <1>3
      <3> QED BY <2>2, <3>3 DEF SumStep
    <2> QED BY <2>1, <2>2
  <1>5. Sums(f, s, g)
    <2>1. g = [t \in SUBSET s |-> g[t]] OBVIOUS
    <2> HIDE DEF g
    <2> QED BY <2>1, <1>4 DEF Sums
  <1> QED BY <1>1, <1>5

\* The sum the models take is one of them.
LEMMA SumIsOfSums ==
    ASSUME NEW S, NEW f, IsFiniteSet(S)
    PROVE  \E g : Sums(f, S, g) /\ SumFunctionOnSet(f, S) = g[S]
  <1>1. SumFunctionOnSet(f, S) = (CHOOSE g : Sums(f, S, g))[S]
    BY DEF SumFunctionOnSet, FoldFunctionOnSet, MapThenFoldSet, Sums, SumStep, Picked
  <1> QED BY <1>1, SumsExist

\* The sum over no elements.
LEMMA SumOfNone == \A f : SumFunctionOnSet(f, {}) = 0
  <1>1. ASSUME NEW f PROVE SumFunctionOnSet(f, {}) = 0
    <2>1. PICK g : Sums(f, {}, g) /\ SumFunctionOnSet(f, {}) = g[{}]
      BY SumIsOfSums, FS_EmptySet
    <2> QED BY <2>1 DEF Sums, SumStep
  <1> QED BY <1>1

\* A sum depends on the values at the elements only.
LEMMA SumOfEquals ==
    ASSUME NEW S, IsFiniteSet(S), NEW f, NEW k, \A x \in S : f[x] = k[x]
    PROVE  SumFunctionOnSet(f, S) = SumFunctionOnSet(k, S)
  <1>1. PICK g : Sums(f, S, g) /\ SumFunctionOnSet(f, S) = g[S]
    BY SumIsOfSums
  <1>2. PICK h : Sums(k, S, h) /\ SumFunctionOnSet(k, S) = h[S]
    BY SumIsOfSums
  <1>3. \A s \in SUBSET (S \cap S) : g[s] = h[s]
    BY <1>1, <1>2, SumsAgree
  <1> QED BY <1>1, <1>2, <1>3

\* The element the library picks first is counted once.
LEMMA SumOfPicked ==
    ASSUME NEW S, IsFiniteSet(S), S # {}, NEW f
    PROVE  SumFunctionOnSet(f, S) = f[Picked(S)] + SumFunctionOnSet(f, S \ {Picked(S)})
  <1> DEFINE R == S \ {Picked(S)}
  <1>1. PICK g : Sums(f, S, g) /\ SumFunctionOnSet(f, S) = g[S]
    BY SumIsOfSums
  <1>2. PICK h : Sums(f, R, h) /\ SumFunctionOnSet(f, R) = h[R]
    BY SumIsOfSums, FS_RemoveElement
  <1>3. \A s \in SUBSET (S \cap R) : g[s] = h[s]
    <2> HIDE DEF R
    <2> QED BY <1>1, <1>2, SumsAgree
  <1>4. g[R] = h[R]
    BY <1>3
  <1>5. g[S] = f[Picked(S)] + g[R]
    BY <1>1 DEF Sums, SumStep
  <1> QED BY <1>1, <1>2, <1>4, <1>5

\* Integers add up to one.
LEMMA SumType ==
    ASSUME NEW S, IsFiniteSet(S), NEW f, \A x \in S : f[x] \in Int
    PROVE  SumFunctionOnSet(f, S) \in Int
  <1> DEFINE bad == {s \in SUBSET S : SumFunctionOnSet(f, s) \notin Int}
  <1> SUFFICES ASSUME bad # {} PROVE FALSE
    OBVIOUS
  <1>1. PICK s \in bad : \A t \in bad : t \subseteq s => t = s
    <2> HIDE DEF bad
    <2>1. bad \in SUBSET SUBSET S BY DEF bad
    <2> QED BY <2>1, MinimalSubset
  <1>2. s # {} /\ IsFiniteSet(s)
    <2>0. SumFunctionOnSet(f, {}) \in Int BY SumOfNone
    <2>1. s # {} BY <1>1, <2>0, Zenon
    <2>2. IsFiniteSet(s) BY <1>1, FS_Subset
    <2> QED BY <2>1, <2>2
  <1>3. Picked(s) \in s
    BY <1>2 DEF Picked
  <1>4. SumFunctionOnSet(f, s \ {Picked(s)}) \in Int
    BY <1>1, <1>3
  <1>5. SumFunctionOnSet(f, s) = f[Picked(s)] + SumFunctionOnSet(f, s \ {Picked(s)})
    BY <1>2, SumOfPicked
  <1> QED BY <1>1, <1>3, <1>4, <1>5

\* Any element may be the first: the order of addition makes no difference.
LEMMA SumWithout ==
    ASSUME NEW S, IsFiniteSet(S), NEW f, \A x \in S : f[x] \in Int, NEW x \in S
    PROVE  SumFunctionOnSet(f, S) = f[x] + SumFunctionOnSet(f, S \ {x})
  <1> DEFINE sum(s) == SumFunctionOnSet(f, s)
             bad == {s \in SUBSET S : \E y \in s : sum(s) # f[y] + sum(s \ {y})}
  <1> SUFFICES ASSUME bad # {} PROVE FALSE
    BY Zenon
  <1>1. PICK s \in bad : \A t \in bad : t \subseteq s => t = s
    <2> HIDE DEF bad
    <2>1. bad \in SUBSET SUBSET S BY DEF bad
    <2> QED BY <2>1, MinimalSubset
  <1>2. PICK y \in s : sum(s) # f[y] + sum(s \ {y})
    BY <1>1
  <1>3. ASSUME NEW t \in SUBSET s, t # s, NEW z \in t
        PROVE  sum(t) = f[z] + sum(t \ {z})
    <2> HIDE DEF sum
    <2> QED BY <1>1, <1>3
  <1>4. PICK c \in s : sum(s) = f[c] + sum(s \ {c})
    <2>1. Picked(s) \in s BY <1>2 DEF Picked
    <2>2. IsFiniteSet(s) BY <1>1, FS_Subset
    <2> QED BY <1>2, <2>1, <2>2, SumOfPicked
  <1>5. sum((s \ {c}) \ {y}) \in Int /\ f[y] \in Int /\ f[c] \in Int
    <2>1. (s \ {c}) \ {y} \in SUBSET S BY <1>1
    <2>2. IsFiniteSet((s \ {c}) \ {y}) BY <2>1, FS_Subset
    <2>3. sum((s \ {c}) \ {y}) \in Int BY <2>1, <2>2, SumType
    <2> QED BY <1>1, <2>3
  <1> HIDE DEF sum, bad
  <1>6. y # c
    BY <1>2, <1>4
  <1>7. sum(s \ {c}) = f[y] + sum((s \ {c}) \ {y})
    BY <1>3, <1>6
  <1>8. sum(s \ {y}) = f[c] + sum((s \ {c}) \ {y})
    <2>1. (s \ {y}) \ {c} = (s \ {c}) \ {y} OBVIOUS
    <2> QED BY <1>3, <1>6, <2>1
  <1> QED BY <1>2, <1>4, <1>5, <1>7, <1>8

\* A further element adds its value.
LEMMA SumWith ==
    ASSUME NEW S, IsFiniteSet(S), NEW x, x \notin S,
           NEW f, \A y \in S \cup {x} : f[y] \in Int
    PROVE  SumFunctionOnSet(f, S \cup {x}) = f[x] + SumFunctionOnSet(f, S)
  <1>1. IsFiniteSet(S \cup {x}) BY FS_AddElement
  <1>2. (S \cup {x}) \ {x} = S OBVIOUS
  <1> QED BY <1>1, <1>2, SumWithout

\* A sum changes by what one of its values changes by.
LEMMA SumChanged ==
    ASSUME NEW S, IsFiniteSet(S), NEW x \in S, NEW f, NEW k,
           \A y \in S : f[y] \in Int /\ k[y] \in Int,
           \A y \in S \ {x} : f[y] = k[y]
    PROVE  SumFunctionOnSet(k, S) = SumFunctionOnSet(f, S) + (k[x] - f[x])
  <1> DEFINE R == S \ {x}
  <1>1. IsFiniteSet(R) BY FS_RemoveElement
  <1>2. SumFunctionOnSet(f, R) = SumFunctionOnSet(k, R)
    <2>1. \A y \in R : f[y] = k[y] OBVIOUS
    <2> HIDE DEF R
    <2> QED BY <1>1, <2>1, SumOfEquals
  <1>3. SumFunctionOnSet(f, R) \in Int
    <2>1. \A y \in R : f[y] \in Int OBVIOUS
    <2> HIDE DEF R
    <2> QED BY <1>1, <2>1, SumType
  <1>4. SumFunctionOnSet(f, S) = f[x] + SumFunctionOnSet(f, R) BY SumWithout
  <1>5. SumFunctionOnSet(k, S) = k[x] + SumFunctionOnSet(k, R) BY SumWithout
  <1> HIDE DEF R
  <1> QED BY <1>2, <1>3, <1>4, <1>5

\* What is nowhere more adds up to no more.
LEMMA SumMonotone ==
    ASSUME NEW S, IsFiniteSet(S), NEW f, NEW k,
           \A x \in S : f[x] \in Int /\ k[x] \in Int /\ f[x] <= k[x]
    PROVE  SumFunctionOnSet(f, S) <= SumFunctionOnSet(k, S)
  <1> DEFINE F(s) == SumFunctionOnSet(f, s)
             K(s) == SumFunctionOnSet(k, s)
             bad == {s \in SUBSET S : ~(F(s) <= K(s))}
  <1> SUFFICES ASSUME bad # {} PROVE FALSE
    OBVIOUS
  <1>1. PICK s \in bad : \A t \in bad : t \subseteq s => t = s
    <2> HIDE DEF bad
    <2>1. bad \in SUBSET SUBSET S BY DEF bad
    <2> QED BY <2>1, MinimalSubset
  <1>2. s # {}
    <2>1. F({}) = 0 /\ K({}) = 0 BY SumOfNone, Zenon
    <2>2. F({}) <= K({}) BY <2>1
    <2> HIDE DEF F, K
    <2> QED BY <1>1, <2>2
  <1>3. PICK x \in s : TRUE BY <1>2
  <1>4. IsFiniteSet(s) /\ IsFiniteSet(s \ {x}) BY <1>1, FS_Subset, FS_RemoveElement
  <1>5. F(s) = f[x] + F(s \ {x}) /\ K(s) = k[x] + K(s \ {x})
    BY <1>1, <1>4, SumWithout
  <1>6. F(s \ {x}) \in Int /\ K(s \ {x}) \in Int BY <1>1, <1>4, SumType
  <1>7. F(s \ {x}) <= K(s \ {x}) BY <1>1, <1>3
  <1> HIDE DEF F, K
  <1> QED BY <1>1, <1>3, <1>5, <1>6, <1>7

\* Natural numbers add up to one, and to no less than any of them.
LEMMA SumOfNaturals ==
    ASSUME NEW S, IsFiniteSet(S), NEW f, \A x \in S : f[x] \in Nat
    PROVE  /\ SumFunctionOnSet(f, S) \in Nat
           /\ \A x \in S : f[x] <= SumFunctionOnSet(f, S)
  <1> DEFINE sum(s) == SumFunctionOnSet(f, s)
             bad == {s \in SUBSET S : sum(s) \notin Nat}
  <1>1. \A s \in SUBSET S : sum(s) \in Nat
    <2> SUFFICES ASSUME bad # {} PROVE FALSE
      OBVIOUS
    <2>1. PICK s \in bad : \A t \in bad : t \subseteq s => t = s
      <3> HIDE DEF bad
      <3>1. bad \in SUBSET SUBSET S BY DEF bad
      <3> QED BY <3>1, MinimalSubset
    <2>2. s # {}
      <3>1. sum({}) = 0 BY SumOfNone, Zenon
      <3> HIDE DEF sum
      <3> QED BY <2>1, <3>1
    <2>3. PICK x \in s : TRUE BY <2>2
    <2>4. IsFiniteSet(s) BY <2>1, FS_Subset
    <2>5. sum(s) = f[x] + sum(s \ {x}) BY <2>1, <2>4, SumWithout
    <2>6. sum(s \ {x}) \in Nat BY <2>1, <2>3
    <2> HIDE DEF sum
    <2> QED BY <2>1, <2>3, <2>5, <2>6
  <1>2. ASSUME NEW x \in S PROVE f[x] <= sum(S)
    <2>1. sum(S) = f[x] + sum(S \ {x}) BY SumWithout
    <2>2. sum(S \ {x}) \in Nat BY <1>1
    <2> HIDE DEF sum
    <2> QED BY <2>1, <2>2
  <1>3. sum(S) \in Nat BY <1>1
  <1> QED BY <1>2, <1>3

-----------------------------------------------------------------------------
(* Places. What stands at different places can be counted off.             *)

\* For every number below theirs, one stands behind as many of the others.
LEMMA Ranks ==
    ASSUME NEW S, IsFiniteSet(S), NEW place, \A x \in S : place[x] \in Nat,
           \A x, y \in S : place[x] = place[y] => x = y,
           NEW n \in Nat, n < Cardinality(S)
    PROVE  \E x \in S : Cardinality({y \in S : place[y] < place[x]}) = n
  <1> DEFINE before(T, x) == {y \in T : place[y] < place[x]}
             has(T, k) == \E x \in T : Cardinality(before(T, x)) = k
             bad == {T \in SUBSET S : \E k \in Nat : k < Cardinality(T) /\ ~has(T, k)}
  <1> SUFFICES ASSUME bad # {} PROVE FALSE
    OBVIOUS
  <1>1. PICK T \in bad : \A U \in bad : U \subseteq T => U = T
    <2> HIDE DEF bad
    <2>1. bad \in SUBSET SUBSET S BY DEF bad
    <2> QED BY <2>1, MinimalSubset
  <1>2. PICK k \in Nat : k < Cardinality(T) /\ ~has(T, k) BY <1>1
  <1>3. T \in SUBSET S /\ IsFiniteSet(T) BY <1>1, FS_Subset
  <1>4. T # {}
    <2>1. Cardinality({}) = 0 BY FS_EmptySet
    <2>2. 0 <= k /\ k < Cardinality(T) BY <1>2
    <2> QED BY <2>1, <2>2
  <1>5. PICK m \in T : \A y \in T : place[m] <= place[y]
    <2> DEFINE places == {place[y] : y \in T}
    <2>1. places \in SUBSET Nat /\ places # {} BY <1>3, <1>4
    <2> HIDE DEF places
    <2>2. PICK least \in places : \A i \in places : least <= i BY <2>1, LeastNatural
    <2> QED BY <2>2 DEF places
  <1> DEFINE R == T \ {m}
  <1>6. IsFiniteSet(R) /\ Cardinality(R) = Cardinality(T) - 1 BY <1>3, FS_RemoveElement
  <1>7. Cardinality(T) \in Nat /\ Cardinality(R) \in Nat BY <1>3, <1>6, FS_CardinalityType
  <1>8. k # 0
    <2>1. before(T, m) = {} BY <1>3, <1>5
    <2>2. Cardinality(before(T, m)) = 0 BY <2>1, FS_EmptySet
    <2> QED BY <1>2, <2>2
  <1>9. k - 1 \in Nat /\ k - 1 < Cardinality(R) BY <1>2, <1>6, <1>7, <1>8
  <1>10. has(R, k - 1)
    <2>1. R \in SUBSET S /\ R \subseteq T /\ R # T BY <1>3
    <2>2. R \notin bad
      <3> HIDE DEF bad, R
      <3> QED BY <1>1, <2>1
    <2> QED BY <1>9, <2>1, <2>2
  <1>11. PICK x \in R : Cardinality(before(R, x)) = k - 1 BY <1>10
  <1>12. before(T, x) = before(R, x) \cup {m} /\ m \notin before(R, x)
    <2>1. place[m] \in Nat /\ place[x] \in Nat /\ place[m] # place[x] BY <1>3, <1>11
    <2>2. place[m] < place[x] BY <1>5, <1>11, <2>1
    <2> QED BY <2>2
  <1>13. IsFiniteSet(before(R, x)) BY <1>6, FS_Subset
  <1>14. Cardinality(before(T, x)) = Cardinality(before(R, x)) + 1
    <2> HIDE DEF before
    <2> QED BY <1>12, <1>13, FS_AddElement
  <1>15. Cardinality(before(T, x)) = k BY <1>11, <1>14
  <1> QED BY <1>2, <1>11, <1>15

===========================================================================
