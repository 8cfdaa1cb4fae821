-------------------------------- MODULE Sums --------------------------------
(***************************************************************************)
(* Sums over finite sets, MapThenSumSet of the community modules: that the *)
(* recursion it is defined by has a solution, and that one element more,   *)
(* or one summand changed, changes the sum by just that.                   *)
(***************************************************************************)
EXTENDS Integers, FiniteSets, FiniteSetsExt, FiniteSetTheorems, WellFoundedInduction, TLAPS

\* The element that a sum over s sets apart.
Pick(s) == CHOOSE x \in s : TRUE

\* g holds the sum of F over every subset of S.
Adds(g, F, S) ==
    g = [s \in SUBSET S |-> IF s = {} THEN 0 ELSE F[Pick(s)] + g[s \ {Pick(s)}]]

Sum(F, S) == (CHOOSE g : Adds(g, F, S))[S]

\* The community modules' sum of a function's values is this one.
LEMMA SumIsSum ==
    ASSUME NEW F, NEW S
    PROVE  MapThenSumSet(LAMBDA x : F[x], S) = Sum(F, S)
BY DEF MapThenSumSet, MapThenFoldSet, Sum, Adds, Pick

-----------------------------------------------------------------------------

\* Sets of subsets of a finite set have a smallest one: what stands in for
\* induction on the size of a finite set.
LEMMA SmallestSubset ==
    ASSUME NEW S, IsFiniteSet(S), NEW T \in SUBSET SUBSET S, T # {}
    PROVE  \E m \in T : \A s \in T : s \subseteq m => s = m
<1>1. T \subseteq FiniteSubsetsOf(S)
  BY FS_Subset DEF FiniteSubsetsOf
<1>2. PICK m \in T : \A s \in T : <<s, m>> \notin StrictSubsetOrdering(S)
  BY <1>1, FS_StrictSubsetOrderingWellFounded, WFMin
<1>3. QED
  BY <1>2 DEF StrictSubsetOrdering

\* What a sum sets apart is there.
LEMMA PickIsThere == ASSUME NEW s, s # {} PROVE Pick(s) \in s
BY DEF Pick

\* Two tables of sums agree where the summands do.
LEMMA AddsAgree ==
    ASSUME NEW S, IsFiniteSet(S), NEW R, NEW F, NEW G, NEW g, NEW h,
           Adds(g, F, S), Adds(h, G, R),
           NEW T \in SUBSET (S \intersect R), \A x \in T : F[x] = G[x]
    PROVE  g[T] = h[T]
<1> DEFINE Bad == {s \in SUBSET T : g[s] # h[s]}
<1>1. SUFFICES ASSUME Bad # {} PROVE FALSE
  OBVIOUS
<1>2. PICK m \in Bad : \A s \in Bad : s \subseteq m => s = m
  <2>1. Bad \in SUBSET SUBSET S
    OBVIOUS
  <2> HIDE DEF Bad
  <2>2. QED
    BY <1>1, <2>1, SmallestSubset
<1>3. m # {}
  BY DEF Adds
<1>4. Pick(m) \in m /\ m \ {Pick(m)} \in SUBSET T /\ m \ {Pick(m)} # m
  BY <1>3, PickIsThere
<1>5. g[m \ {Pick(m)}] = h[m \ {Pick(m)}]
  BY <1>2, <1>4
<1>6. /\ g[m] = F[Pick(m)] + g[m \ {Pick(m)}]
      /\ h[m] = G[Pick(m)] + h[m \ {Pick(m)}]
  BY <1>3 DEF Adds
<1>7. QED
  BY <1>2, <1>4, <1>5, <1>6

\* A finite set has its table of sums.
LEMMA AddsExists ==
    ASSUME NEW S, IsFiniteSet(S), NEW F
    PROVE  \E g : Adds(g, F, S)
<1> DEFINE Bad == {s \in SUBSET S : \A g : ~Adds(g, F, s)}
<1>1. SUFFICES ASSUME Bad # {} PROVE FALSE
  OBVIOUS
<1>2. PICK m \in Bad : \A s \in Bad : s \subseteq m => s = m
  <2>1. Bad \in SUBSET SUBSET S
    OBVIOUS
  <2> HIDE DEF Bad
  <2>2. QED
    BY <1>1, <2>1, SmallestSubset
<1>3. IsFiniteSet(m) /\ \A s \in SUBSET m : IsFiniteSet(s)
  BY FS_Subset
<1>4. ASSUME NEW s \in SUBSET m, s # m
      PROVE  Adds(CHOOSE g : Adds(g, F, s), F, s)
  BY <1>2, <1>4
<1> DEFINE h == [s \in SUBSET m |-> IF s = {} THEN 0
                                   ELSE F[Pick(s)] + Sum(F, s \ {Pick(s)})]
<1>5. ASSUME NEW s \in SUBSET m, s # m PROVE h[s] = Sum(F, s)
  <2>1. PICK g : g = (CHOOSE f : Adds(f, F, s)) /\ Adds(g, F, s)
    BY <1>4, <1>5
  <2>2. Sum(F, s) = g[s]
    BY <2>1 DEF Sum
  <2>3. CASE s = {}
    BY <2>1, <2>2, <2>3 DEF Adds
  <2>4. CASE s # {}
    <3>1. Pick(s) \in s
      BY <2>4, PickIsThere
    <3>2. PICK r : r = s \ {Pick(s)}
      OBVIOUS
    <3>3. PICK f : f = (CHOOSE e : Adds(e, F, r)) /\ Adds(f, F, r)
      BY <1>4, <1>5, <3>1, <3>2
    <3>4. g[r] = f[r]
      BY <1>3, <2>1, <3>2, <3>3, AddsAgree
    <3>5. g[s] = F[Pick(s)] + g[r]
      BY <2>1, <2>4, <3>2 DEF Adds
    <3>6. h[s] = F[Pick(s)] + Sum(F, r)
      BY <2>4, <3>2
    <3>7. QED
      BY <2>2, <3>3, <3>4, <3>5, <3>6 DEF Sum
  <2>5. QED
    BY <2>3, <2>4
<1>6. h = [s \in SUBSET m |-> IF s = {} THEN 0 ELSE F[Pick(s)] + h[s \ {Pick(s)}]]
  <2>1. ASSUME NEW s \in SUBSET m, s # {}
        PROVE  h[s \ {Pick(s)}] = Sum(F, s \ {Pick(s)})
    <3>1. s \ {Pick(s)} \in SUBSET m /\ s \ {Pick(s)} # m
      BY <2>1, PickIsThere
    <3> HIDE DEF h
    <3>2. QED
      BY <1>5, <3>1
  <2>2. h = [s \in SUBSET m |-> IF s = {} THEN 0
                                ELSE F[Pick(s)] + Sum(F, s \ {Pick(s)})]
    OBVIOUS
  <2> HIDE DEF h
  <2>3. QED
    BY <2>1, <2>2
<1> HIDE DEF h
<1>7. Adds(h, F, m)
  BY <1>6 DEF Adds
<1>8. QED
  BY <1>2, <1>7

LEMMA SumAdds ==
    ASSUME NEW S, IsFiniteSet(S), NEW F
    PROVE  \E g : Adds(g, F, S) /\ \A T \in SUBSET S : Sum(F, T) = g[T]
<1>1. PICK g : Adds(g, F, S)
  BY AddsExists
<1>2. ASSUME NEW T \in SUBSET S PROVE Sum(F, T) = g[T]
  <2>1. IsFiniteSet(T)
    BY FS_Subset
  <2>2. PICK h : h = (CHOOSE f : Adds(f, F, T)) /\ Adds(h, F, T)
    BY <2>1, AddsExists
  <2>3. h[T] = g[T]
    BY <1>1, <2>1, <2>2, AddsAgree
  <2>4. QED
    BY <2>2, <2>3 DEF Sum
<1>3. QED
  BY <1>1, <1>2

-----------------------------------------------------------------------------

LEMMA SumEmpty == ASSUME NEW F PROVE Sum(F, {}) = 0
<1>1. IsFiniteSet({})
  BY FS_EmptySet
<1>2. PICK g : Adds(g, F, {}) /\ \A T \in SUBSET {} : Sum(F, T) = g[T]
  BY <1>1, SumAdds
<1>3. g[{}] = 0
  BY <1>2 DEF Adds
<1>4. QED
  BY <1>2, <1>3

\* Nothing adds up to nothing.
LEMMA SumZero ==
    ASSUME NEW S, IsFiniteSet(S), NEW F, \A x \in S : F[x] = 0
    PROVE  Sum(F, S) = 0
<1>1. PICK g : Adds(g, F, S) /\ \A T \in SUBSET S : Sum(F, T) = g[T]
  BY SumAdds
<1> DEFINE Bad == {s \in SUBSET S : g[s] # 0}
<1>2. SUFFICES ASSUME Bad # {} PROVE FALSE
  BY <1>1
<1>3. PICK m \in Bad : \A s \in Bad : s \subseteq m => s = m
  <2>1. Bad \in SUBSET SUBSET S
    OBVIOUS
  <2> HIDE DEF Bad
  <2>2. QED
    BY <1>2, <2>1, SmallestSubset
<1>4. m # {}
  BY <1>1 DEF Adds
<1>5. Pick(m) \in m
  BY <1>4, PickIsThere
<1>6. g[m \ {Pick(m)}] = 0
  BY <1>3, <1>5
<1>7. g[m] = F[Pick(m)] + g[m \ {Pick(m)}]
  BY <1>1, <1>4 DEF Adds
<1>8. QED
  BY <1>3, <1>5, <1>6, <1>7

\* Natural summands add up to a natural number.
LEMMA SumIsNat ==
    ASSUME NEW S, IsFiniteSet(S), NEW F, \A x \in S : F[x] \in Nat
    PROVE  Sum(F, S) \in Nat
<1>1. PICK g : Adds(g, F, S) /\ \A T \in SUBSET S : Sum(F, T) = g[T]
  BY SumAdds
<1> DEFINE Bad == {s \in SUBSET S : g[s] \notin Nat}
<1>2. SUFFICES ASSUME Bad # {} PROVE FALSE
  BY <1>1
<1>3. PICK m \in Bad : \A s \in Bad : s \subseteq m => s = m
  <2>1. Bad \in SUBSET SUBSET S
    OBVIOUS
  <2> HIDE DEF Bad
  <2>2. QED
    BY <1>2, <2>1, SmallestSubset
<1>4. m # {}
  BY <1>1 DEF Adds
<1>5. Pick(m) \in m
  BY <1>4, PickIsThere
<1>6. g[m \ {Pick(m)}] \in Nat
  BY <1>3, <1>5
<1>7. g[m] = F[Pick(m)] + g[m \ {Pick(m)}]
  BY <1>1, <1>4 DEF Adds
<1>8. QED
  BY <1>3, <1>5, <1>6, <1>7

\* Whatever the order they are added in: any element may be set apart.
LEMMA SumSplit ==
    ASSUME NEW S, IsFiniteSet(S), NEW F, \A x \in S : F[x] \in Nat, NEW e \in S
    PROVE  Sum(F, S) = F[e] + Sum(F, S \ {e})
<1>1. PICK g : Adds(g, F, S) /\ \A T \in SUBSET S : Sum(F, T) = g[T]
  BY SumAdds
<1>2. \A T \in SUBSET S : g[T] \in Nat
  <2>1. \A T \in SUBSET S : IsFiniteSet(T)
    BY FS_Subset
  <2>2. QED
    BY <1>1, <2>1, SumIsNat
<1> DEFINE Bad == {s \in SUBSET S : \E x \in s : g[s] # F[x] + g[s \ {x}]}
<1>3. SUFFICES ASSUME Bad # {} PROVE FALSE
  <2>1. Bad = {} => g[S] = F[e] + g[S \ {e}]
    <3>1. SUFFICES ASSUME g[S] # F[e] + g[S \ {e}] PROVE S \in Bad
      OBVIOUS
    <3>2. QED
      BY <3>1
  <2>2. Sum(F, S) = g[S] /\ Sum(F, S \ {e}) = g[S \ {e}]
    BY <1>1
  <2>3. QED
    BY <2>1, <2>2
<1>4. PICK m \in Bad : \A s \in Bad : s \subseteq m => s = m
  <2>1. Bad \in SUBSET SUBSET S
    OBVIOUS
  <2> HIDE DEF Bad
  <2>2. QED
    BY <1>3, <2>1, SmallestSubset
<1>5. PICK x \in m : g[m] # F[x] + g[m \ {x}]
  OBVIOUS
<1>6. PICK p : p = Pick(m) /\ p \in m
  BY PickIsThere
<1>7. g[m] = F[p] + g[m \ {p}]
  BY <1>1, <1>6 DEF Adds
<1>8. x # p
  BY <1>5, <1>7
<1>9. ASSUME NEW y \in m, NEW z \in m, y # z
      PROVE  g[m \ {y}] = F[z] + g[(m \ {y}) \ {z}]
  <2>1. m \ {y} \in SUBSET S /\ m \ {y} \subseteq m /\ m \ {y} # m /\ z \in m \ {y}
    BY <1>9
  <2>2. m \ {y} \notin Bad
    BY <1>4, <2>1
  <2>3. QED
    BY <2>1, <2>2
<1>10. /\ g[m \ {p}] = F[x] + g[(m \ {p}) \ {x}]
       /\ g[m \ {x}] = F[p] + g[(m \ {x}) \ {p}]
  BY <1>6, <1>8, <1>9
<1>11. (m \ {p}) \ {x} = (m \ {x}) \ {p}
  OBVIOUS
<1>12. F[x] \in Nat /\ F[p] \in Nat /\ g[(m \ {x}) \ {p}] \in Nat
  <2>1. (m \ {x}) \ {p} \in SUBSET S
    OBVIOUS
  <2>2. QED
    BY <1>2, <1>6, <2>1
<1>13. QED
  <2> PICK r : r = g[(m \ {x}) \ {p}]
    OBVIOUS
  <2>1. g[m \ {p}] = F[x] + r /\ g[m \ {x}] = F[p] + r /\ r \in Nat
    BY <1>10, <1>11, <1>12
  <2>2. QED
    BY <1>5, <1>7, <1>12, <2>1

\* Equal summands, equal sums.
LEMMA SumSame ==
    ASSUME NEW S, IsFiniteSet(S), NEW F, NEW G, \A x \in S : F[x] = G[x]
    PROVE  Sum(F, S) = Sum(G, S)
<1>1. PICK g : Adds(g, F, S) /\ \A T \in SUBSET S : Sum(F, T) = g[T]
  BY SumAdds
<1>2. PICK h : Adds(h, G, S) /\ \A T \in SUBSET S : Sum(G, T) = h[T]
  BY SumAdds
<1>3. g[S] = h[S]
  BY <1>1, <1>2, AddsAgree
<1>4. QED
  BY <1>1, <1>2, <1>3

\* One summand changes: the sum changes with it.
LEMMA SumChanged ==
    ASSUME NEW S, IsFiniteSet(S), NEW F, NEW G, NEW e \in S,
           \A x \in S : F[x] \in Nat /\ G[x] \in Nat,
           \A x \in S \ {e} : F[x] = G[x]
    PROVE  Sum(F, S) + G[e] = Sum(G, S) + F[e]
<1>1. IsFiniteSet(S \ {e})
  BY FS_Subset
<1>2. Sum(F, S \ {e}) = Sum(G, S \ {e}) /\ Sum(G, S \ {e}) \in Nat
  BY <1>1, SumSame, SumIsNat
<1>3. Sum(F, S) = F[e] + Sum(F, S \ {e})
  BY SumSplit
<1>4. Sum(G, S) = G[e] + Sum(G, S \ {e})
  BY SumSplit
<1>5. QED
  BY <1>2, <1>3, <1>4
=============================================================================
